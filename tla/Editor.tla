------------------------------- MODULE Editor -------------------------------
(***************************************************************************)
(* web/src/App.tsx, with hooks/useAuth.ts and api/client.ts under it: the   *)
(* one open file, and the calls whose answers change it.  The code after an *)
(* await runs when the answer comes, whatever the user has done meanwhile,  *)
(* with the values it captured before.  The server is one step per call, as *)
(* AtomicFiles promises, and calls may overtake one another both ways.      *)
(*                                                                          *)
(* Prompts for a path capture nothing that changes, except the one for a    *)
(* new file: its openFile is of the render that opened it, and so is the    *)
(* dirty flag that openFile tests.                                          *)
(***************************************************************************)
EXTENDS Naturals, FiniteSets

CONSTANTS
    Path,       \* paths of markdown files
    Content,    \* contents
    Template,   \* the content of a new file
    Absent,     \* what the disk holds where there is no file
    Call        \* bound of the model: as many calls in flight

ASSUME EditorAssumption == Template \in Content /\ Absent \notin Content \cup Path

VARIABLES
    disk,       \* what the server holds
    file,       \* the open file, or NoFile
    saving,     \* a save is under way
    prompt,     \* the prompt for a new file
    signedIn,   \* useAuth: "authed"
    calls,      \* the calls in flight
    doubt       \* history: paths named by calls that overlapped, or whose
                \* answer was lost after they had taken effect

editorVars == <<disk, file, saving, prompt, signedIn, calls, doubt>>

NoFile == [path |-> Absent]
OpenFile == [path : Path, original : Content, content : Content]

\* prompt remembers whether openFile was dirty, and if not, whether a save was
\* under way then or edits followed ("unsure": history).
Prompt == {"none", "clean", "dirty", "unsure"}

Free == [op |-> "none"]

\* A call: what it asks for; what its continuation captured (held: the dirty
\* flag of a create, whether a delete closes the file); its answer; and
\* (history) whether the user agreed to lose edits, or what he was asked is
\* out of date.
CallRecord ==
    [op : {"open", "save", "create", "rename", "rename_dir", "delete"},
     path : Path, to : Path, data : Content, held : BOOLEAN,
     answer : {"pending", "ok", "error", "denied"}, excused : BOOLEAN]

InFlight(c) == calls[c] # Free
Named(x) == IF x = Free THEN {} ELSE {x.path, x.to}

Dirty == file # NoFile /\ file.content # file.original

\* Saving is disabled just as long as a save is under way, which also ends when
\* it fails or its answer is lost, and there is never a second one.
EditorTypeOK ==
    /\ disk \in [Path -> Content \cup {Absent}]
    /\ file \in OpenFile \cup {NoFile}
    /\ prompt \in Prompt
    /\ signedIn \in BOOLEAN
    /\ calls \in [Call -> CallRecord \cup {Free}]
    /\ doubt \subseteq Path
    /\ Cardinality({c \in Call : InFlight(c) /\ calls[c].op = "save"}) = IF saving THEN 1 ELSE 0

EditorInit ==
    /\ disk \in [Path -> {Template, Absent}]
    /\ file = NoFile
    /\ saving = FALSE
    /\ prompt = "none"
    /\ signedIn = TRUE
    /\ calls = [c \in Call |-> Free]
    /\ doubt = {}

-----------------------------------------------------------------------------
(* What the user does.  The page under a prompt stays in reach of the       *)
(* keyboard; a second prompt takes the place of the first.                  *)

Clash(x) ==
    {d \in Call : /\ Named(x) \cap Named(calls[d]) # {}
                  /\ x.op # "open" \/ calls[d].op # "open"}

Sends(c, x) ==
    /\ ~InFlight(c)
    /\ calls' = [calls EXCEPT ![c] = x]
    /\ doubt' = IF Clash(x) = {} THEN doubt
                ELSE doubt \cup Named(x) \cup UNION {Named(calls[d]) : d \in Clash(x)}
    /\ UNCHANGED <<disk, file, signedIn>>

Request(op, p, q, d, h, e) ==
    [op |-> op, path |-> p, to |-> q, data |-> d, held |-> h, answer |-> "pending", excused |-> e]

\* Mutant: openFile is not made anew when dirty changes.
AsksStale == FALSE

\* openFile asks before it discards unsaved changes; the steps below are those
\* where the user agrees.
Asks == Dirty

Open(c, p) ==
    /\ signedIn
    /\ Sends(c, Request("open", p, p, Template, FALSE, Asks \/ saving))
    /\ UNCHANGED <<saving, prompt>>

\* Mutant: a save under way does not keep the next one back.
SaveAgain(c) ==
    /\ signedIn
    /\ Dirty
    /\ saving' = TRUE
    /\ Sends(c, Request("save", file.path, file.path, file.content, FALSE, FALSE))
    /\ UNCHANGED prompt

Save(c) ==
    /\ signedIn
    /\ Dirty
    /\ ~saving
    /\ saving' = TRUE
    /\ Sends(c, Request("save", file.path, file.path, file.content, FALSE, FALSE))
    /\ UNCHANGED prompt

\* onEditorChange.  Whoever was asked to discard changes was not asked of these.
Type(d) ==
    /\ signedIn
    /\ file # NoFile
    /\ d # file.content
    /\ file' = [file EXCEPT !.content = d]
    /\ calls' = [c \in Call |-> IF InFlight(c) THEN [calls[c] EXCEPT !.excused = TRUE] ELSE Free]
    /\ prompt' = IF prompt = "clean" THEN "unsure" ELSE prompt
    /\ UNCHANGED <<disk, saving, signedIn, doubt>>

PromptNewFile ==
    /\ signedIn
    /\ prompt = "none"
    /\ prompt' = IF Asks THEN "dirty" ELSE IF saving THEN "unsure" ELSE "clean"
    /\ UNCHANGED <<disk, file, saving, signedIn, calls, doubt>>

Cancel ==
    /\ signedIn
    /\ prompt # "none"
    /\ prompt' = "none"
    /\ UNCHANGED <<disk, file, saving, signedIn, calls, doubt>>

Create(c, p) ==
    /\ signedIn
    /\ prompt # "none"
    /\ prompt' = "none"
    /\ Sends(c, Request("create", p, p, Template, prompt = "dirty", prompt = "unsure"))
    /\ UNCHANGED saving

\* promptRename, promptRenameFile and promptRenameDirAt; of a directory it is
\* the file in it that counts.
Rename(c, op, p, q) ==
    /\ signedIn
    /\ prompt = "none"
    /\ p # q
    /\ Sends(c, Request(op, p, q, Template, FALSE, FALSE))
    /\ UNCHANGED <<saving, prompt>>

\* deleteFile deletes the open file and then closes whatever is open;
\* deleteFileAt closes it if the file it deleted was open when it was called.
Delete(c, p) ==
    /\ signedIn
    /\ Sends(c, Request("delete", p, p, Template, file.path = p, TRUE))
    /\ UNCHANGED <<saving, prompt>>

SignOut == signedIn /\ signedIn' = FALSE /\ UNCHANGED <<disk, file, saving, prompt, calls, doubt>>
SignIn == ~signedIn /\ signedIn' = TRUE /\ UNCHANGED <<disk, file, saving, prompt, calls, doubt>>

-----------------------------------------------------------------------------
(* The server, and the network *)

Effect(x) ==
    CASE x.op = "open"   -> disk
      [] x.op = "save"   -> [disk EXCEPT ![x.path] = x.data]
      [] x.op = "create" -> [disk EXCEPT ![x.path] = x.data]
      [] x.op = "delete" -> [disk EXCEPT ![x.path] = Absent]
      [] x.op \in {"rename", "rename_dir"} ->
           [disk EXCEPT ![x.path] = Absent, ![x.to] = disk[x.path]]

Granted(x) ==
    CASE x.op = "create" -> disk[x.path] = Absent
      [] x.op \in {"rename", "rename_dir"} -> disk[x.path] # Absent /\ disk[x.to] = Absent
      [] OTHER -> disk[x.path] # Absent

Answers(c, a) == calls' = [calls EXCEPT ![c].answer = a]

Serve(c) ==
    LET x == calls[c]
    IN  /\ InFlight(c)
        /\ x.answer = "pending"
        /\ IF Granted(x)
           THEN /\ disk' = Effect(x)
                /\ calls' = [calls EXCEPT ![c].answer = "ok",
                                          ![c].data = IF x.op = "open" THEN disk[x.path] ELSE @]
           ELSE Answers(c, "error") /\ UNCHANGED disk
        /\ UNCHANGED <<file, saving, prompt, signedIn, doubt>>

\* No session, or no connection: the call has no effect ...
Deny(c) ==
    /\ InFlight(c)
    /\ calls[c].answer = "pending"
    /\ \E a \in {"error", "denied"} : Answers(c, a)
    /\ UNCHANGED <<disk, file, saving, prompt, signedIn, doubt>>

\* ... or its answer is lost.
LoseAnswer(c) ==
    /\ InFlight(c)
    /\ calls[c].answer = "ok"
    /\ Answers(c, "error")
    /\ doubt' = doubt \cup Named(calls[c])
    /\ UNCHANGED <<disk, file, saving, prompt, signedIn>>

-----------------------------------------------------------------------------
(* The code after each await *)

Ends(c) == calls' = [calls EXCEPT ![c] = Free]

Ok(c, op) == InFlight(c) /\ calls[c].op = op /\ calls[c].answer = "ok"

OpenAnswered(c) ==
    LET x == calls[c]
    IN  /\ Ok(c, "open")
        /\ file' = [path |-> x.path, original |-> x.data, content |-> x.data]
        /\ Ends(c)
        /\ UNCHANGED <<disk, saving, prompt, signedIn, doubt>>

\* Mutant: whatever file is open takes the content saved for its baseline.
SaveAnsweredAnywhere(c) ==
    LET x == calls[c]
    IN  /\ Ok(c, "save")
        /\ file' = IF file # NoFile THEN [file EXCEPT !.original = x.data] ELSE file
        /\ saving' = FALSE
        /\ Ends(c)
        /\ UNCHANGED <<disk, prompt, signedIn, doubt>>

SaveAnswered(c) ==
    LET x == calls[c]
    IN  /\ Ok(c, "save")
        /\ file' = IF file.path = x.path THEN [file EXCEPT !.original = x.data] ELSE file
        /\ saving' = FALSE
        /\ Ends(c)
        /\ UNCHANGED <<disk, prompt, signedIn, doubt>>

\* The new file is opened; if dirty was set when the prompt came up the user
\* is asked, and may refuse.
CreateAnswered(c) ==
    LET x == calls[c]
    IN  /\ Ok(c, "create")
        /\ \/ calls' = [calls EXCEPT ![c] =
                          Request("open", x.path, x.path, Template, FALSE, x.held \/ x.excused)]
           \/ x.held /\ Ends(c)
        /\ UNCHANGED <<disk, file, saving, prompt, signedIn, doubt>>

RenameAnswered(c) ==
    LET x == calls[c]
    IN  /\ Ok(c, "rename")
        /\ file' = IF file.path = x.path THEN [file EXCEPT !.path = x.to] ELSE file
        /\ doubt' = IF x.path \in doubt THEN doubt \cup {x.to} ELSE doubt
        /\ Ends(c)
        /\ UNCHANGED <<disk, saving, prompt, signedIn>>

RenameDirAnswered(c) ==
    /\ Ok(c, "rename_dir")
    /\ doubt' = doubt \cup Named(calls[c])
    /\ Ends(c)
    /\ UNCHANGED <<disk, file, saving, prompt, signedIn>>

DeleteAnswered(c) ==
    /\ Ok(c, "delete")
    /\ file' = IF calls[c].held THEN NoFile ELSE file
    /\ Ends(c)
    /\ UNCHANGED <<disk, saving, prompt, signedIn, doubt>>

\* Every error is shown and changes nothing else, but for a 401.
Failed(c) ==
    /\ InFlight(c)
    /\ calls[c].answer \in {"error", "denied"}
    /\ saving' = (saving /\ calls[c].op # "save")
    /\ signedIn' = (signedIn /\ calls[c].answer # "denied")
    /\ Ends(c)
    /\ UNCHANGED <<disk, file, prompt, doubt>>

Answered(c) ==
    \/ OpenAnswered(c) \/ SaveAnswered(c) \/ CreateAnswered(c)
    \/ RenameAnswered(c) \/ RenameDirAnswered(c) \/ DeleteAnswered(c)
    \/ Failed(c)

-----------------------------------------------------------------------------

User(c) ==
    \/ Save(c)
    \/ \E p \in Path : Open(c, p) \/ Create(c, p) \/ Delete(c, p)
    \/ \E p, q \in Path, op \in {"rename", "rename_dir"} : Rename(c, op, p, q)

EditorNext ==
    \/ \E d \in Content : Type(d)
    \/ PromptNewFile \/ Cancel \/ SignOut \/ SignIn
    \/ \E c \in Call : User(c) \/ Serve(c) \/ Deny(c) \/ LoseAnswer(c) \/ Answered(c)

EditorSpec == EditorInit /\ [][EditorNext]_editorVars

-----------------------------------------------------------------------------

(***************************************************************************)
(* The baseline of the dirty check is what the server holds, once the calls *)
(* on the file are answered, unless some of them overlapped: so "no unsaved *)
(* changes" is true when it is shown.  Calls on other files do not matter,  *)
(* in whatever order they are answered.                                     *)
(***************************************************************************)
BaselineAgrees ==
    file # NoFile /\ file.path \notin doubt /\ (\A c \in Call : file.path \notin Named(calls[c]))
        => file.original = disk[file.path]

(***************************************************************************)
(* Unsaved edits go only by a call that the user agreed could discard them, *)
(* or during which he edited, or made while a save was about to move the    *)
(* baseline.                                                                *)
(***************************************************************************)
Lost == Dirty /\ (file' = NoFile \/ file'.content # file.content)

EditsKept ==
    [][\A c \in Call : Answered(c) /\ Lost => calls[c].excused]_editorVars

(***************************************************************************)
(* "Warn before leaving with unsaved changes": where there is no warning,   *)
(* the server does not hold another content than the one on the screen for  *)
(* a save of this file.  The code compares with the baseline, which the     *)
(* answer to the save has yet to move: changes undone while a save is under *)
(* way are unsaved and go without a warning.                                *)
(***************************************************************************)
LeavingWarns ==
    file # NoFile /\ ~Dirty =>
        \A c \in Call : Ok(c, "save") /\ calls[c].path = file.path => calls[c].data = file.content

=============================================================================

----------------------------- MODULE Lifecycle ------------------------------
(***************************************************************************)
(* cmd/mdtree/main.go with internal/server/server.go and internal/logger:   *)
(* runs of the program from start to exit, one after another or at the same *)
(* time (a copy started by mistake, a restart while the old run drains).    *)
(* They share the port and the log directory.                               *)
(*                                                                          *)
(* In a run, main and the goroutine that serves are two processes: main     *)
(* waits for a signal or for the server to fail, and the server may be      *)
(* stopped before it listens.                                               *)
(***************************************************************************)
EXTENDS Naturals

CONSTANTS
    Run,       \* runs of the program
    Conn,      \* bound of the model: as many requests at once in a run
    MaxLogs    \* bound of the model: log files ever begun

ASSUME LifecycleAssumption == MaxLogs \in Nat

VARIABLES
    stage,      \* how far main is in each run
    server,     \* how far the goroutine that serves is
    signalled,  \* the runs whose context is done
    flight,     \* the requests each run is serving
    cut,        \* history: the runs that ended with requests unanswered
    log,        \* log files begun; the latest is named mdtree.log
    fd,         \* the log file each run has open, or 0
    wrote,      \* history: the runs whose lines each file holds
    met,        \* history: the pairs of runs that were up at the same time
    unrotated   \* history: the runs whose rotation has failed

logVars == <<log, fd, wrote, unrotated>>
lifeVars == <<stage, server, signalled, flight, cut, met, logVars>>

Up == {"starting", "serving", "stopping"}
Ended == {"done", "failed", "killed"}

\* A run listens only while main is there to be told, whichever came first.
LifeTypeOK ==
    /\ stage \in [Run -> {"unstarted"} \cup Up \cup Ended]
    /\ server \in [Run -> {"unborn", "starting", "listening", "closed", "failed"}]
    /\ signalled \subseteq Run
    /\ flight \in [Run -> SUBSET Conn]
    /\ cut \subseteq Run
    /\ log \in 0 .. MaxLogs
    /\ fd \in [Run -> 0 .. log]
    /\ wrote \in [1 .. MaxLogs -> SUBSET Run]
    /\ met \subseteq SUBSET Run
    /\ unrotated \subseteq Run
    /\ \A r \in Run :
         /\ server[r] = "listening" => stage[r] = "serving"
         /\ flight[r] # {} => stage[r] \in {"serving", "stopping"}
         /\ fd[r] # 0 => stage[r] \in Up

LifeInit ==
    /\ stage = [r \in Run |-> "unstarted"]
    /\ server = [r \in Run |-> "unborn"]
    /\ signalled = {}
    /\ flight = [r \in Run |-> {}]
    /\ cut = {}
    /\ log = 0
    /\ fd = [r \in Run |-> 0]
    /\ wrote = [f \in 1 .. MaxLogs |-> {}]
    /\ met = {}
    /\ unrotated = {}

MainAt(r, s) == stage' = [stage EXCEPT ![r] = s]
ServerAt(r, s) == server' = [server EXCEPT ![r] = s]

IsUp(r) == stage[r] \in Up

\* A run ends, by its own or not: the system closes what it had open.
Ends(r, s) ==
    /\ MainAt(r, s)
    /\ ServerAt(r, IF server[r] = "failed" THEN "failed" ELSE "closed")
    /\ flight' = [flight EXCEPT ![r] = {}]
    /\ cut' = IF flight[r] = {} THEN cut ELSE cut \cup {r}
    /\ fd' = [fd EXCEPT ![r] = 0]
    /\ UNCHANGED <<signalled, log, wrote, met, unrotated>>

-----------------------------------------------------------------------------
(* The log *)

BeginsLog == log < MaxLogs /\ log' = log + 1

\* The active file is given a backup's name and a new one begun; a rotation
\* that fails leaves the run without a file until its next line.
Rotates(r) ==
    \/ /\ BeginsLog
       /\ fd' = [fd EXCEPT ![r] = log']
       /\ UNCHANGED unrotated
    \/ /\ unrotated' = unrotated \cup {r}
       /\ fd' = [fd EXCEPT ![r] = 0]
       /\ UNCHANGED log

\* Mutant: the previous file is left to the rotation by size.
OpensLogAnew(r) == UNCHANGED <<log, fd, unrotated>>

\* logger.New: the file of the run before is rotated unless it is empty.
OpensLog(r) ==
    IF log > 0 /\ wrote[log] # {} THEN Rotates(r) ELSE UNCHANGED <<log, fd, unrotated>>

\* One line, at a level that is logged.
WriteLine(r) ==
    /\ IsUp(r)
    /\ \/ fd[r] > 0 /\ UNCHANGED <<log, fd>>
       \/ /\ fd[r] = 0
          /\ IF log > 0 THEN UNCHANGED log ELSE BeginsLog
          /\ fd' = [fd EXCEPT ![r] = log']
    /\ wrote' = [wrote EXCEPT ![fd'[r]] = @ \cup {r}]
    /\ UNCHANGED <<stage, server, signalled, flight, cut, met, unrotated>>

\* The file has reached its size.
RotateBySize(r) ==
    /\ IsUp(r)
    /\ fd[r] > 0
    /\ r \in wrote[fd[r]]
    /\ Rotates(r)
    /\ UNCHANGED <<stage, server, signalled, flight, cut, wrote, met>>

-----------------------------------------------------------------------------
(* main *)

\* A configuration that does not load or is not valid, a log directory that
\* cannot be created.
RefuseToStart(r) ==
    /\ stage[r] = "unstarted"
    /\ Ends(r, "failed")

Start(r) ==
    /\ stage[r] = "unstarted"
    /\ MainAt(r, "starting")
    /\ OpensLog(r)
    /\ met' = met \cup {{r, x} : x \in {y \in Run : IsUp(y)}}
    /\ UNCHANGED <<server, signalled, flight, cut, wrote>>

\* The password cannot be hashed or generated.
FailToStart(r) ==
    /\ stage[r] = "starting"
    /\ Ends(r, "failed")

\* From here on signals are caught, and the server is started.  Between the two
\* web.DistFS is asked for a directory of a name that is valid, which cannot fail.
Serve(r) ==
    /\ stage[r] = "starting"
    /\ MainAt(r, "serving")
    /\ ServerAt(r, "starting")
    /\ UNCHANGED <<signalled, flight, cut, met, logVars>>

\* Mutant: main returns when the signal comes.
SeeSignalOnly(r) ==
    /\ stage[r] = "serving"
    /\ r \in signalled
    /\ Ends(r, "done")

\* Shutdown begins: nothing is accepted any more.
SeeSignal(r) ==
    /\ stage[r] = "serving"
    /\ r \in signalled
    /\ MainAt(r, "stopping")
    /\ IF server[r] = "listening" THEN ServerAt(r, "closed") ELSE UNCHANGED server
    /\ UNCHANGED <<signalled, flight, cut, met, logVars>>

SeeFailure(r) ==
    /\ stage[r] = "serving"
    /\ server[r] = "failed"
    /\ Ends(r, "failed")

ShutdownDone(r) ==
    /\ stage[r] = "stopping"
    /\ flight[r] = {}
    /\ Ends(r, "done")

\* Mutant: no deadline.
ShutdownWaits(r) == FALSE

\* Ten seconds have passed.
ShutdownExpires(r) ==
    /\ stage[r] = "stopping"
    /\ flight[r] # {}
    /\ Ends(r, "failed")

-----------------------------------------------------------------------------
(* The goroutine that serves *)

PortTaken == \E r \in Run : server[r] = "listening"

\* Mutant: Shutdown, which came first, has no effect on it.
ListenAnyway(r) ==
    /\ IsUp(r)
    /\ server[r] = "starting"
    /\ ServerAt(r, IF PortTaken THEN "failed" ELSE "listening")
    /\ UNCHANGED <<stage, signalled, flight, cut, met, logVars>>

Listen(r) ==
    /\ IsUp(r)
    /\ server[r] = "starting"
    /\ \/ stage[r] = "stopping" /\ ServerAt(r, "closed")
       \/ stage[r] = "serving" /\ ServerAt(r, IF PortTaken THEN "failed" ELSE "listening")
    /\ UNCHANGED <<stage, signalled, flight, cut, met, logVars>>

Accept(r, c) ==
    /\ server[r] = "listening"
    /\ flight' = [flight EXCEPT ![r] = @ \cup {c}]
    /\ UNCHANGED <<stage, server, signalled, cut, met, logVars>>

AnswerConn(r, c) ==
    /\ c \in flight[r]
    /\ flight' = [flight EXCEPT ![r] = @ \ {c}]
    /\ UNCHANGED <<stage, server, signalled, cut, met, logVars>>

-----------------------------------------------------------------------------
(* The outside *)

\* SIGINT or SIGTERM: before signals are caught it kills, and once the run is
\* stopping another one does nothing.
Signal(r) ==
    \/ /\ stage[r] = "starting"
       /\ Ends(r, "killed")
    \/ /\ stage[r] = "serving"
       /\ signalled' = signalled \cup {r}
       /\ UNCHANGED <<stage, server, flight, cut, met, logVars>>

Crash(r) == IsUp(r) /\ Ends(r, "killed")

\* All runs are over.
AllEnded == (\A r \in Run : stage[r] \in Ended) /\ UNCHANGED lifeVars

Ending(r) == SeeSignal(r) \/ SeeFailure(r) \/ ShutdownDone(r) \/ ShutdownExpires(r)

Main(r) == RefuseToStart(r) \/ Start(r) \/ FailToStart(r) \/ Serve(r) \/ Ending(r)

LifeNext ==
    \/ \E r \in Run :
         \/ Main(r) \/ Listen(r) \/ (\E c \in Conn : Accept(r, c) \/ AnswerConn(r, c))
         \/ WriteLine(r) \/ RotateBySize(r)
         \/ Signal(r) \/ Crash(r)
    \/ AllEnded

\* main runs on whenever it can, and the ten seconds pass; a request need not
\* be answered.
LifeFairness == \A r \in Run : WF_lifeVars(Ending(r))

LifeSpec == LifeInit /\ [][LifeNext]_lifeVars /\ LifeFairness

-----------------------------------------------------------------------------

(***************************************************************************)
(* A run that reports success was told to stop and has answered every       *)
(* request it had accepted, whichever of main and the server was first and  *)
(* whatever else had failed by then.                                        *)
(***************************************************************************)
Graceful == \A r \in Run : stage[r] = "done" => r \in signalled /\ r \notin cut

(***************************************************************************)
(* "Each run rotates the previous file, so a run always starts fresh": no   *)
(* two runs write to one file, unless they were up at the same time or a    *)
(* rotation failed.                                                         *)
(***************************************************************************)
FreshLog ==
    \A f \in 1 .. MaxLogs : \A r, s \in wrote[f] :
      r = s \/ {r, s} \in met \/ {r, s} \cap unrotated # {}

(***************************************************************************)
(* A run that is told to stop, or cannot serve, ends, even if a request it  *)
(* is serving never does, and if the signal comes before it listens.        *)
(***************************************************************************)
StopsWhenTold == \A r \in Run : (r \in signalled \/ server[r] = "failed") ~> stage[r] \in Ended

=============================================================================

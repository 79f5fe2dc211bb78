---------------------------- MODULE ServiceProofs ---------------------------
(***************************************************************************)
(* The server apart from the notes and its sessions, for any number of      *)
(* runs, requests, Builds and settings: Lifecycle, Metrics and Config, the  *)
(* parts of Service beside Auth.                                            *)
(***************************************************************************)
EXTENDS Lifecycle, Metrics, Config, FiniteSetTheorems, TLAPS

-----------------------------------------------------------------------------
(* Lifecycle.                                                              *)

(***************************************************************************)
(* The inductive invariants.                                                *)
(***************************************************************************)

\* main stops only when it was told to, and what was cut short is over.
StopsJustified ==
    \A r \in Run :
      /\ stage[r] \in {"stopping", "done"} => r \in signalled
      /\ r \in cut => stage[r] \in {"failed", "killed"}

\* Runs that are up have met.
AllMet == \A r, s \in Run : r # s /\ IsUp(r) /\ IsUp(s) => {r, s} \in met

\* Nobody is the first to have written to a file not begun.
UnbegunEmpty == \A f \in 1 .. MaxLogs : f > log => wrote[f] = {}

\* Where r may write without giving offence.
Together(r, s) == r = s \/ {r, s} \in met \/ {r, s} \cap unrotated # {}
MayWrite(r, f) == \A s \in wrote[f] : Together(r, s)

\* The file that the next line of r goes to: its own, or the latest.
NextFile(r) == IF fd[r] # 0 THEN fd[r] ELSE log
NextMayWrite == \A r \in Run : IsUp(r) /\ NextFile(r) # 0 => MayWrite(r, NextFile(r))

LogInv == AllMet /\ UnbegunEmpty /\ NextMayWrite /\ FreshLog

LifeInv == LifeTypeOK /\ StopsJustified /\ LogInv

-----------------------------------------------------------------------------

LEMMA LifeInitHolds == LifeInit => LifeInv
  <1> SUFFICES ASSUME LifeInit PROVE LifeInv
    OBVIOUS
  <1>1. LifeTypeOK
    BY LifecycleAssumption DEF LifeInit, LifeTypeOK, Up, Ended
  <1>2. StopsJustified
    BY DEF LifeInit, StopsJustified
  <1>3. LogInv
    BY DEF LifeInit, LogInv, AllMet, UnbegunEmpty, NextMayWrite, FreshLog, IsUp, Up
  <1> QED
    BY <1>1, <1>2, <1>3 DEF LifeInv

\* The steps that leave the log alone, and wake no run.
LEMMA LogUntouched ==
    ASSUME LifeTypeOK, LogInv, UNCHANGED <<log, wrote, met, unrotated>>,
           \A r \in Run : IsUp(r)' => IsUp(r) /\ fd'[r] = fd[r]
    PROVE  LogInv'
  <1>1. AllMet' /\ UnbegunEmpty' /\ FreshLog'
    BY DEF LogInv, AllMet, UnbegunEmpty, FreshLog
  <1>2. ASSUME NEW r \in Run, IsUp(r)', NextFile(r)' # 0 PROVE MayWrite(r, NextFile(r))'
    <2>1. NextFile(r)' = NextFile(r)
      BY <1>2 DEF NextFile
    <2> QED
      BY <1>2, <2>1 DEF LogInv, NextMayWrite, MayWrite, Together
  <1> QED
    BY <1>1, <1>2 DEF LogInv, NextMayWrite

LEMMA LogAlone ==
    ASSUME LifeTypeOK, LogInv, UNCHANGED <<logVars, met>>,
           \A r \in Run : IsUp(r)' => IsUp(r)
    PROVE  LogInv'
  BY LogUntouched DEF logVars

-----------------------------------------------------------------------------
(* The end of a run *)

LEMMA EndsTyped ==
    ASSUME LifeTypeOK, NEW r \in Run, NEW s \in Ended, Ends(r, s)
    PROVE  LifeTypeOK'
  BY DEF LifeTypeOK, Ends, MainAt, ServerAt, Up, Ended

LEMMA EndsLog ==
    ASSUME LifeInv, NEW r \in Run, NEW s \in Ended, Ends(r, s)
    PROVE  LogInv'
  <1>1. \A x \in Run : IsUp(x)' => IsUp(x) /\ fd'[x] = fd[x]
    BY DEF LifeInv, LifeTypeOK, Ends, MainAt, IsUp, Up, Ended
  <1> QED
    BY <1>1, LogUntouched DEF LifeInv, Ends

LEMMA EndsKeeps ==
    ASSUME LifeInv, NEW r \in Run, NEW s \in Ended, Ends(r, s),
           stage[r] \notin Ended,
           s = "done" => r \in signalled /\ flight[r] = {}
    PROVE  LifeInv'
  <1>1. StopsJustified'
    <2> SUFFICES ASSUME NEW x \in Run
                 PROVE  /\ stage'[x] \in {"stopping", "done"} => x \in signalled'
                        /\ x \in cut' => stage'[x] \in {"failed", "killed"}
      BY DEF StopsJustified
    <2>1. CASE x = r
      BY <2>1 DEF LifeInv, StopsJustified, LifeTypeOK, Ends, MainAt, Ended
    <2>2. CASE x # r
      BY <2>2 DEF LifeInv, StopsJustified, LifeTypeOK, Ends, MainAt
    <2> QED
      BY <2>1, <2>2
  <1> QED
    BY <1>1, EndsTyped, EndsLog DEF LifeInv

-----------------------------------------------------------------------------
(* The log *)

\* A rotation: a file is begun, which is the run's and empty, or nothing is.
LEMMA RotatesTyped ==
    ASSUME LifeTypeOK, NEW r \in Run, Rotates(r)
    PROVE  /\ log' \in 0 .. MaxLogs /\ log' \in {log, log + 1}
           /\ fd' \in [Run -> 0 .. log'] /\ unrotated' \subseteq Run
           /\ \A x \in Run \ {r} : fd'[x] = fd[x]
           /\ unrotated \subseteq unrotated'
           /\ \/ r \in unrotated' /\ fd'[r] = 0 /\ log' = log
              \/ log' = log + 1 /\ fd'[r] = log' /\ log < MaxLogs
  <1> USE LifecycleAssumption
  <1>1. CASE log < MaxLogs /\ log' = log + 1 /\ fd' = [fd EXCEPT ![r] = log'] /\ UNCHANGED unrotated
    <2>1. log' \in 0 .. MaxLogs /\ \A n \in 0 .. log : n \in 0 .. log'
      BY <1>1 DEF LifeTypeOK
    <2>2. fd' \in [Run -> 0 .. log']
      BY <1>1, <2>1 DEF LifeTypeOK
    <2> QED
      BY <1>1, <2>1, <2>2 DEF LifeTypeOK
  <1>2. CASE unrotated' = unrotated \cup {r} /\ fd' = [fd EXCEPT ![r] = 0] /\ UNCHANGED log
    BY <1>2 DEF LifeTypeOK
  <1> QED
    BY <1>1, <1>2 DEF Rotates, BeginsLog

LEMMA RotatesLog ==
    ASSUME LifeTypeOK, UnbegunEmpty, NextMayWrite, FreshLog, NEW r \in Run, Rotates(r),
           wrote' = wrote, met \subseteq met',
           \A x \in Run : IsUp(x)' => IsUp(x) \/ x = r
    PROVE  UnbegunEmpty' /\ NextMayWrite' /\ FreshLog'
  <1>1. UnbegunEmpty'
    BY RotatesTyped, LifecycleAssumption DEF LifeTypeOK, UnbegunEmpty
  <1>2. FreshLog'
    <2> SUFFICES ASSUME NEW f \in 1 .. MaxLogs, NEW x \in wrote[f], NEW y \in wrote[f]
                 PROVE  x = y \/ {x, y} \in met' \/ {x, y} \cap unrotated' # {}
      BY DEF FreshLog
    <2>1. x = y \/ {x, y} \in met \/ {x, y} \cap unrotated # {}
      BY DEF FreshLog
    <2> QED
      BY <2>1, RotatesTyped
  <1>3. ASSUME NEW x \in Run, IsUp(x)', NextFile(x)' # 0
        PROVE  MayWrite(x, NextFile(x))'
    <2>1. CASE x = r /\ r \in unrotated'
      BY <2>1 DEF MayWrite, Together
    <2>2. CASE NextFile(x)' = log + 1
      <3>1. log + 1 \in 1 .. MaxLogs /\ log + 1 > log
        BY <2>2, RotatesTyped, LifecycleAssumption DEF LifeTypeOK, NextFile
      <3>2. wrote[log + 1] = {}
        BY <3>1 DEF UnbegunEmpty
      <3> QED
        BY <2>2, <3>2 DEF MayWrite
    <2>3. CASE x # r /\ NextFile(x)' = NextFile(x)
      <3>1. MayWrite(x, NextFile(x))
        BY <1>3, <2>3 DEF NextMayWrite
      <3> QED
        BY <2>3, <3>1, RotatesTyped DEF MayWrite, Together
    <2>4. \/ x = r /\ r \in unrotated'
          \/ NextFile(x)' = log + 1
          \/ x # r /\ NextFile(x)' = NextFile(x)
      BY RotatesTyped, LifecycleAssumption DEF NextFile, LifeTypeOK
    <2> QED
      BY <2>1, <2>2, <2>3, <2>4
  <1> QED
    BY <1>1, <1>2, <1>3 DEF NextMayWrite

LEMMA RotateBySizeKeeps ==
    ASSUME LifeInv, NEW r \in Run, RotateBySize(r) PROVE LifeInv'
  <1>1. LifeTypeOK'
    BY RotatesTyped DEF LifeInv, LifeTypeOK, RotateBySize, IsUp
  <1>2. StopsJustified'
    BY DEF LifeInv, StopsJustified, RotateBySize
  <1>3. AllMet'
    BY DEF LifeInv, LogInv, AllMet, RotateBySize, IsUp
  <1>4. UnbegunEmpty' /\ NextMayWrite' /\ FreshLog'
    BY RotatesLog DEF LifeInv, LogInv, RotateBySize, IsUp
  <1> QED
    BY <1>1, <1>2, <1>3, <1>4 DEF LifeInv, LogInv

\* A run that starts meets those that are up, and its next line goes to an
\* empty file or, if its rotation failed, may go anywhere.
LEMMA StartKeeps ==
    ASSUME LifeInv, NEW r \in Run, Start(r) PROVE LifeInv'
  <1> USE LifecycleAssumption
  <1>1. stage' = [stage EXCEPT ![r] = "starting"] /\ stage[r] = "unstarted" /\ fd[r] = 0
    BY DEF LifeInv, LifeTypeOK, Start, MainAt, Up
  <1>2. met \subseteq met' /\ wrote' = wrote
        /\ met' = met \cup {{r, x} : x \in {y \in Run : IsUp(y)}}
    BY DEF Start
  <1>3. \A x \in Run : IsUp(x)' <=> IsUp(x) \/ x = r
    BY <1>1 DEF LifeInv, LifeTypeOK, IsUp, Up
  <1>4. AllMet'
    <2> SUFFICES ASSUME NEW x \in Run, NEW y \in Run, x # y, IsUp(x)', IsUp(y)'
                 PROVE  {x, y} \in met'
      BY DEF AllMet
    <2>1. {x, y} = {y, x}
      OBVIOUS
    <2>2. CASE x = r
      BY <1>2, <1>3, <2>2
    <2>3. CASE y = r
      BY <1>2, <1>3, <2>1, <2>3
    <2>4. CASE x # r /\ y # r
      BY <1>2, <1>3, <2>4 DEF LifeInv, LogInv, AllMet
    <2> QED
      BY <2>2, <2>3, <2>4
  <1>5. StopsJustified'
    BY <1>1 DEF LifeInv, LifeTypeOK, StopsJustified, Start
  <1>6. CASE Rotates(r)
    <2>1. LifeTypeOK'
      <3>1. /\ log' \in 0 .. MaxLogs /\ fd' \in [Run -> 0 .. log'] /\ unrotated' \subseteq Run
            /\ \A x \in Run \ {r} : fd'[x] = fd[x]
        BY <1>6, RotatesTyped DEF LifeInv
      <3>2. met' \subseteq SUBSET Run
        BY <1>2 DEF LifeInv, LifeTypeOK
      <3> QED
        BY <1>1, <1>2, <3>1, <3>2 DEF LifeInv, LifeTypeOK, Start, Up
    <2>2. UnbegunEmpty' /\ NextMayWrite' /\ FreshLog'
      BY <1>2, <1>3, <1>6, RotatesLog DEF LifeInv, LogInv
    <2> QED
      BY <1>4, <1>5, <2>1, <2>2 DEF LifeInv, LogInv
  <1>7. CASE UNCHANGED <<log, fd, unrotated>> /\ (log = 0 \/ wrote[log] = {})
    <2>1. LifeTypeOK'
      <3>1. met' \subseteq SUBSET Run
        BY <1>2 DEF LifeInv, LifeTypeOK
      <3> QED
        BY <1>1, <1>2, <1>7, <3>1 DEF LifeInv, LifeTypeOK, Start, Up
    <2>2. UnbegunEmpty'
      BY <1>2, <1>7 DEF LifeInv, LogInv, UnbegunEmpty
    <2>3. FreshLog'
      BY <1>2, <1>7 DEF LifeInv, LogInv, FreshLog
    <2>4. NextMayWrite'
      <3> SUFFICES ASSUME NEW x \in Run, IsUp(x)', NextFile(x)' # 0
                   PROVE  MayWrite(x, NextFile(x))'
        BY DEF NextMayWrite
      <3>1. NextFile(x)' = NextFile(x)
        BY <1>7 DEF NextFile
      <3>2. CASE x = r
        BY <1>1, <1>2, <1>7, <3>1, <3>2 DEF NextFile, MayWrite
      <3>3. CASE x # r
        <4>1. MayWrite(x, NextFile(x))
          BY <1>3, <3>1, <3>3 DEF LifeInv, LogInv, NextMayWrite
        <4> QED
          BY <1>2, <1>7, <3>1, <4>1 DEF MayWrite, Together
      <3> QED
        BY <3>2, <3>3
    <2> QED
      BY <1>4, <1>5, <2>1, <2>2, <2>3, <2>4 DEF LifeInv, LogInv
  <1>8. Rotates(r) \/ (UNCHANGED <<log, fd, unrotated>> /\ (log = 0 \/ wrote[log] = {}))
    BY DEF LifeInv, LifeTypeOK, Start, OpensLog
  <1> QED
    BY <1>6, <1>7, <1>8

LEMMA WriteLineKeeps ==
    ASSUME LifeInv, NEW r \in Run, WriteLine(r) PROVE LifeInv'
  <1> USE LifecycleAssumption
  <1> DEFINE f == fd'[r]
  <1>1. /\ log' \in 0 .. MaxLogs /\ fd' \in [Run -> 0 .. log'] /\ f \in 1 .. MaxLogs
        /\ \A x \in Run \ {r} : fd'[x] = fd[x]
        /\ log' = log \/ (log = 0 /\ log' = 1 /\ f = 1)
        /\ f = NextFile(r) \/ (log = 0 /\ f = 1)
    <2>0. log \in 0 .. MaxLogs /\ fd \in [Run -> 0 .. log] /\ fd[r] \in 0 .. log
      BY DEF LifeInv, LifeTypeOK
    <2>1. CASE fd[r] > 0 /\ log' = log /\ fd' = fd
      <3>1. f = fd[r] /\ NextFile(r) = fd[r]
        BY <2>1 DEF NextFile
      <3>2. f \in 1 .. MaxLogs
        BY <2>0, <2>1, <3>1
      <3> QED
        BY <2>0, <2>1, <3>1, <3>2
    <2>2. CASE fd[r] = 0 /\ log > 0 /\ log' = log /\ fd' = [fd EXCEPT ![r] = log']
      <3>1. f = log /\ NextFile(r) = log /\ log \in 1 .. MaxLogs /\ log \in 0 .. log
        BY <2>0, <2>2 DEF NextFile
      <3>2. fd' \in [Run -> 0 .. log']
        BY <2>0, <2>2, <3>1
      <3>3. log' \in 0 .. MaxLogs /\ \A x \in Run \ {r} : fd'[x] = fd[x]
        BY <2>0, <2>2
      <3> QED
        BY <2>2, <3>1, <3>2, <3>3
    <2>3. CASE fd[r] = 0 /\ log = 0 /\ log < MaxLogs /\ log' = log + 1 /\ fd' = [fd EXCEPT ![r] = log']
      <3>1. log' = 1 /\ 1 \in 0 .. 1 /\ 0 \in 0 .. 1 /\ 1 \in 1 .. MaxLogs /\ 1 \in 0 .. MaxLogs
        BY <2>3
      <3>2. \A x \in Run : fd[x] = 0
        BY <2>3 DEF LifeInv, LifeTypeOK
      <3>3. fd' \in [Run -> 0 .. 1]
        BY <2>3, <3>1, <3>2 DEF LifeInv, LifeTypeOK
      <3> QED
        BY <2>0, <2>3, <3>1, <3>3
    <2> QED
      BY <2>0, <2>1, <2>2, <2>3 DEF WriteLine, BeginsLog
  <1>2. /\ wrote' = [wrote EXCEPT ![f] = wrote[f] \cup {r}]
        /\ UNCHANGED <<stage, server, signalled, flight, cut, met, unrotated>>
        /\ IsUp(r)
    BY DEF WriteLine
  <1>3. wrote \in [1 .. MaxLogs -> SUBSET Run]
    BY DEF LifeInv, LifeTypeOK
  <1>4. LifeTypeOK'
    <2>1. wrote' \in [1 .. MaxLogs -> SUBSET Run]
      BY <1>1, <1>2, <1>3
    <2>2. \A x \in Run : fd'[x] # 0 => stage[x] \in Up
      BY <1>1, <1>2 DEF LifeInv, LifeTypeOK, IsUp
    <2> QED
      BY <1>1, <1>2, <2>1, <2>2 DEF LifeInv, LifeTypeOK
  <1>5. StopsJustified' /\ AllMet'
    BY <1>2 DEF LifeInv, LogInv, StopsJustified, AllMet, IsUp
  <1>6. UnbegunEmpty'
    <2>1. f \in 1 .. log'
      BY <1>1
    <2> QED
      BY <1>1, <1>2, <1>3, <2>1 DEF LifeInv, LogInv, LifeTypeOK, UnbegunEmpty
  <1>7. MayWrite(r, f)
    <2>1. CASE f = NextFile(r)
      BY <1>1, <1>2, <2>1 DEF LifeInv, LogInv, NextMayWrite
    <2>2. CASE log = 0 /\ f = 1
      <3>1. wrote[f] = {}
        BY <1>1, <2>2 DEF LifeInv, LogInv, UnbegunEmpty
      <3> QED
        BY <3>1 DEF MayWrite
    <2> QED
      BY <1>1, <2>1, <2>2
  <1>8. \A g \in 1 .. MaxLogs : \A x, y \in wrote'[g] :
          x = y \/ {x, y} \in met \/ {x, y} \cap unrotated # {}
    <2> SUFFICES ASSUME NEW g \in 1 .. MaxLogs, NEW x \in wrote'[g], NEW y \in wrote'[g]
                 PROVE  x = y \/ {x, y} \in met \/ {x, y} \cap unrotated # {}
      OBVIOUS
    <2>1. CASE x \in wrote[g] /\ y \in wrote[g]
      BY <2>1 DEF LifeInv, LogInv, FreshLog
    <2>2. CASE g = f /\ x = r /\ y \in wrote[g]
      BY <1>7, <2>2 DEF MayWrite, Together
    <2>3. CASE g = f /\ y = r /\ x \in wrote[g]
      <3>1. {x, y} = {y, x}
        OBVIOUS
      <3> QED
        BY <1>7, <2>3, <3>1 DEF MayWrite, Together
    <2>4. CASE x = r /\ y = r
      BY <2>4
    <2>5. \A z \in wrote'[g] : z \in wrote[g] \/ (g = f /\ z = r)
      <3>1. CASE g = f
        <4>1. wrote'[g] = wrote[g] \cup {r}
          BY <1>1, <1>2, <1>3, <3>1
        <4> HIDE DEF f
        <4> QED
          BY <3>1, <4>1
      <3>2. CASE g # f
        <4>1. wrote'[g] = wrote[g]
          BY <1>1, <1>2, <1>3, <3>2
        <4> HIDE DEF f
        <4> QED
          BY <4>1
      <3> QED
        BY <3>1, <3>2
    <2> QED
      BY <2>1, <2>2, <2>3, <2>4, <2>5
  <1>f. FreshLog'
    <2>1. met' = met /\ unrotated' = unrotated
      BY <1>2
    <2> QED
      BY <1>8, <2>1 DEF FreshLog
  <1>9. NextMayWrite'
    <2> SUFFICES ASSUME NEW x \in Run, IsUp(x)', NextFile(x)' # 0,
                        NEW y \in wrote'[NextFile(x)']
                 PROVE  Together(x, y)
      BY <1>2 DEF NextMayWrite, MayWrite, Together
    <2> DEFINE g == NextFile(x)'
    <2>1. g \in 1 .. MaxLogs
      BY <1>1 DEF NextFile
    <2>2. y \in wrote[g] \/ y = r
      BY <1>1, <1>2, <1>3, <2>1
    <2>3. CASE y = r
      <3>1. IsUp(x) /\ IsUp(r)
        BY <1>2 DEF IsUp
      <3> QED
        BY <2>3, <3>1 DEF LifeInv, LogInv, AllMet, Together
    <2>4. CASE y \in wrote[g] /\ g = NextFile(x)
      BY <1>2, <2>1, <2>4 DEF LifeInv, LogInv, NextMayWrite, MayWrite, IsUp
    <2>5. CASE y \in wrote[g] /\ x = r /\ g = f
      BY <1>7, <2>5 DEF MayWrite
    <2>6. CASE y \in wrote[g] /\ log = 0 /\ g = 1
      BY <2>1, <2>6 DEF LifeInv, LogInv, UnbegunEmpty
    <2>7. g = NextFile(x) \/ (x = r /\ g = f) \/ (log = 0 /\ g = 1)
      BY <1>1 DEF NextFile
    <2> QED
      BY <2>2, <2>3, <2>4, <2>5, <2>6, <2>7
  <1> QED
    BY <1>4, <1>5, <1>6, <1>9, <1>f DEF LifeInv, LogInv

-----------------------------------------------------------------------------
(* The other steps *)

LEMMA ServeKeeps ==
    ASSUME LifeInv, NEW r \in Run, Serve(r) PROVE LifeInv'
  <1>1. LifeTypeOK'
    BY DEF LifeInv, LifeTypeOK, Serve, MainAt, ServerAt, logVars, Up
  <1>2. StopsJustified'
    BY DEF LifeInv, LifeTypeOK, StopsJustified, Serve, MainAt
  <1>3. \A x \in Run : IsUp(x)' => IsUp(x)
    BY DEF LifeInv, LifeTypeOK, Serve, MainAt, IsUp, Up
  <1> QED
    BY <1>1, <1>2, <1>3, LogAlone DEF LifeInv, Serve

LEMMA SeeSignalKeeps ==
    ASSUME LifeInv, NEW r \in Run, SeeSignal(r) PROVE LifeInv'
  <1>1. LifeTypeOK'
    BY DEF LifeInv, LifeTypeOK, SeeSignal, MainAt, ServerAt, logVars, Up
  <1>2. StopsJustified'
    BY DEF LifeInv, LifeTypeOK, StopsJustified, SeeSignal, MainAt
  <1>3. \A x \in Run : IsUp(x)' => IsUp(x)
    BY DEF LifeInv, LifeTypeOK, SeeSignal, MainAt, IsUp, Up
  <1> QED
    BY <1>1, <1>2, <1>3, LogAlone DEF LifeInv, SeeSignal

LEMMA ServerKeeps ==
    ASSUME LifeInv, NEW r \in Run,
           Listen(r) \/ \E c \in Conn : Accept(r, c) \/ AnswerConn(r, c)
    PROVE  LifeInv'
  <1>1. UNCHANGED <<stage, signalled, cut, met, logVars>>
    BY DEF Listen, Accept, AnswerConn
  <1>2. LifeTypeOK'
    <2>1. CASE Listen(r)
      BY <2>1 DEF LifeInv, LifeTypeOK, Listen, ServerAt, logVars
    <2>2. ASSUME NEW c \in Conn, Accept(r, c) PROVE LifeTypeOK'
      BY <2>2 DEF LifeInv, LifeTypeOK, Accept, logVars
    <2>3. ASSUME NEW c \in Conn, AnswerConn(r, c) PROVE LifeTypeOK'
      BY <2>3 DEF LifeInv, LifeTypeOK, AnswerConn, logVars
    <2> QED
      BY <2>1, <2>2, <2>3
  <1>3. StopsJustified'
    BY <1>1 DEF LifeInv, StopsJustified
  <1>4. LogInv'
    BY <1>1, LogAlone DEF LifeInv, IsUp
  <1> QED
    BY <1>2, <1>3, <1>4 DEF LifeInv

LEMMA SignalKeeps ==
    ASSUME LifeInv, NEW r \in Run, Signal(r) PROVE LifeInv'
  <1>1. CASE stage[r] = "starting" /\ Ends(r, "killed")
    BY <1>1, EndsKeeps DEF Ended
  <1>2. CASE /\ signalled' = signalled \cup {r}
             /\ UNCHANGED <<stage, server, flight, cut, met, logVars>>
    <2>1. LifeTypeOK' /\ StopsJustified'
      BY <1>2 DEF LifeInv, LifeTypeOK, StopsJustified, logVars
    <2>2. LogInv'
      BY <1>2, LogAlone DEF LifeInv, IsUp
    <2> QED
      BY <2>1, <2>2 DEF LifeInv
  <1> QED
    BY <1>1, <1>2 DEF Signal

\* main's way out: it reports success only from "stopping", with nothing left
\* to answer.
LEMMA EndingKeeps ==
    ASSUME LifeInv, NEW r \in Run,
           \/ RefuseToStart(r) \/ FailToStart(r) \/ SeeFailure(r) \/ Crash(r)
           \/ ShutdownDone(r) \/ ShutdownExpires(r)
    PROVE  LifeInv'
  <1>1. CASE ShutdownDone(r)
    BY <1>1, EndsKeeps DEF ShutdownDone, LifeInv, StopsJustified, Ended
  <1>2. CASE Crash(r)
    BY <1>2, EndsKeeps DEF Crash, IsUp, Up, Ended
  <1>3. CASE RefuseToStart(r) \/ FailToStart(r) \/ SeeFailure(r) \/ ShutdownExpires(r)
    BY <1>3, EndsKeeps DEF RefuseToStart, FailToStart, SeeFailure, ShutdownExpires, Ended
  <1> QED
    BY <1>1, <1>2, <1>3

LEMMA LifeStepHolds == LifeInv /\ [LifeNext]_lifeVars => LifeInv'
  <1> SUFFICES ASSUME LifeInv, [LifeNext]_lifeVars PROVE LifeInv'
    OBVIOUS
  <1>1. CASE UNCHANGED lifeVars
    <2>1. LogInv'
      BY <1>1, LogAlone DEF LifeInv, lifeVars, IsUp
    <2> QED
      BY <1>1, <2>1 DEF LifeInv, lifeVars, logVars, LifeTypeOK, StopsJustified
  <1>2. ASSUME NEW r \in Run,
               \/ Main(r) \/ Listen(r) \/ (\E c \in Conn : Accept(r, c) \/ AnswerConn(r, c))
               \/ WriteLine(r) \/ RotateBySize(r)
               \/ Signal(r) \/ Crash(r)
        PROVE  LifeInv'
    BY <1>2, EndingKeeps, StartKeeps, ServeKeeps, SeeSignalKeeps, ServerKeeps,
       WriteLineKeeps, RotateBySizeKeeps, SignalKeeps
       DEF Main, Ending
  <1> QED
    BY <1>1, <1>2 DEF LifeNext, AllEnded

(***************************************************************************)
(* The strengthened invariant holds in every reachable state.               *)
(***************************************************************************)
THEOREM LifeInvariance == LifeSpec => []LifeInv
  BY LifeInitHolds, LifeStepHolds, PTL DEF LifeSpec

(***************************************************************************)
(* Each part of a run has its type, and a run listens only while main is    *)
(* there to be told to stop.                                                *)
(***************************************************************************)
THEOREM LifeTyped == LifeSpec => []LifeTypeOK
  <1>1. LifeInv => LifeTypeOK
    BY DEF LifeInv
  <1> QED
    BY <1>1, LifeInvariance, PTL

(***************************************************************************)
(* Success is reported only by a run that was told to stop and answered     *)
(* every request it had accepted.                                           *)
(***************************************************************************)
THEOREM StopsAreGraceful == LifeSpec => []Graceful
  <1>1. LifeInv => Graceful
    BY DEF LifeInv, StopsJustified, Graceful
  <1> QED
    BY <1>1, LifeInvariance, PTL

(***************************************************************************)
(* Two runs write to one log file only if they were up together or one of   *)
(* them could not rotate.                                                   *)
(***************************************************************************)
THEOREM LogsAreFresh == LifeSpec => []FreshLog
  <1>1. LifeInv => FreshLog
    BY DEF LifeInv, LogInv
  <1> QED
    BY <1>1, LifeInvariance, PTL

-----------------------------------------------------------------------------
(* Metrics.                                                                *)

(***************************************************************************)
(* The inductive invariant: without a crossing there is at most one report  *)
(* to make, and it is of the Build in the index.                            *)
(***************************************************************************)
ReportsDue ==
    ~crossed => /\ Unreported = {} => reported = inIndex
                /\ \A b \in Unreported : builds[b].files = inIndex
                /\ \A a, b \in Unreported : a = b

MetricsInv == MetricsTypeOK /\ CountsAgree /\ ReportsDue

LEMMA DoneOrFound ==
    ASSUME NEW n \in 0 .. MaxFound
    PROVE  /\ Done \in [found : BOOLEAN, files : 0 .. MaxFound]
           /\ Found(n) \in [found : BOOLEAN, files : 0 .. MaxFound]
           /\ Found(n) # Done
           /\ Found(n).files = n
  BY MetricsAssumption DEF Done, Found

LEMMA InitHolds == MetricsInit => MetricsInv
  <1> SUFFICES ASSUME MetricsInit PROVE MetricsInv
    OBVIOUS
  <1>1. MetricsTypeOK
    <2>1. 0 \in 0 .. MaxFound
      BY MetricsAssumption
    <2>2. Done \in [found : BOOLEAN, files : 0 .. MaxFound]
      BY <2>1 DEF Done
    <2> QED
      BY <2>1, <2>2 DEF MetricsInit, MetricsTypeOK
  <1>2. CountsAgree
    <2>1. Answering = {}
      BY DEF MetricsInit, Answering
    <2>2. Cardinality(Answering) = 0
      BY <2>1, FS_EmptySet
    <2> QED
      BY <2>2 DEF MetricsInit, CountsAgree, Counter
  <1>3. ReportsDue
    BY DEF MetricsInit, ReportsDue, Unreported
  <1> QED
    BY <1>1, <1>2, <1>3 DEF MetricsInv

-----------------------------------------------------------------------------
(* Requests *)

LEMMA AnsweringFinite == IsFiniteSet(Answering) /\ Cardinality(Answering) \in Nat
  <1>1. Answering \subseteq Hit /\ IsFiniteSet(Hit)
    BY MetricsAssumption DEF Answering
  <1>2. IsFiniteSet(Answering)
    BY <1>1, FS_Subset
  <1> QED
    BY <1>2, FS_CardinalityType

\* A request that becomes answered is one more, one that ceases to be is one
\* fewer.
LEMMA AnsweringMore ==
    ASSUME MetricsTypeOK, NEW h \in Hit, hits[h] # "answered", HitIs(h, "answered")
    PROVE  Cardinality(Answering') = Cardinality(Answering) + 1
  <1>1. Answering' = Answering \cup {h} /\ h \notin Answering
    BY DEF Answering, HitIs, MetricsTypeOK
  <1> QED
    BY <1>1, AnsweringFinite, FS_AddElement

LEMMA AnsweringFewer ==
    ASSUME MetricsTypeOK, NEW h \in Hit, hits[h] = "answered", HitIs(h, "none")
    PROVE  Cardinality(Answering') = Cardinality(Answering) - 1
  <1>1. Answering' = Answering \ {h} /\ h \in Answering
    BY DEF Answering, HitIs, MetricsTypeOK
  <1> QED
    BY <1>1, AnsweringFinite, FS_RemoveElement

LEMMA AnsweringSame ==
    ASSUME MetricsTypeOK, NEW h \in Hit, hits[h] # "answered",
           NEW s, s # "answered", HitIs(h, s)
    PROVE  Answering' = Answering
  BY DEF Answering, HitIs, MetricsTypeOK

\* What the property adds up, with the type of each number.
LEMMA CountsTyped ==
    ASSUME MetricsTypeOK
    PROVE  /\ counts["reads"] \in Nat /\ counts["writes"] \in Nat /\ counts["searches"] \in Nat
           /\ counts["requests"] \in Nat /\ counts["errors"] \in Nat
  BY DEF MetricsTypeOK, Counter

LEMMA ArrivesKeeps ==
    ASSUME MetricsInv, NEW h \in Hit, HitArrives(h) PROVE MetricsTypeOK' /\ CountsAgree'
  <1>1. MetricsTypeOK'
    BY DEF MetricsInv, HitArrives, HitIs, MetricsTypeOK
  <1>2. Answering' = Answering
    BY AnsweringSame DEF MetricsInv, HitArrives
  <1>3. CountsAgree'
    BY <1>2 DEF MetricsInv, HitArrives, CountsAgree
  <1> QED
    BY <1>1, <1>3

LEMMA SucceedsKeeps ==
    ASSUME MetricsInv, NEW h \in Hit, HitSucceeds(h) PROVE MetricsTypeOK' /\ CountsAgree'
  <1>1. Cardinality(Answering') = Cardinality(Answering) + 1
    BY AnsweringMore DEF MetricsInv, HitSucceeds
  <1>2. CASE UNCHANGED counts
    <2>1. MetricsTypeOK'
      BY <1>2 DEF MetricsInv, HitSucceeds, HitIs, MetricsTypeOK
    <2>2. CountsAgree'
      BY <1>1, <1>2, CountsTyped, AnsweringFinite DEF MetricsInv, CountsAgree
    <2> QED
      BY <2>1, <2>2
  <1>3. CASE \E k \in Counter : counts' = [counts EXCEPT ![k] = @ + 1]
    <2> PICK k \in Counter : counts' = [counts EXCEPT ![k] = @ + 1]
      BY <1>3
    <2>1. counts' \in [Counter \cup {"requests", "errors"} -> Nat]
      BY DEF MetricsInv, MetricsTypeOK
    <2>2. MetricsTypeOK'
      BY <2>1 DEF MetricsInv, HitSucceeds, HitIs, MetricsTypeOK
    <2>3. /\ counts'["reads"] + counts'["writes"] + counts'["searches"]
               = counts["reads"] + counts["writes"] + counts["searches"] + 1
          /\ counts'["errors"] = counts["errors"] /\ counts'["requests"] = counts["requests"]
      BY CountsTyped DEF MetricsInv, MetricsTypeOK, Counter
    <2>4. CountsAgree'
      BY <1>1, <2>2, <2>3, CountsTyped, AnsweringFinite DEF MetricsInv, CountsAgree, MetricsTypeOK, Counter
    <2> QED
      BY <2>2, <2>4
  <1> QED
    BY <1>2, <1>3 DEF HitSucceeds

LEMMA FailsKeeps ==
    ASSUME MetricsInv, NEW h \in Hit, HitFails(h) PROVE MetricsTypeOK' /\ CountsAgree'
  <1>1. MetricsTypeOK'
    BY DEF MetricsInv, HitFails, HitIs, MetricsTypeOK
  <1>2. Cardinality(Answering') \in {Cardinality(Answering), Cardinality(Answering) + 1}
    BY AnsweringSame, AnsweringMore DEF MetricsInv, HitFails
  <1>3. CountsAgree'
    BY <1>2, CountsTyped, AnsweringFinite DEF MetricsInv, HitFails, CountsAgree
  <1> QED
    BY <1>1, <1>3

LEMMA ObservedKeeps ==
    ASSUME MetricsInv, NEW h \in Hit, ObserveRequest(h) PROVE MetricsTypeOK' /\ CountsAgree'
  <1>1. MetricsTypeOK'
    <2>1. counts["requests"] + 1 \in Nat /\ counts["errors"] + 1 \in Nat /\ counts["errors"] \in Nat
      BY CountsTyped DEF MetricsInv
    <2>2. counts' \in [Counter \cup {"requests", "errors"} -> Nat]
      BY <2>1 DEF MetricsInv, MetricsTypeOK, ObserveRequest
    <2>3. hits' \in [Hit -> {"none", "running", "answered", "broken"}]
      BY DEF MetricsInv, MetricsTypeOK, ObserveRequest, HitIs
    <2> QED
      BY <2>2, <2>3 DEF MetricsInv, MetricsTypeOK, ObserveRequest
  <1>2. /\ counts'["reads"] = counts["reads"]
        /\ counts'["writes"] = counts["writes"]
        /\ counts'["searches"] = counts["searches"]
        /\ counts'["requests"] = counts["requests"] + 1
        /\ counts'["errors"] = IF hits[h] = "broken" THEN counts["errors"] + 1 ELSE counts["errors"]
    BY DEF MetricsInv, ObserveRequest, MetricsTypeOK, Counter
  <1>3. CASE hits[h] = "answered"
    <2>1. Cardinality(Answering') = Cardinality(Answering) - 1
      BY <1>3, AnsweringFewer DEF MetricsInv, ObserveRequest
    <2> QED
      BY <1>1, <1>2, <1>3, <2>1, CountsTyped, AnsweringFinite DEF MetricsInv, CountsAgree
  <1>4. CASE hits[h] = "broken"
    <2>1. Answering' = Answering
      BY <1>4, AnsweringSame DEF MetricsInv, ObserveRequest
    <2> QED
      BY <1>1, <1>2, <1>4, <2>1, CountsTyped, AnsweringFinite DEF MetricsInv, CountsAgree
  <1> QED
    BY <1>3, <1>4 DEF ObserveRequest

-----------------------------------------------------------------------------
(* Builds *)

LEMMA SwapKeeps ==
    ASSUME MetricsInv, NEW b \in Rebuild, BuildSwaps(b) PROVE MetricsTypeOK' /\ ReportsDue'
  <1> PICK n \in 0 .. MaxFound : inIndex' = n /\ builds' = [builds EXCEPT ![b] = Found(n)]
    BY DEF BuildSwaps
  <1>1. MetricsTypeOK'
    BY DoneOrFound DEF MetricsInv, BuildSwaps, MetricsTypeOK
  <1>2. Unreported' = Unreported \cup {b}
    BY DoneOrFound DEF MetricsInv, MetricsTypeOK, Unreported
  <1>3. CASE Unreported = {}
    BY <1>2, <1>3, DoneOrFound DEF MetricsInv, MetricsTypeOK, ReportsDue, BuildSwaps
  <1>4. CASE Unreported # {}
    BY <1>1, <1>4 DEF BuildSwaps, ReportsDue
  <1> QED
    BY <1>1, <1>3, <1>4

LEMMA SetIndexKeeps ==
    ASSUME MetricsInv, NEW b \in Rebuild, SetIndex(b) PROVE MetricsTypeOK' /\ ReportsDue'
  <1>1. MetricsTypeOK'
    BY MetricsAssumption DEF MetricsInv, SetIndex, MetricsTypeOK, Done
  <1>2. Unreported' = Unreported \ {b} /\ b \in Unreported
    BY DEF MetricsInv, MetricsTypeOK, Unreported, SetIndex
  <1>3. ReportsDue'
    BY <1>2 DEF MetricsInv, MetricsTypeOK, ReportsDue, SetIndex
  <1> QED
    BY <1>1, <1>3

-----------------------------------------------------------------------------

LEMMA StepHolds == MetricsInv /\ [MetricsNext]_metricsVars => MetricsInv'
  <1> SUFFICES ASSUME MetricsInv, [MetricsNext]_metricsVars PROVE MetricsInv'
    OBVIOUS
  <1>1. ASSUME NEW h \in Hit,
               HitArrives(h) \/ HitSucceeds(h) \/ HitFails(h) \/ ObserveRequest(h)
        PROVE  MetricsInv'
    <2>1. MetricsTypeOK' /\ CountsAgree'
      BY <1>1, ArrivesKeeps, SucceedsKeeps, FailsKeeps, ObservedKeeps
    <2>2. UNCHANGED <<builds, inIndex, reported, crossed>>
      BY <1>1 DEF HitArrives, HitSucceeds, HitFails, ObserveRequest
    <2>3. ReportsDue'
      BY <2>2 DEF MetricsInv, ReportsDue, Unreported
    <2> QED
      BY <2>1, <2>3 DEF MetricsInv
  <1>2. ASSUME NEW b \in Rebuild, BuildSwaps(b) \/ SetIndex(b)
        PROVE  MetricsInv'
    <2>1. MetricsTypeOK' /\ ReportsDue'
      BY <1>2, SwapKeeps, SetIndexKeeps
    <2>2. UNCHANGED <<hits, counts>>
      BY <1>2 DEF BuildSwaps, SetIndex
    <2>3. CountsAgree'
      BY <2>2 DEF MetricsInv, CountsAgree, Answering
    <2> QED
      BY <2>1, <2>3 DEF MetricsInv
  <1>3. CASE UNCHANGED metricsVars
    BY <1>3 DEF metricsVars, MetricsInv, MetricsTypeOK, CountsAgree, Answering, ReportsDue, Unreported
  <1> QED
    BY <1>1, <1>2, <1>3 DEF MetricsNext

(***************************************************************************)
(* The strengthened invariant holds in every reachable state.               *)
(***************************************************************************)
THEOREM MetricsInvariance == MetricsSpec => []MetricsInv
  BY InitHolds, StepHolds, PTL DEF MetricsSpec

(***************************************************************************)
(* Whenever a snapshot is taken, what handlers have counted and what failed *)
(* is covered by the requests counted or about to be.                       *)
(***************************************************************************)
THEOREM SnapshotsAgree == MetricsSpec => []CountsAgree
  <1>1. MetricsInv => CountsAgree
    BY DEF MetricsInv
  <1> QED
    BY <1>1, MetricsInvariance, PTL

(***************************************************************************)
(* IndexedFiles is of the Build in the index unless reports crossed.        *)
(***************************************************************************)
THEOREM IndexReported == MetricsSpec => []LastReported
  <1>1. MetricsInv => LastReported
    BY DEF MetricsInv, ReportsDue, LastReported
  <1> QED
    BY <1>1, MetricsInvariance, PTL

-----------------------------------------------------------------------------
(* Config.                                                                  *)

(***************************************************************************)
(* The inductive invariant: what the settings are made of at each phase,    *)
(* and the secret once it is taken.                                         *)
(***************************************************************************)
Loaded == Over(given.env, Over(given.file, Defaults))
Complete == Over(given.flags, Loaded)

LayersLaid ==
    /\ phase = "start" => conf = Defaults
    /\ phase = "loaded" => conf = Loaded
    /\ phase \in {"complete", "valid", "ready"} => conf = Complete

SecretTaken ==
    phase = "ready" =>
      \/ conf["password_hash"] # Unset /\ secret = Secret("password_hash", conf["password_hash"])
      \/ /\ conf["password_hash"] = Unset
         /\ conf["password"] # Unset /\ secret = Secret("password", conf["password"])
      \/ /\ conf["password_hash"] = Unset /\ conf["password"] = Unset
         /\ secret = Secret("random", Unset)

ConfigInv ==
    /\ given \in [file : Layer, env : Environment, flags : Flags]
    /\ LayersLaid
    /\ SecretTaken

LEMMA ConfigStarts == ConfigInit => ConfigInv
  BY DEF ConfigInit, ConfigInv, LayersLaid, SecretTaken

LEMMA ConfigStep == ConfigInv /\ [ConfigNext]_configVars => ConfigInv'
  <1> SUFFICES ASSUME ConfigInv, [ConfigNext]_configVars PROVE ConfigInv'
    OBVIOUS
  <1> USE DEF ConfigInv
  <1>0. given' = given
    BY DEF ConfigNext, Load, LoadFails, ApplyFlags, ValidateConfig, ResolvePassword, TakesSecret,
           Refuse, ConfigSettled, configVars
  <1>1. Loaded' = Loaded /\ Complete' = Complete
    BY <1>0 DEF Loaded, Complete, Over, Defaults
  <1>2. CASE Load
    BY <1>0, <1>1, <1>2 DEF Load, LayersLaid, SecretTaken, Loaded
  <1>3. CASE phase' = "refused"
    BY <1>0, <1>3 DEF LayersLaid, SecretTaken
  <1>4. CASE ApplyFlags
    BY <1>0, <1>1, <1>4 DEF ApplyFlags, LayersLaid, SecretTaken, Complete
  <1>5. CASE phase = "complete" /\ phase' = "valid" /\ UNCHANGED <<given, conf, secret>>
    BY <1>0, <1>1, <1>5 DEF LayersLaid, SecretTaken
  <1>6. CASE ResolvePassword
    <2>1. CASE phase' = "ready"
      <3>1. phase = "valid" /\ conf' = conf
        BY <1>6, <2>1 DEF ResolvePassword, TakesSecret, Refuse
      <3>2. SecretTaken'
        BY <1>6, <2>1, <3>1 DEF ResolvePassword, TakesSecret, Refuse, SecretTaken
      <3>3. LayersLaid'
        BY <1>1, <2>1, <3>1 DEF LayersLaid
      <3> QED
        BY <1>0, <3>2, <3>3
    <2> QED
      BY <1>3, <1>6, <2>1 DEF ResolvePassword, TakesSecret, Refuse
  <1>7. CASE UNCHANGED configVars
    BY <1>0, <1>1, <1>7 DEF configVars, LayersLaid, SecretTaken
  <1> QED
    BY <1>2, <1>3, <1>4, <1>5, <1>6, <1>7
       DEF ConfigNext, LoadFails, Refuse, ValidateConfig, ConfigSettled

\* A source that gives a setting, with none above it that does, is in force.
LEMMA HighestInForce ==
    ASSUME NEW s, NEW i \in 1 .. 4, Gives(i, s), \A j \in 1 .. 4 : Gives(j, s) => j <= i
    PROVE  Given(s) # {} /\ InForce(s) = Sources[i][s]
  <1>1. DOMAIN Sources = 1 .. 4
    BY DEF Sources
  <1>2. i \in Given(s) /\ \A j \in Given(s) : j \in 1 .. 4 /\ j <= i
    BY <1>1 DEF Given
  <1>3. (CHOOSE k \in Given(s) : \A j \in Given(s) : j <= k) = i
    <2>1. \A k \in Given(s) : (\A j \in Given(s) : j <= k) => k = i
      BY <1>2
    <2>2. \E k \in Given(s) : \A j \in Given(s) : j <= k
      BY <1>2
    <2> QED
      BY <2>1, <2>2
  <1> QED
    BY <1>2, <1>3 DEF InForce

\* Four layers, one over the other, are the highest source that gives a setting.
LEMMA CompleteInForce ==
    ASSUME ConfigInv, NEW s \in Setting
    PROVE  /\ Complete[s] = InForce(s)
           /\ Complete[s] = Unset <=> Given(s) = {}
  <1>1. Complete[s] = IF given.flags[s] \in Value THEN given.flags[s]
                      ELSE IF given.env[s] \in Value THEN given.env[s]
                      ELSE IF given.file[s] \in Value THEN given.file[s]
                      ELSE Defaults[s]
    BY DEF Complete, Loaded, Over
  <1>2. /\ Sources[1][s] = Defaults[s] /\ Sources[2][s] = given.file[s]
        /\ Sources[3][s] = given.env[s] /\ Sources[4][s] = given.flags[s]
    BY DEF Sources
  <1>3. /\ Gives(1, s) <=> Defaults[s] \in Value
        /\ Gives(2, s) <=> given.file[s] \in Value
        /\ Gives(3, s) <=> given.env[s] \in Value
        /\ Gives(4, s) <=> given.flags[s] \in Value
    BY <1>2 DEF Gives
  <1>4. ASSUME NEW i \in 1 .. 4, Gives(i, s), \A j \in 1 .. 4 : Gives(j, s) => j <= i,
               Complete[s] = Sources[i][s]
        PROVE  Complete[s] = InForce(s) /\ Complete[s] # Unset /\ Given(s) # {}
    BY <1>4, HighestInForce, ConfigAssumption DEF Gives
  <1>5. CASE Gives(4, s)
    BY <1>1, <1>2, <1>3, <1>4, <1>5
  <1>6. CASE ~Gives(4, s) /\ Gives(3, s)
    BY <1>1, <1>2, <1>3, <1>4, <1>6
  <1>7. CASE ~Gives(4, s) /\ ~Gives(3, s) /\ Gives(2, s)
    BY <1>1, <1>2, <1>3, <1>4, <1>7
  <1>8. CASE ~Gives(4, s) /\ ~Gives(3, s) /\ ~Gives(2, s) /\ Gives(1, s)
    BY <1>1, <1>2, <1>3, <1>4, <1>8
  <1>9. CASE ~Gives(4, s) /\ ~Gives(3, s) /\ ~Gives(2, s) /\ ~Gives(1, s)
    <2>1. Complete[s] = Unset
      BY <1>1, <1>3, <1>9, ConfigAssumption DEF Defaults
    <2>2. DOMAIN Sources = 1 .. 4
      BY DEF Sources
    <2>3. Given(s) = {}
      BY <1>9, <2>2 DEF Given
    <2> QED
      BY <2>1, <2>3 DEF InForce
  <1> QED
    BY <1>5, <1>6, <1>7, <1>8, <1>9

\* The invariant holds in every reachable state.
THEOREM ConfigInvariance == ConfigSpec => []ConfigInv
  BY ConfigStarts, ConfigStep, PTL DEF ConfigSpec

(***************************************************************************)
(* Whatever the file, the environment and the command line say, a run that  *)
(* begins to serve does so with, for each setting, the value of the highest *)
(* source that gives it, and signs in against a hash before a password, or  *)
(* against a password of its own if no source gives either.                 *)
(***************************************************************************)
THEOREM ServedAsGiven == ConfigSpec => []ServesAsGiven
  <1>1. ConfigInv => ServesAsGiven
    <2> SUFFICES ASSUME ConfigInv, phase = "ready" PROVE ServesAsGiven
      BY DEF ServesAsGiven
    <2>1. conf = Complete
      BY DEF ConfigInv, LayersLaid
    <2>2. \A s \in Setting : conf[s] = InForce(s) /\ (conf[s] = Unset <=> Given(s) = {})
      BY <2>1, CompleteInForce
    <2>3. "password" \in Setting /\ "password_hash" \in Setting
      BY ConfigAssumption
    <2> QED
      BY <2>2, <2>3 DEF ConfigInv, SecretTaken, Secret, Secrets, ServesAsGiven
  <1> QED
    BY <1>1, ConfigInvariance, PTL

=============================================================================

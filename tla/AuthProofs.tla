----------------------------- MODULE AuthProofs -----------------------------
(***************************************************************************)
(* Auth for every number of requests, sessions and client addresses, every  *)
(* lifetime, limit and window: answers are right, and failures are bounded. *)
(***************************************************************************)
EXTENDS Auth, FiniteSetTheorems, TLAPS

(***************************************************************************)
(* The inductive invariant.                                                 *)
(***************************************************************************)

\* A session in the map has not been logged out or lost.
StoreSound == store \cap over = {}

\* A live session is in the map.
LiveStored == \A t \in Token : Live(t) => t \in store

\* A login about to store its session has drawn its token, and nobody can
\* have logged it out.
StoringSound == \A w \in Worker, t \in Token : req[w] = Storing(t) => t \in issued \ over

\* The sweep removes expired sessions only.
DoomedExpired == \A t \in doomed : Expired(t)

\* What each stage of Validate knows of its token.
Dead(t) == t \in over \/ Expired(t)

CheckSound(r, t, l) ==
    /\ r = Checking("judging", t, l) => l \/ Expired(t)
    /\ r = Checking("dropping", t, l) => Expired(t)
    /\ r = Checking("admitted", t, l) => l
    /\ r = Checking("refused", t, l) => Dead(t)

ChecksSound ==
    \A w \in Worker, t \in Token, l \in BOOLEAN : CheckSound(req[w], t, l)

Sound ==
    /\ StoreSound
    /\ LiveStored
    /\ StoringSound
    /\ DoomedExpired
    /\ ChecksSound

\* Every request still deciding has room left for its failure.
Failures(k) == IF k \in DOMAIN entries THEN entries[k].count ELSE 0

Deciders(k) == {w \in Worker : req[w] = Deciding(k)}

FailureRoom ==
    \A k \in Key : Failures(k) + Cardinality(Deciders(k)) <= Limit - 1 + Cardinality(Worker)

AuthInv == AuthTypeOK /\ Sound /\ FailureRoom

-----------------------------------------------------------------------------
(* Counting *)

\* The sets of workers that FailureRoom counts are finite and no larger than
\* the set of all workers.
LEMMA DecidersCount ==
    ASSUME NEW k
    PROVE  /\ IsFiniteSet(Deciders(k))
           /\ Cardinality(Deciders(k)) \in Nat
           /\ Cardinality(Deciders(k)) <= Cardinality(Worker)
           /\ Cardinality(Worker) \in Nat
  <1>1. Deciders(k) \in SUBSET Worker
    BY DEF Deciders
  <1>2. IsFiniteSet(Deciders(k)) /\ Cardinality(Deciders(k)) <= Cardinality(Worker)
    BY <1>1, FS_Subset, WorkersAssumption
  <1> QED
    BY <1>2, FS_CardinalityType, WorkersAssumption

\* Fewer requests deciding on a key are fewer when counted.
LEMMA FewerDeciders ==
    ASSUME NEW k, NEW S \in SUBSET Deciders(k)
    PROVE  Cardinality(S) \in Nat /\ Cardinality(S) <= Cardinality(Deciders(k))
  BY DecidersCount, FS_Subset, FS_CardinalityType

\* The failures of a key are a number.
LEMMA FailuresNat ==
    ASSUME LimiterTypeOK, NEW k
    PROVE  Failures(k) \in Nat
  BY DEF LimiterTypeOK, Failures, Entry

\* No counter that grows and no new request deciding: there is room as before.
LEMMA RoomKept ==
    ASSUME LimiterTypeOK, FailureRoom, LimiterTypeOK',
           \A k \in Key : Failures(k)' <= Failures(k),
           \A k \in Key : Deciders(k)' \subseteq Deciders(k)
    PROVE  FailureRoom'
  <1> SUFFICES ASSUME NEW k \in Key
               PROVE  Failures(k)' + Cardinality(Deciders(k)') <= Limit - 1 + Cardinality(Worker)
    BY DEF FailureRoom
  <1>1. Failures(k) \in Nat /\ Failures(k)' \in Nat
    BY FailuresNat DEF LimiterTypeOK, Failures, Entry
  <1>2. Cardinality(Deciders(k)') \in Nat /\ Cardinality(Deciders(k)') <= Cardinality(Deciders(k))
    BY FewerDeciders
  <1>3. Failures(k)' <= Failures(k)
    OBVIOUS
  <1>4. Failures(k) + Cardinality(Deciders(k)) <= Limit - 1 + Cardinality(Worker)
    BY DEF FailureRoom
  <1> QED
    BY <1>1, <1>2, <1>3, <1>4, DecidersCount, LimitAssumption

-----------------------------------------------------------------------------
(* One request moves on *)

\* The stages are told apart by their names.
LEMMA StagesDiffer ==
    ASSUME NEW k, NEW k2, NEW t, NEW t2, NEW l, NEW l2, NEW s, NEW s2, s \in CheckStage
    PROVE  /\ Idle # Issuing /\ Idle # Deciding(k) /\ Idle # Storing(t) /\ Idle # Checking(s, t, l)
           /\ Issuing # Deciding(k) /\ Issuing # Storing(t) /\ Issuing # Checking(s, t, l)
           /\ Deciding(k) # Storing(t) /\ Deciding(k) # Checking(s, t, l)
           /\ Storing(t) # Checking(s, t, l)
           /\ Deciding(k) = Deciding(k2) => k = k2
           /\ Storing(t) = Storing(t2) => t = t2
           /\ Checking(s, t, l) = Checking(s2, t2, l2) => s = s2 /\ t = t2 /\ l = l2
  BY DEF Idle, Issuing, Deciding, Storing, Checking, CheckStage

\* The requests of all other workers stay as they are.
LEMMA OneMoves ==
    ASSUME req \in [Worker -> Request], NEW w \in Worker, NEW r \in Request, Goes(w, r)
    PROVE  /\ req' \in [Worker -> Request]
           /\ req'[w] = r
           /\ \A v \in Worker \ {w} : req'[v] = req[v]
  BY DEF Goes

\* A request that moves on to anything but a decision leaves room for failures
\* if no counter grows.
LEMMA RoomMoves ==
    ASSUME LimiterTypeOK, FailureRoom, LimiterTypeOK', req \in [Worker -> Request],
           \A k \in Key : Failures(k)' <= Failures(k),
           NEW w \in Worker, NEW r \in Request, Goes(w, r), \A k \in Key : r # Deciding(k)
    PROVE  FailureRoom'
  <1>1. \A k \in Key : Deciders(k)' \subseteq Deciders(k)
    BY OneMoves DEF Deciders
  <1> QED
    BY <1>1, RoomKept

\* A request that neither draws nor stores a token, while the sessions stay
\* as they are, leaves them sound if its new stage is.
LEMMA SoundMoves ==
    ASSUME AuthTypeOK, Sound, UNCHANGED <<sessionVars, over>>,
           NEW w \in Worker, NEW r \in Request, Goes(w, r),
           \A t \in Token : req[w] # Storing(t) /\ r # Storing(t),
           \A t \in Token, l \in BOOLEAN : CheckSound(r, t, l)
    PROVE  Sound'
  <1> USE DEF sessionVars
  <1>1. \A v \in Worker : v # w => req'[v] = req[v]
    BY OneMoves DEF AuthTypeOK
  <1>2. req'[w] = r
    BY OneMoves DEF AuthTypeOK
  <1>3. StoreSound'
    BY DEF Sound, StoreSound
  <1>4. \A t \in Token : Known(t)' <=> Known(t)
    BY <1>1, <1>2 DEF Known
  <1>5. LiveStored'
    BY <1>4 DEF Sound, LiveStored, Live, Expired
  <1>6. StoringSound'
    BY <1>1, <1>2 DEF Sound, StoringSound
  <1>7. DoomedExpired'
    BY DEF Sound, DoomedExpired, Expired
  <1>8. ChecksSound'
    BY <1>1, <1>2 DEF Sound, ChecksSound, CheckSound, Dead, Expired
  <1> QED
    BY <1>3, <1>5, <1>6, <1>7, <1>8 DEF Sound

\* A stage outside Validate says nothing of a token.
LEMMA SoundElsewhere ==
    ASSUME NEW t \in Token, NEW l \in BOOLEAN, NEW k, NEW t2
    PROVE  /\ CheckSound(Idle, t, l)
           /\ CheckSound(Issuing, t, l)
           /\ CheckSound(Deciding(k), t, l)
           /\ CheckSound(Storing(t2), t, l)
  BY DEF CheckSound, Idle, Issuing, Deciding, Storing, Checking

-----------------------------------------------------------------------------
(* The steps *)

\* The counter of a key that Allowed, Fail or Reset touches, and of the others.
LEMMA EntryStep ==
    ASSUME LimiterTypeOK, NEW k \in Key
    PROVE  /\ Current(k) \in Entry
           /\ Current(k).count <= Failures(k)
           /\ \A e \in Entry : SetEntry(k, e) =>
                /\ LimiterTypeOK'
                /\ Failures(k)' = e.count
                /\ \A j \in Key \ {k} : Failures(j)' = Failures(j)
           /\ Reset(k) =>
                /\ LimiterTypeOK'
                /\ Failures(k)' = 0
                /\ \A j \in Key \ {k} : Failures(j)' = Failures(j)
  <1>1. Current(k) \in Entry
    BY LimitAssumption DEF LimiterTypeOK, Current, NewWindow, Entry
  <1>2. Current(k).count <= Failures(k)
    BY DEF LimiterTypeOK, Current, NewWindow, Entry, Failures
  <1>3. ASSUME NEW e \in Entry, SetEntry(k, e)
        PROVE  /\ LimiterTypeOK'
               /\ Failures(k)' = e.count
               /\ \A j \in Key \ {k} : Failures(j)' = Failures(j)
    BY <1>3 DEF SetEntry, LimiterTypeOK, Failures
  <1>4. ASSUME Reset(k)
        PROVE  /\ LimiterTypeOK'
               /\ Failures(k)' = 0
               /\ \A j \in Key \ {k} : Failures(j)' = Failures(j)
    BY <1>4 DEF Reset, LimiterTypeOK, Failures
  <1> QED
    BY <1>1, <1>2, <1>3, <1>4

\* Allowed stores a counter that has not grown.
LEMMA AllowedStep ==
    ASSUME LimiterTypeOK, NEW k \in Key, Allowed(k)
    PROVE  /\ LimiterTypeOK'
           /\ Failures(k)' = Current(k).count
           /\ \A j \in Key : Failures(j)' \in Nat /\ Failures(j)' <= Failures(j)
  <1>1. Current(k) \in Entry /\ Current(k).count <= Failures(k)
    BY EntryStep
  <1>2. SetEntry(k, Current(k))
    BY DEF Allowed
  <1>3. /\ LimiterTypeOK'
        /\ Failures(k)' = Current(k).count
        /\ \A j \in Key \ {k} : Failures(j)' = Failures(j)
    BY <1>1, <1>2, EntryStep
  <1>4. Current(k).count \in Nat
    BY <1>1 DEF Entry
  <1> QED
    BY <1>1, <1>3, <1>4, FailuresNat

\* A request that moves on while sessions and counters stay as they are.
LEMMA QuietMove ==
    ASSUME AuthInv, UNCHANGED <<sessionVars, entries, over>>,
           NEW w \in Worker, NEW r \in Request, Goes(w, r),
           \A t \in Token : req[w] # Storing(t) /\ r # Storing(t),
           \A k \in Key : r # Deciding(k),
           \A t \in Token, l \in BOOLEAN : CheckSound(r, t, l)
    PROVE  AuthInv'
  <1>1. AuthTypeOK'
    BY OneMoves DEF AuthInv, AuthTypeOK, SessionTypeOK, LimiterTypeOK, sessionVars
  <1>2. Sound'
    BY SoundMoves DEF AuthInv
  <1>3. \A k \in Key : Failures(k)' <= Failures(k)
    BY FailuresNat DEF AuthInv, AuthTypeOK, Failures
  <1>4. FailureRoom'
    BY <1>1, <1>3, RoomMoves DEF AuthInv, AuthTypeOK
  <1> QED
    BY <1>1, <1>2, <1>4 DEF AuthInv

\* Every step of a login keeps the invariant.
LEMMA LoginStep ==
    ASSUME AuthInv, NEW w \in Worker, Login(w)
    PROVE  AuthInv'
  <1> USE DEF AuthInv
  <1>1. AuthTypeOK /\ SessionTypeOK /\ LimiterTypeOK /\ req \in [Worker -> Request]
    BY DEF AuthTypeOK
  <1>2. ASSUME NEW k \in Key, LoginArrives(w, k) PROVE AuthInv'
    <2>1. /\ LimiterTypeOK'
          /\ Failures(k)' = Current(k).count
          /\ \A j \in Key : Failures(j)' \in Nat /\ Failures(j)' <= Failures(j)
      BY <1>1, <1>2, AllowedStep DEF LoginArrives
    <2>2. CASE ~MayTry(k)
      <3>1. UNCHANGED <<sessionVars, req, over>>
        BY <1>2, <2>2 DEF LoginArrives
      <3>2. AuthTypeOK' /\ Sound'
        BY <3>1, <2>1 DEF AuthTypeOK, SessionTypeOK, sessionVars, Sound, StoreSound, LiveStored,
           Live, Known, StoringSound, DoomedExpired, ChecksSound, CheckSound, Dead, Expired
      <3>3. FailureRoom'
        BY <1>1, <2>1, <3>1, RoomKept DEF Deciders
      <3> QED
        BY <3>2, <3>3
    <2>3. CASE MayTry(k)
      <3> DEFINE r == Deciding(k)
      <3>1. r \in Request /\ Goes(w, r) /\ UNCHANGED <<sessionVars, over>> /\ req[w] = Idle
        BY <1>2, <2>3 DEF LoginArrives, Request
      <3>2. \A t \in Token : req[w] # Storing(t) /\ r # Storing(t)
        BY <3>1 DEF Idle, Deciding, Storing
      <3>3. \A t \in Token, l \in BOOLEAN : CheckSound(r, t, l)
        BY SoundElsewhere
      <3> HIDE DEF r
      <3>4. Sound'
        BY <1>1, <3>1, <3>2, <3>3, SoundMoves
      <3>5. AuthTypeOK'
        BY <1>1, <2>1, <3>1, OneMoves DEF AuthTypeOK, SessionTypeOK, sessionVars
      <3>6. ASSUME NEW j \in Key
            PROVE  Failures(j)' + Cardinality(Deciders(j)') <= Limit - 1 + Cardinality(Worker)
        <4>1. CASE j = k
          <5>1. Cardinality(Deciders(k)') \in Nat /\ Cardinality(Deciders(k)') <= Cardinality(Worker)
            <6>1. Deciders(k)' \in SUBSET Worker
              BY DEF Deciders
            <6> QED
              BY <6>1, FS_Subset, FS_CardinalityType, WorkersAssumption
          <5>2. Failures(k)' \in Nat /\ Failures(k)' <= Limit - 1
            BY <2>1, <2>3, LimitAssumption DEF MayTry
          <5> QED
            BY <4>1, <5>1, <5>2, DecidersCount, LimitAssumption
        <4>2. CASE j # k
          <5>1. Deciders(j)' \subseteq Deciders(j)
            BY <1>1, <3>1, <4>2, OneMoves DEF Deciders, r, Deciding
          <5>2. Failures(j) + Cardinality(Deciders(j)) <= Limit - 1 + Cardinality(Worker)
            BY DEF FailureRoom
          <5> QED
            BY <1>1, <2>1, <5>1, <5>2, FewerDeciders, DecidersCount, FailuresNat, LimitAssumption
        <4> QED
          BY <4>1, <4>2
      <3> QED
        BY <3>4, <3>5, <3>6 DEF FailureRoom
    <2> QED
      BY <2>2, <2>3
  <1>3. ASSUME NEW k \in Key, LoginMalformed(w, k) PROVE AuthInv'
    <2>1. Goes(w, Idle) /\ UNCHANGED <<sessionVars, entries, over>> /\ req[w] = Deciding(k)
      BY <1>3 DEF LoginMalformed
    <2>2. \A t \in Token : req[w] # Storing(t) /\ Idle # Storing(t)
      BY <2>1 DEF Idle, Deciding, Storing
    <2>3. Idle \in Request /\ \A j \in Key : Idle # Deciding(j)
      BY DEF Request, Idle, Deciding
    <2> QED
      BY <2>1, <2>2, <2>3, SoundElsewhere, QuietMove
  <1>4. ASSUME NEW k \in Key, LoginFails(w, k) PROVE AuthInv'
    <2>1. Goes(w, Idle) /\ UNCHANGED <<sessionVars, over>> /\ req[w] = Deciding(k)
      BY <1>4 DEF LoginFails
    <2>2. \A t \in Token : req[w] # Storing(t) /\ Idle # Storing(t)
      BY <2>1 DEF Idle, Deciding, Storing
    <2>3. Idle \in Request /\ \A j \in Key : Idle # Deciding(j)
      BY DEF Request, Idle, Deciding
    <2>4. Sound'
      BY <1>1, <2>1, <2>2, <2>3, SoundElsewhere, SoundMoves
    <2>5. /\ Current(k) \in Entry
          /\ Current(k).count \in Nat
          /\ Current(k).count <= Failures(k)
      BY <1>1, EntryStep DEF Entry
    <2> DEFINE e == [Current(k) EXCEPT !.count = @ + 1]
    <2>6. e \in Entry /\ e.count = Current(k).count + 1 /\ SetEntry(k, e)
      BY <1>4, <2>5 DEF LoginFails, Fail, Entry
    <2> HIDE DEF e
    <2>7. /\ LimiterTypeOK'
          /\ Failures(k)' = Current(k).count + 1
          /\ \A j \in Key \ {k} : Failures(j)' = Failures(j)
      BY <1>1, <2>6, EntryStep
    <2>8. AuthTypeOK'
      BY <1>1, <2>1, <2>3, <2>7, OneMoves DEF AuthTypeOK, SessionTypeOK, sessionVars
    <2>9. ASSUME NEW j \in Key
          PROVE  Failures(j)' + Cardinality(Deciders(j)') <= Limit - 1 + Cardinality(Worker)
      <3>1. Failures(j) + Cardinality(Deciders(j)) <= Limit - 1 + Cardinality(Worker)
        BY DEF FailureRoom
      <3>2. CASE j = k
        <4>1. Deciders(k)' = Deciders(k) \ {w} /\ w \in Deciders(k)
          BY <1>1, <2>1, <2>3, OneMoves DEF Deciders
        <4>2. Cardinality(Deciders(k)') = Cardinality(Deciders(k)) - 1
          BY <4>1, DecidersCount, FS_RemoveElement
        <4> QED
          BY <1>1, <2>5, <2>7, <3>1, <3>2, <4>2, DecidersCount, FailuresNat, LimitAssumption
      <3>3. CASE j # k
        <4>1. Deciders(j)' \subseteq Deciders(j)
          BY <1>1, <2>1, <2>3, OneMoves DEF Deciders
        <4> QED
          BY <1>1, <2>7, <3>1, <3>3, <4>1, FewerDeciders, DecidersCount, FailuresNat, LimitAssumption
      <3> QED
        BY <3>2, <3>3
    <2> QED
      BY <2>4, <2>8, <2>9 DEF FailureRoom
  <1>5. ASSUME NEW k \in Key, LoginVerified(w, k) PROVE AuthInv'
    <2>1. Goes(w, Issuing) /\ UNCHANGED <<sessionVars, over>> /\ req[w] = Deciding(k)
      BY <1>5 DEF LoginVerified
    <2>2. \A t \in Token : req[w] # Storing(t) /\ Issuing # Storing(t)
      BY <2>1 DEF Issuing, Deciding, Storing
    <2>3. Issuing \in Request /\ \A j \in Key : Issuing # Deciding(j)
      BY DEF Request, Issuing, Deciding
    <2>4. Sound'
      BY <1>1, <2>1, <2>2, <2>3, SoundElsewhere, SoundMoves
    <2>5. /\ LimiterTypeOK'
          /\ Failures(k)' = 0
          /\ \A j \in Key \ {k} : Failures(j)' = Failures(j)
      BY <1>1, <1>5, EntryStep DEF LoginVerified
    <2>6. \A j \in Key : Failures(j)' <= Failures(j)
      BY <1>1, <2>5, FailuresNat
    <2>7. AuthTypeOK'
      BY <1>1, <2>1, <2>3, <2>5, OneMoves DEF AuthTypeOK, SessionTypeOK, sessionVars
    <2>8. FailureRoom'
      BY <1>1, <2>1, <2>3, <2>5, <2>6, RoomMoves
    <2> QED
      BY <2>4, <2>7, <2>8
  <1>6. ASSUME NEW t \in Token, LoginDraws(w, t) PROVE AuthInv'
    <2>1. /\ Goes(w, Storing(t)) /\ req[w] = Issuing /\ UNCHANGED <<store, age, gc, doomed, entries, over>>
          /\ t \notin issued /\ issued' = issued \cup {t}
      BY <1>6 DEF LoginDraws, Draw
    <2>2. Storing(t) \in Request /\ \A k \in Key : Storing(t) # Deciding(k)
      BY DEF Request, Storing, Deciding
    <2>3. /\ req'[w] = Storing(t)
          /\ \A v \in Worker \ {w} : req'[v] = req[v]
          /\ req' \in [Worker -> Request]
      BY <1>1, <2>1, <2>2, OneMoves
    <2>4. AuthTypeOK'
      BY <1>1, <2>1, <2>3 DEF AuthTypeOK, SessionTypeOK, LimiterTypeOK
    <2>5. StoreSound' /\ DoomedExpired'
      BY <1>1, <2>1 DEF Sound, StoreSound, DoomedExpired, Expired
    <2>6. \A u \in Token : Known(u)' => Known(u)
      BY <2>1, <2>3 DEF Known, Issuing, Storing
    <2>7. LiveStored'
      BY <2>1, <2>6 DEF Sound, LiveStored, Live, Expired
    <2>8. t \notin over
      BY <1>1, <2>1 DEF AuthTypeOK
    <2>9. StoringSound'
      BY <2>1, <2>3, <2>8 DEF Sound, StoringSound, Storing
    <2>10. \A u \in Token, l \in BOOLEAN : CheckSound(Storing(t), u, l)
      BY SoundElsewhere
    <2>11. ChecksSound'
      BY <2>1, <2>3, <2>10 DEF Sound, ChecksSound, CheckSound, Dead, Expired
    <2>12. \A k \in Key : Failures(k)' <= Failures(k)
      BY <1>1, <2>1, FailuresNat DEF Failures
    <2>13. FailureRoom'
      BY <1>1, <2>1, <2>2, <2>4, <2>12, RoomMoves DEF AuthTypeOK
    <2> QED
      BY <2>4, <2>5, <2>7, <2>9, <2>11, <2>13 DEF Sound
  <1>7. ASSUME NEW t \in Token, LoginStores(w, t) PROVE AuthInv'
    <2>1. /\ Goes(w, Idle) /\ req[w] = Storing(t) /\ UNCHANGED <<issued, age, gc, doomed, entries, over>>
          /\ store' = store \cup {t}
      BY <1>7 DEF LoginStores, StoreSession
    <2>2. Idle \in Request /\ (\A k \in Key : Idle # Deciding(k)) /\ (\A u \in Token : Idle # Storing(u))
      BY DEF Request, Idle, Deciding, Storing
    <2>3. /\ req'[w] = Idle
          /\ \A v \in Worker \ {w} : req'[v] = req[v]
          /\ req' \in [Worker -> Request]
      BY <1>1, <2>1, <2>2, OneMoves
    <2>4. t \in issued \ over
      BY <2>1 DEF Sound, StoringSound
    <2>5. AuthTypeOK'
      BY <1>1, <2>1, <2>3, <2>4 DEF AuthTypeOK, SessionTypeOK, LimiterTypeOK
    <2>6. StoreSound' /\ DoomedExpired'
      BY <2>1, <2>4 DEF Sound, StoreSound, DoomedExpired, Expired
    <2>7. \A u \in Token \ {t} : Known(u)' => Known(u)
      BY <2>1, <2>3 DEF Known, Storing
    <2>8. LiveStored'
      BY <2>1, <2>7 DEF Sound, LiveStored, Live, Expired
    <2>9. StoringSound'
      BY <2>1, <2>2, <2>3 DEF Sound, StoringSound
    <2>10. \A u \in Token, l \in BOOLEAN : CheckSound(Idle, u, l)
      BY SoundElsewhere
    <2>11. ChecksSound'
      BY <2>1, <2>3, <2>10 DEF Sound, ChecksSound, CheckSound, Dead, Expired
    <2>12. \A k \in Key : Failures(k)' <= Failures(k)
      BY <1>1, <2>1, FailuresNat DEF Failures
    <2>13. FailureRoom'
      BY <1>1, <2>1, <2>2, <2>5, <2>12, RoomMoves DEF AuthTypeOK
    <2> QED
      BY <2>5, <2>6, <2>8, <2>9, <2>11, <2>13 DEF Sound
  <1>8. ASSUME LoginDrawFails(w) PROVE AuthInv'
    <2>1. Goes(w, Idle) /\ UNCHANGED <<sessionVars, entries, over>> /\ req[w] = Issuing
      BY <1>8 DEF LoginDrawFails
    <2>2. \A t \in Token : req[w] # Storing(t) /\ Idle # Storing(t)
      BY <2>1 DEF Idle, Issuing, Storing
    <2>3. Idle \in Request /\ \A j \in Key : Idle # Deciding(j)
      BY DEF Request, Idle, Deciding
    <2> QED
      BY <2>1, <2>2, <2>3, SoundElsewhere, QuietMove
  <1> QED
    BY <1>2, <1>3, <1>4, <1>5, <1>6, <1>7, <1>8 DEF Login

\* Every step of Validate, for the middleware or for Status, keeps it.
LEMMA ValidateStep ==
    ASSUME AuthInv, NEW w \in Worker, Validate(w)
    PROVE  AuthInv'
  <1> USE DEF AuthInv
  <1>1. AuthTypeOK /\ SessionTypeOK /\ LimiterTypeOK /\ req \in [Worker -> Request]
    BY DEF AuthTypeOK
  <1>2. \A s \in CheckStage, t \in Token, l \in BOOLEAN :
            /\ Checking(s, t, l) \in Request
            /\ \A k \in Key : Checking(s, t, l) # Deciding(k)
            /\ \A u \in Token : Checking(s, t, l) # Storing(u)
    BY DEF Request, CheckStage, Checking, Deciding, Storing
  <1>3. Idle \in Request /\ (\A k \in Key : Idle # Deciding(k)) /\ (\A u \in Token : Idle # Storing(u))
    BY DEF Request, Idle, Deciding, Storing
  <1>4. ASSUME NEW t \in Token, ValidateLooks(w, t) PROVE AuthInv'
    <2> DEFINE s == IF t \in store THEN "judging" ELSE "refused"
    <2>1. Goes(w, Checking(s, t, Live(t))) /\ UNCHANGED <<sessionVars, entries, over>> /\ req[w] = Idle
      BY <1>4 DEF ValidateLooks
    <2>2. s \in CheckStage /\ Live(t) \in BOOLEAN
      BY DEF CheckStage, Live, Known, Expired
    <2>3. \A u \in Token, l \in BOOLEAN : CheckSound(Checking(s, t, Live(t)), u, l)
      <3>1. Known(t)
        BY <1>4 DEF ValidateLooks
      <3>2. CASE t \in store
        <4>1. t \notin over
          BY <3>2 DEF Sound, StoreSound
        <4> QED
          BY <3>1, <3>2, <4>1 DEF CheckSound, Checking, Live
      <3>3. CASE t \notin store
        <4>1. Dead(t)
          BY <3>1, <3>3 DEF Sound, LiveStored, Live, Dead
        <4> QED
          BY <3>3, <4>1 DEF CheckSound, Checking
      <3> QED
        BY <3>2, <3>3
    <2> HIDE DEF s
    <2> QED
      BY <1>2, <1>3, <2>1, <2>2, <2>3, QuietMove
  <1>5. ASSUME NEW t \in Token, NEW l \in BOOLEAN, ValidateJudges(w, t, l) PROVE AuthInv'
    <2> DEFINE s == IF Expired(t) THEN "dropping" ELSE "admitted"
    <2>1. Goes(w, Checking(s, t, l)) /\ UNCHANGED <<sessionVars, entries, over>> /\ req[w] = Checking("judging", t, l)
      BY <1>5 DEF ValidateJudges
    <2>2. s \in CheckStage /\ "judging" \in CheckStage
      BY DEF CheckStage
    <2>3. l \/ Expired(t)
      BY <2>1 DEF Sound, ChecksSound, CheckSound
    <2>4. \A u \in Token, m \in BOOLEAN : CheckSound(Checking(s, t, l), u, m)
      BY <2>3 DEF CheckSound, Checking
    <2> HIDE DEF s
    <2> QED
      BY <1>2, <2>1, <2>2, <2>4, QuietMove
  <1>6. ASSUME NEW t \in Token, NEW l \in BOOLEAN, Answer(w, t, l) PROVE AuthInv'
    <2>1. /\ Goes(w, Idle) /\ UNCHANGED <<sessionVars, entries, over>>
          /\ req[w] \in {Checking("admitted", t, l), Checking("refused", t, l)}
      BY <1>6 DEF Answer
    <2>2. "admitted" \in CheckStage /\ "refused" \in CheckStage
      BY DEF CheckStage
    <2> QED
      BY <1>2, <1>3, <2>1, <2>2, SoundElsewhere, QuietMove
  <1>7. ASSUME NEW t \in Token, NEW l \in BOOLEAN, ValidateDrops(w, t, l) PROVE AuthInv'
    <2>1. /\ Goes(w, Checking("refused", t, l)) /\ req[w] = Checking("dropping", t, l)
          /\ store' = store \ {t} /\ UNCHANGED <<issued, age, gc, doomed, entries, over>>
      BY <1>7 DEF ValidateDrops, DeleteSession
    <2>2. "dropping" \in CheckStage /\ "refused" \in CheckStage
      BY DEF CheckStage
    <2>3. /\ req'[w] = Checking("refused", t, l)
          /\ \A v \in Worker \ {w} : req'[v] = req[v]
          /\ req' \in [Worker -> Request]
      BY <1>1, <1>2, <2>1, <2>2, OneMoves
    <2>4. Expired(t)
      BY <2>1 DEF Sound, ChecksSound, CheckSound
    <2>5. AuthTypeOK'
      BY <1>1, <2>1, <2>3 DEF AuthTypeOK, SessionTypeOK, LimiterTypeOK
    <2>6. StoreSound' /\ DoomedExpired'
      BY <2>1 DEF Sound, StoreSound, DoomedExpired, Expired
    <2>7. \A u \in Token : Known(u)' => Known(u)
      BY <1>2, <2>1, <2>2, <2>3 DEF Known
    <2>8. LiveStored'
      BY <2>1, <2>4, <2>7 DEF Sound, LiveStored, Live, Expired
    <2>9. StoringSound'
      BY <1>2, <2>1, <2>2, <2>3 DEF Sound, StoringSound
    <2>10. \A u \in Token, m \in BOOLEAN : CheckSound(Checking("refused", t, l), u, m)
      BY <2>4 DEF CheckSound, Checking, Dead
    <2>11. ChecksSound'
      BY <2>1, <2>3, <2>10 DEF Sound, ChecksSound, CheckSound, Dead, Expired
    <2>12. \A k \in Key : Failures(k)' <= Failures(k)
      BY <1>1, <2>1, FailuresNat DEF Failures
    <2>13. FailureRoom'
      BY <1>1, <1>2, <2>1, <2>2, <2>5, <2>12, RoomMoves DEF AuthTypeOK
    <2> QED
      BY <2>5, <2>6, <2>8, <2>9, <2>11, <2>13 DEF Sound
  <1> QED
    BY <1>4, <1>5, <1>6, <1>7 DEF Validate

\* Logging out ends a session for good, also under a request that has found it.
LEMMA LogoutStep ==
    ASSUME AuthInv, NEW w \in Worker, NEW t \in Token, Logout(w, t)
    PROVE  AuthInv'
  <1> USE DEF AuthInv
  <1>1. /\ store' = store \ {t} /\ over' = over \cup {t} /\ Known(t)
        /\ UNCHANGED <<issued, age, gc, doomed, entries, req>>
    BY DEF Logout, DeleteSession
  <1>2. AuthTypeOK'
    BY <1>1 DEF AuthTypeOK, SessionTypeOK, LimiterTypeOK, Known
  <1>3. StoreSound' /\ DoomedExpired'
    BY <1>1 DEF Sound, StoreSound, DoomedExpired, Expired
  <1>4. LiveStored'
    BY <1>1 DEF Sound, LiveStored, Live, Known, Expired
  <1>5. StoringSound'
    BY <1>1 DEF Sound, StoringSound, Known, Storing
  <1>6. ChecksSound'
    BY <1>1 DEF Sound, ChecksSound, CheckSound, Dead, Expired
  <1>7. FailureRoom'
    BY <1>1 DEF FailureRoom, Failures, Deciders
  <1> QED
    BY <1>2, <1>3, <1>4, <1>5, <1>6, <1>7 DEF Sound

\* A sweep dooms expired sessions only, and removes them however late it runs.
LEMMA EvictStep ==
    ASSUME AuthInv, EvictExpired
    PROVE  AuthInv'
  <1> USE DEF AuthInv
  <1>1. UNCHANGED <<issued, age, entries, req, over>>
    BY DEF EvictExpired, EvictLooks, EvictSweeps
  <1>2. /\ store' = store \/ store' = store \ doomed
        /\ doomed' = {} \/ doomed' = {t \in issued : Expired(t)}
        /\ gc' \in {"waiting", "sweeping"}
    BY DEF EvictExpired, EvictLooks, EvictSweeps
  <1>3. AuthTypeOK'
    BY <1>1, <1>2 DEF AuthTypeOK, SessionTypeOK, LimiterTypeOK
  <1>4. StoreSound' /\ DoomedExpired'
    BY <1>1, <1>2 DEF Sound, StoreSound, DoomedExpired, Expired
  <1>5. LiveStored'
    BY <1>1, <1>2 DEF Sound, LiveStored, Live, Known, DoomedExpired, Expired
  <1>6. StoringSound' /\ ChecksSound'
    BY <1>1 DEF Sound, StoringSound, ChecksSound, CheckSound, Dead, Expired
  <1>7. FailureRoom'
    BY <1>1 DEF FailureRoom, Failures, Deciders
  <1> QED
    BY <1>3, <1>4, <1>5, <1>6, <1>7 DEF Sound

\* Time only makes sessions older and leaves counters alone.
LEMMA TickStep ==
    ASSUME AuthInv, Tick
    PROVE  AuthInv'
  <1> USE DEF AuthInv
  <1>1. UNCHANGED <<store, issued, gc, doomed, req, over>>
    BY DEF Tick, SessionsAge
  <1>2. age' = [t \in Token |-> IF t \in issued /\ ~Expired(t) THEN age[t] + 1 ELSE age[t]]
    BY DEF Tick, SessionsAge
  <1>3. age \in [Token -> 0 .. TTL + 1]
    BY DEF AuthTypeOK, SessionTypeOK
  <1>4. age' \in [Token -> 0 .. TTL + 1] /\ \A t \in Token : Expired(t) => Expired(t)'
    BY <1>2, <1>3, TTLAssumption DEF Expired
  <1>5. \A t \in Token : Live(t)' => Live(t)
    BY <1>1, <1>4 DEF Live, Known
  <1>6. /\ LimiterTypeOK'
        /\ \A k \in Key : Failures(k)' = Failures(k)
    BY LimitAssumption DEF AuthTypeOK, LimiterTypeOK, Tick, WindowsAge, Elapsed, Entry, Failures
  <1>7. AuthTypeOK'
    BY <1>1, <1>4, <1>6 DEF AuthTypeOK, SessionTypeOK
  <1>8. StoreSound' /\ StoringSound'
    BY <1>1 DEF Sound, StoreSound, StoringSound
  <1>9. LiveStored'
    BY <1>1, <1>5 DEF Sound, LiveStored
  <1>10. DoomedExpired'
    BY <1>1, <1>4 DEF Sound, DoomedExpired, AuthTypeOK, SessionTypeOK
  <1>11. ChecksSound'
    BY <1>1, <1>4 DEF Sound, ChecksSound, CheckSound, Dead
  <1>12. FailureRoom'
    BY <1>1, <1>6 DEF FailureRoom, Deciders
  <1> QED
    BY <1>7, <1>8, <1>9, <1>10, <1>11, <1>12 DEF Sound

\* A restart loses every session, and knows that it does.
LEMMA RestartStep ==
    ASSUME AuthInv, Restart
    PROVE  AuthInv'
  <1> USE DEF AuthInv
  <1>1. /\ store' = {} /\ gc' = "waiting" /\ doomed' = {} /\ UNCHANGED <<issued, age>>
        /\ entries' = [k \in {} |-> {}] /\ over' = issued
        /\ req' = [w \in Worker |-> Idle]
    BY DEF Restart, SessionsLost
  <1>2. AuthTypeOK'
    BY <1>1 DEF AuthTypeOK, SessionTypeOK, LimiterTypeOK, Request
  <1>3. StoreSound' /\ DoomedExpired'
    BY <1>1 DEF StoreSound, DoomedExpired
  <1>4. LiveStored'
    BY <1>1 DEF LiveStored, Live, Known
  <1>5. StoringSound'
    BY <1>1 DEF StoringSound, Idle, Storing
  <1>6. ChecksSound'
    BY <1>1 DEF ChecksSound, CheckSound, Idle, Checking
  <1>7. \A k \in Key : Failures(k)' <= Failures(k)
    BY <1>1, FailuresNat DEF AuthTypeOK, Failures
  <1>8. \A k \in Key : Deciders(k)' \subseteq Deciders(k)
    BY <1>1 DEF Deciders, Idle, Deciding
  <1>9. FailureRoom'
    BY <1>2, <1>7, <1>8, RoomKept DEF AuthTypeOK
  <1> QED
    BY <1>2, <1>3, <1>4, <1>5, <1>6, <1>9 DEF Sound

-----------------------------------------------------------------------------
(* The theorems *)

\* The invariant holds when the server starts.
LEMMA AuthInitial ==
    ASSUME AuthInit
    PROVE  AuthInv
  <1> USE DEF AuthInit, SessionInit, LimiterInit
  <1>1. AuthTypeOK
    BY TTLAssumption DEF AuthTypeOK, SessionTypeOK, LimiterTypeOK, Request
  <1>2. Sound
    BY DEF Sound, StoreSound, LiveStored, Live, Known, StoringSound, DoomedExpired,
       ChecksSound, CheckSound, Idle, Storing, Checking
  <1>3. \A k \in Key : Failures(k) = 0 /\ Deciders(k) = {}
    BY DEF Failures, Deciders, Idle, Deciding
  <1>4. FailureRoom
    BY <1>3, DecidersCount, FS_EmptySet, LimitAssumption DEF FailureRoom
  <1> QED
    BY <1>1, <1>2, <1>4 DEF AuthInv

\* Every step of the server keeps it.
LEMMA AuthStep ==
    ASSUME AuthInv, [AuthNext]_authVars
    PROVE  AuthInv'
  <1>1. CASE UNCHANGED authVars
    BY <1>1 DEF authVars, sessionVars, AuthInv, AuthTypeOK, SessionTypeOK, LimiterTypeOK, Sound,
       StoreSound, LiveStored, Live, Known, StoringSound, DoomedExpired, ChecksSound, CheckSound,
       Dead, Expired, FailureRoom, Failures, Deciders
  <1> QED
    BY <1>1, LoginStep, LogoutStep, ValidateStep, EvictStep, TickStep, RestartStep DEF AuthNext

(***************************************************************************)
(* The sessions are sound and there is room for every failure, always.      *)
(***************************************************************************)
THEOREM AuthInvariance == AuthSpec => []AuthInv
  BY AuthInitial, AuthStep, PTL DEF AuthSpec

(***************************************************************************)
(* Whatever requests, sweeps and restarts run, a request is admitted only   *)
(* with a session that was live when it came, and refused only without one. *)
(***************************************************************************)
THEOREM EveryAnswerRight == AuthSpec => []AnswersRight
  <1>1. AuthInv => AnswersRight
    BY DEF AuthInv, Sound, ChecksSound, CheckSound, Dead, Live, AnswersRight
  <1> QED
    BY <1>1, AuthInvariance, PTL

(***************************************************************************)
(* With any number of logins at once, the failures counted in one window    *)
(* exceed what Allowed tests for by less than that number.                  *)
(***************************************************************************)
THEOREM FailuresStayBounded == AuthSpec => []FailuresBounded
  <1>1. ASSUME AuthInv PROVE FailuresBounded
    <2> SUFFICES ASSUME NEW k \in DOMAIN entries
                 PROVE  entries[k].count <= Limit - 1 + Cardinality(Worker)
      BY DEF FailuresBounded
    <2>1. k \in Key /\ entries[k].count \in Nat
      BY <1>1 DEF AuthInv, AuthTypeOK, LimiterTypeOK, Entry
    <2>2. entries[k].count + Cardinality(Deciders(k)) <= Limit - 1 + Cardinality(Worker)
      BY <1>1, <2>1 DEF AuthInv, FailureRoom, Failures
    <2> QED
      BY <2>1, <2>2, DecidersCount, LimitAssumption
  <1> QED
    BY <1>1, AuthInvariance, PTL

\* The values of the variables are those the code can give them.
THEOREM AuthTyped == AuthSpec => []AuthTypeOK
  BY AuthInvariance, PTL DEF AuthInv

=============================================================================

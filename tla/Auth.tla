-------------------------------- MODULE Auth --------------------------------
(***************************************************************************)
(* internal/api/auth.go and internal/auth/middleware.go: Login, Logout and  *)
(* the check every other request passes, on top of the session store and    *)
(* the limiter.  A worker is the goroutine of one request; once it has      *)
(* answered it stands for the next request.                                 *)
(*                                                                          *)
(* req[w] is how far w's request is:                                        *)
(*   deciding   a login past Allowed, before the password is compared       *)
(*   issuing    a login past Reset, before the token is drawn               *)
(*   storing    a login about to store its session                          *)
(*   judging    a request whose session was found, before its age is looked *)
(*              at                                                          *)
(*   dropping   a request about to remove its expired session               *)
(*   admitted, refused   a request on its way to its handler, or to a 401   *)
(* live is history: whether the session was live when the request arrived.  *)
(***************************************************************************)
EXTENDS Sessions, RateLimiter

CONSTANT Worker   \* bound of the model: as many requests at once

ASSUME WorkersAssumption == IsFiniteSet(Worker)

VARIABLES
    req,    \* the request of each worker
    over    \* history: the tokens logged out, or lost in a restart

authVars == <<sessionVars, entries, req, over>>

Idle == [stage |-> "idle"]
Issuing == [stage |-> "issuing"]
Deciding(k) == [stage |-> "deciding", key |-> k]
Storing(t) == [stage |-> "storing", token |-> t]
Checking(s, t, l) == [stage |-> s, token |-> t, live |-> l]

CheckStage == {"judging", "dropping", "admitted", "refused"}

Request ==
    {Idle, Issuing}
    \cup {Deciding(k) : k \in Key}
    \cup {Storing(t) : t \in Token}
    \cup {Checking(s, t, l) : s \in CheckStage, t \in Token, l \in BOOLEAN}

AuthTypeOK ==
    /\ SessionTypeOK
    /\ LimiterTypeOK
    /\ req \in [Worker -> Request]
    /\ over \subseteq issued

AuthInit ==
    /\ SessionInit
    /\ LimiterInit
    /\ req = [w \in Worker |-> Idle]
    /\ over = {}

Goes(w, r) == req' = [req EXCEPT ![w] = r]

\* A client learns a token when the login that stored it answers.
Known(t) == t \in issued /\ \A w \in Worker : req[w] # Storing(t)

Live(t) == Known(t) /\ t \notin over /\ ~Expired(t)

-----------------------------------------------------------------------------
(* Login *)

LoginArrives(w, k) ==
    /\ req[w] = Idle
    /\ Allowed(k)
    /\ IF MayTry(k) THEN Goes(w, Deciding(k)) ELSE UNCHANGED req
    /\ UNCHANGED <<sessionVars, over>>

\* A body that does not decode is answered before the password is looked at.
LoginMalformed(w, k) ==
    /\ req[w] = Deciding(k)
    /\ Goes(w, Idle)
    /\ UNCHANGED <<sessionVars, entries, over>>

LoginFails(w, k) ==
    /\ req[w] = Deciding(k)
    /\ Fail(k)
    /\ Goes(w, Idle)
    /\ UNCHANGED <<sessionVars, over>>

LoginVerified(w, k) ==
    /\ req[w] = Deciding(k)
    /\ Reset(k)
    /\ Goes(w, Issuing)
    /\ UNCHANGED <<sessionVars, over>>

LoginDraws(w, t) ==
    /\ req[w] = Issuing
    /\ Draw(t)
    /\ Goes(w, Storing(t))
    /\ UNCHANGED <<entries, over>>

\* The random generator fails.
LoginDrawFails(w) ==
    /\ req[w] = Issuing
    /\ Goes(w, Idle)
    /\ UNCHANGED <<sessionVars, entries, over>>

LoginStores(w, t) ==
    /\ req[w] = Storing(t)
    /\ StoreSession(t)
    /\ Goes(w, Idle)
    /\ UNCHANGED <<entries, over>>

Login(w) ==
    \/ \E k \in Key : \/ LoginArrives(w, k)
                      \/ LoginMalformed(w, k)
                      \/ LoginFails(w, k)
                      \/ LoginVerified(w, k)
    \/ \E t \in Token : LoginDraws(w, t) \/ LoginStores(w, t)
    \/ LoginDrawFails(w)

-----------------------------------------------------------------------------
(* Logout *)

Logout(w, t) ==
    /\ req[w] = Idle
    /\ Known(t)
    /\ DeleteSession(t)
    /\ over' = over \cup {t}
    /\ UNCHANGED <<entries, req>>

-----------------------------------------------------------------------------
(* Validate, for the middleware and for Status *)

ValidateLooks(w, t) ==
    /\ req[w] = Idle
    /\ Known(t)
    /\ Goes(w, Checking(IF t \in store THEN "judging" ELSE "refused", t, Live(t)))
    /\ UNCHANGED <<sessionVars, entries, over>>

ValidateJudges(w, t, l) ==
    /\ req[w] = Checking("judging", t, l)
    /\ Goes(w, Checking(IF Expired(t) THEN "dropping" ELSE "admitted", t, l))
    /\ UNCHANGED <<sessionVars, entries, over>>

ValidateDrops(w, t, l) ==
    /\ req[w] = Checking("dropping", t, l)
    /\ DeleteSession(t)
    /\ Goes(w, Checking("refused", t, l))
    /\ UNCHANGED <<entries, over>>

Answer(w, t, l) ==
    /\ req[w] \in {Checking("admitted", t, l), Checking("refused", t, l)}
    /\ Goes(w, Idle)
    /\ UNCHANGED <<sessionVars, entries, over>>

Validate(w) ==
    \E t \in Token :
      \/ ValidateLooks(w, t)
      \/ \E l \in BOOLEAN : \/ ValidateJudges(w, t, l)
                            \/ ValidateDrops(w, t, l)
                            \/ Answer(w, t, l)

-----------------------------------------------------------------------------

EvictExpired ==
    /\ EvictLooks \/ EvictSweeps
    /\ UNCHANGED <<entries, req, over>>

Tick ==
    /\ SessionsAge
    /\ WindowsAge
    /\ UNCHANGED <<req, over>>

\* The process stops and starts again: everything in memory is gone.
Restart ==
    /\ SessionsLost
    /\ entries' = [k \in {} |-> {}]
    /\ req' = [w \in Worker |-> Idle]
    /\ over' = issued

AuthNext ==
    \/ \E w \in Worker : Login(w) \/ (\E t \in Token : Logout(w, t)) \/ Validate(w)
    \/ EvictExpired
    \/ Tick
    \/ Restart

\* The ticker fires again and again, and time passes.
AuthFairness == WF_authVars(EvictExpired) /\ WF_authVars(Tick)

AuthSpec == AuthInit /\ [][AuthNext]_authVars /\ AuthFairness

-----------------------------------------------------------------------------

(***************************************************************************)
(* A request that is admitted had a live session when it arrived, and one   *)
(* that is refused has none: neither the sweep with its old reading of the  *)
(* clock, nor another request dropping a session, nor a login that is still *)
(* storing one, takes a live session away or brings a dead one back.        *)
(***************************************************************************)
AnswersRight ==
    \A w \in Worker, t \in Token, l \in BOOLEAN :
      /\ req[w] = Checking("admitted", t, l) => l
      /\ req[w] = Checking("refused", t, l) => ~Live(t)

(***************************************************************************)
(* NewRateLimiter "allows at most limit failures per key within window".    *)
(* Allowed and Fail take the lock one after the other, with the reading of  *)
(* the body and the comparison of the password between them: logins that    *)
(* pass Allowed together all go on to fail.                                 *)
(***************************************************************************)
FailuresLimited == \A k \in DOMAIN entries : ~Elapsed(k) => entries[k].count <= Limit

(***************************************************************************)
(* How far that goes: a window's failures exceed those Allowed tests for by *)
(* no more than the requests that can run at once.                          *)
(***************************************************************************)
FailuresBounded ==
    \A k \in DOMAIN entries : entries[k].count <= Limit - 1 + Cardinality(Worker)

(***************************************************************************)
(* An expired session leaves memory, whether or not anyone asks for it, and *)
(* even when it is stored after the sweep that should have found it.        *)
(***************************************************************************)
ExpiredLeave == \A t \in Token : (t \in store /\ Expired(t)) ~> (t \notin store)

(***************************************************************************)
(* A key that is turned away may try again in the end, even if it keeps     *)
(* trying while it is turned away.                                          *)
(***************************************************************************)
LockoutEnds == \A k \in Key : ~MayTry(k) ~> MayTry(k)

=============================================================================

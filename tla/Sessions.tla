------------------------------ MODULE Sessions ------------------------------
(***************************************************************************)
(* internal/auth/session.go: the sessions in memory, and the loop that      *)
(* evicts the expired ones.  A method holds the lock only while it touches  *)
(* the map, so reading a session, judging its age and removing it are       *)
(* separate steps, and so are the eviction's look at the clock and its      *)
(* sweep.                                                                   *)
(*                                                                          *)
(* Time.  The code compares the clock with Expires and does nothing else    *)
(* with either; the model keeps the age of each session instead, counted in *)
(* ticks and no further than the first tick past its life.                  *)
(***************************************************************************)
EXTENDS Naturals, FiniteSets

CONSTANTS
    Token,   \* what randomToken may return, each at most once
    TTL      \* the life of a session, in ticks

ASSUME TTLAssumption == TTL \in Nat

VARIABLES
    store,    \* the tokens in the map
    issued,   \* the tokens Create has drawn
    age,      \* ticks since Create read the clock for the token
    gc,       \* "waiting" for its ticker, or "sweeping"
    doomed    \* the tokens that had expired when the sweep read the clock

sessionVars == <<store, issued, age, gc, doomed>>

SessionTypeOK ==
    /\ issued \subseteq Token
    /\ store \subseteq issued
    /\ age \in [Token -> 0 .. TTL + 1]
    /\ gc \in {"waiting", "sweeping"}
    /\ doomed \subseteq issued

SessionInit ==
    /\ store = {}
    /\ issued = {}
    /\ age = [t \in Token |-> 0]
    /\ gc = "waiting"
    /\ doomed = {}

\* now.After(sess.Expires)
Expired(t) == age[t] > TTL

-----------------------------------------------------------------------------
(* Create, in two steps: the session is given its expiry, then stored. *)

Draw(t) ==
    /\ t \notin issued
    /\ issued' = issued \cup {t}
    /\ UNCHANGED <<store, age, gc, doomed>>

StoreSession(t) ==
    /\ store' = store \cup {t}
    /\ UNCHANGED <<issued, age, gc, doomed>>

DeleteSession(t) ==
    /\ store' = store \ {t}
    /\ UNCHANGED <<issued, age, gc, doomed>>

-----------------------------------------------------------------------------
(* evictExpired, once per tick of StartGC's ticker. *)

\* Mutant: a session in its last tick is taken for expired.
EvictLooksEarly ==
    /\ gc = "waiting"
    /\ gc' = "sweeping"
    /\ doomed' = {t \in issued : age[t] >= TTL}
    /\ UNCHANGED <<store, issued, age>>

EvictLooks ==
    /\ gc = "waiting"
    /\ gc' = "sweeping"
    /\ doomed' = {t \in issued : Expired(t)}
    /\ UNCHANGED <<store, issued, age>>

\* Mutant: the loop returns after its first sweep.
EvictSweepsOnce ==
    /\ gc = "sweeping"
    /\ gc' = "stopped"
    /\ store' = store \ doomed
    /\ doomed' = {}
    /\ UNCHANGED <<issued, age>>

EvictSweeps ==
    /\ gc = "sweeping"
    /\ gc' = "waiting"
    /\ store' = store \ doomed
    /\ doomed' = {}
    /\ UNCHANGED <<issued, age>>

-----------------------------------------------------------------------------

SessionsAge ==
    /\ age' = [t \in Token |-> IF t \in issued /\ ~Expired(t) THEN age[t] + 1 ELSE age[t]]
    /\ UNCHANGED <<store, issued, gc, doomed>>

\* A new run makes an empty map; a sweep of the old one is over.
SessionsLost ==
    /\ store' = {}
    /\ gc' = "waiting"
    /\ doomed' = {}
    /\ UNCHANGED <<issued, age>>

=============================================================================

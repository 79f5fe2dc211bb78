---------------------------- MODULE RateLimiter -----------------------------
(***************************************************************************)
(* internal/auth/ratelimit.go: a counter of failures per client address,    *)
(* that starts afresh once its window has elapsed.  Every method runs under *)
(* the mutex.  A window's age is counted as a session's is.                 *)
(***************************************************************************)
EXTENDS Naturals

CONSTANTS
    Key,      \* client addresses
    Limit,    \* failures after which a key is turned away
    Window    \* the length of a window, in ticks

ASSUME LimitAssumption == Limit \in Nat \ {0} /\ Window \in Nat

VARIABLE entries   \* key -> its failures and the age of their window

Entry == [count : Nat, age : 0 .. Window + 1]

LimiterTypeOK ==
    /\ DOMAIN entries \subseteq Key
    /\ \A k \in DOMAIN entries : entries[k] \in Entry

LimiterInit == entries = [k \in {} |-> {}]

NewWindow == [count |-> 0, age |-> 0]

\* Mutant: a window lasts a tick too long.
ElapsedLate(k) == entries[k].age > Window + 1

Elapsed(k) == entries[k].age > Window

\* Mutant: looking at the counter restarts its window.
CurrentSlides(k) ==
    IF k \in DOMAIN entries /\ ~Elapsed(k) THEN [entries[k] EXCEPT !.age = 0] ELSE NewWindow

Current(k) == IF k \in DOMAIN entries /\ ~Elapsed(k) THEN entries[k] ELSE NewWindow

SetEntry(k, e) == entries' = [x \in DOMAIN entries \cup {k} |-> IF x = k THEN e ELSE entries[x]]

\* Mutant: one failure too many.
MayTryMore(k) == Current(k).count <= Limit

\* What Allowed answers; the entry it looks at, it also stores.
MayTry(k) == Current(k).count < Limit
Allowed(k) == SetEntry(k, Current(k))

Fail(k) == SetEntry(k, [Current(k) EXCEPT !.count = @ + 1])

Reset(k) == entries' = [x \in DOMAIN entries \ {k} |-> entries[x]]

WindowsAge ==
    entries' = [k \in DOMAIN entries |->
                  IF Elapsed(k) THEN entries[k] ELSE [entries[k] EXCEPT !.age = @ + 1]]

=============================================================================

----------------------------- MODULE WebSession -----------------------------
(***************************************************************************)
(* web/src/hooks/useAuth.ts with Login.tsx and client.ts: the page's idea   *)
(* of being signed in, beside the cookie of the browser and the sessions of *)
(* the server.  A setState takes effect with the next render, and what      *)
(* comes before it is rendered as one: `auth` is the state as last set,     *)
(* `shown` the state on the screen.                                         *)
(*                                                                          *)
(* A reload drops the calls under way: the server may still serve them, but *)
(* the browser no longer takes their cookie.                                *)
(***************************************************************************)
EXTENDS Naturals, FiniteSets

CONSTANTS
    Session,    \* tokens; one that nobody holds any more may be drawn again
    NoSession,  \* no cookie
    Call        \* bound of the model: as many calls under way

ASSUME WebSessionAssumption == NoSession \notin Session

VARIABLES
    auth,       \* useAuth's state
    shown,      \* the state on the screen
    busy,       \* the login form waits for its answer
    jar,        \* the cookie
    live,       \* the server's sessions
    calls,      \* the calls under way
    signedOut,  \* history: a sign-out has been answered, and no login asked for since
    overtaken,  \* history: a login's answer was undone before it was rendered
    unsure      \* history: the server has dropped a session, or the page does not
                \* know what became of a call, since it last loaded or signed in

webVars == <<auth, shown, busy, jar, live, calls, signedOut, overtaken, unsure>>

AuthState == {"loading", "authed", "anon"}
Cookie == Session \cup {NoSession}
Kind == {"status", "login", "logout", "ask"}

NoCall == [kind |-> "none"]

\* token is the cookie that a call carries and, once it is served, the cookie
\* that its answer sets.  later is history: a login was asked for after it.
CallRecord ==
    [kind : Kind, stage : {"sent", "served"}, token : Cookie,
     ok : BOOLEAN, dropped : BOOLEAN, later : BOOLEAN]

\* Only the login form waits, and only while it is on the screen.
WebTypeOK ==
    /\ auth \in AuthState
    /\ shown \in AuthState
    /\ busy \in BOOLEAN
    /\ jar \in Cookie
    /\ live \subseteq Session
    /\ calls \in [Call -> CallRecord \cup {NoCall}]
    /\ signedOut \in BOOLEAN
    /\ overtaken \in BOOLEAN
    /\ unsure \in BOOLEAN
    /\ busy => shown = "anon"

Pending(c) == calls[c] # NoCall
OfKind(c, k) == Pending(c) /\ calls[c].kind = k
AtRest == \A c \in Call : ~Pending(c)

Sending(k) ==
    [kind |-> k, stage |-> "sent", token |-> jar,
     ok |-> FALSE, dropped |-> FALSE, later |-> FALSE]

Calls(c, k) == ~Pending(c) /\ calls' = [calls EXCEPT ![c] = Sending(k)]

WebInit ==
    \E c \in Call :
      /\ auth = "loading" /\ shown = "loading"
      /\ busy = FALSE
      /\ jar \in Cookie
      /\ live \in SUBSET Session
      /\ calls = [x \in Call |-> IF x = c THEN Sending("status") ELSE NoCall]
      /\ signedOut = FALSE
      /\ overtaken = FALSE
      /\ unsure = FALSE

-----------------------------------------------------------------------------
(* The user *)

AsksLogin(c) ==
    /\ shown = "anon"
    /\ ~Pending(c)
    /\ calls' = [x \in Call |-> IF x = c THEN Sending("login")
                                ELSE IF OfKind(x, "logout") THEN [calls[x] EXCEPT !.later = TRUE]
                                ELSE calls[x]]
    /\ busy' = TRUE
    /\ signedOut' = FALSE
    /\ UNCHANGED <<auth, shown, jar, live, overtaken, unsure>>

\* Mutant: the form may be sent again while it waits.
SignInTwice(c) == AsksLogin(c)

SignIn(c) == ~busy /\ AsksLogin(c)

SignOut(c) ==
    /\ shown = "authed"
    /\ Calls(c, "logout")
    /\ UNCHANGED <<auth, shown, busy, jar, live, signedOut, overtaken, unsure>>

\* Any other call of the page.
Ask(c) ==
    /\ shown = "authed"
    /\ Calls(c, "ask")
    /\ UNCHANGED <<auth, shown, busy, jar, live, signedOut, overtaken, unsure>>

Reload(c) ==
    /\ ~Pending(c)
    /\ calls' = [x \in Call |-> IF x = c THEN Sending("status")
                                ELSE IF Pending(x) THEN [calls[x] EXCEPT !.dropped = TRUE]
                                ELSE NoCall]
    /\ auth' = "loading"
    /\ shown' = "loading"
    /\ busy' = FALSE
    /\ overtaken' = FALSE
    /\ unsure' = \E x \in Call : OfKind(x, "logout")
    /\ UNCHANGED <<jar, live, signedOut>>

-----------------------------------------------------------------------------
(* Renders *)

\* Mutant: the effect does not run when the state becomes authed.
RenderQuietly ==
    /\ auth # shown
    /\ shown' = auth
    /\ busy' = FALSE
    /\ UNCHANGED <<auth, jar, live, calls, signedOut, overtaken, unsure>>

\* Mutant: the form's state outlives the form.
RenderBusy ==
    /\ auth # shown
    /\ shown' = auth
    /\ IF auth = "authed" THEN \E c \in Call : Calls(c, "ask") ELSE UNCHANGED calls
    /\ UNCHANGED <<auth, busy, jar, live, signedOut, overtaken, unsure>>

\* App shows another of its three pages: the login form is gone, or new, and on
\* becoming authed the effect asks for the tree and the stats.
RenderAuth ==
    /\ auth # shown
    /\ shown' = auth
    /\ busy' = FALSE
    /\ IF auth = "authed" THEN \E c \in Call : Calls(c, "ask") ELSE UNCHANGED calls
    /\ UNCHANGED <<auth, jar, live, signedOut, overtaken, unsure>>

-----------------------------------------------------------------------------
(* The server *)

Serves(c, token, ok) ==
    calls' = [calls EXCEPT ![c] = [@ EXCEPT !.stage = "served", !.token = token, !.ok = ok]]

InUse == live \cup {jar} \cup {calls[c].token : c \in {d \in Call : Pending(d)}}

ServeCall(c) ==
    /\ Pending(c)
    /\ calls[c].stage = "sent"
    /\ LET token == calls[c].token IN
       \/ /\ calls[c].kind \in {"status", "ask"}
          /\ Serves(c, token, token \in live)
          /\ UNCHANGED live
       \/ /\ calls[c].kind = "login"
          /\ \/ Serves(c, token, FALSE) /\ UNCHANGED live
             \/ \E s \in Session \ InUse : Serves(c, s, TRUE) /\ live' = live \cup {s}
       \/ /\ calls[c].kind = "logout"
          /\ Serves(c, NoSession, TRUE)
          /\ live' = live \ {token}
    /\ UNCHANGED <<auth, shown, busy, jar, signedOut, overtaken, unsure>>

\* Sessions expire, or are lost in a restart.
DropSessions ==
    /\ live # {}
    /\ live' \in SUBSET live
    /\ live' # live
    /\ unsure' = TRUE
    /\ UNCHANGED <<auth, shown, busy, jar, calls, signedOut, overtaken>>

-----------------------------------------------------------------------------
(* Answers *)

Clears(c) == calls' = [calls EXCEPT ![c] = NoCall]

SetsCookie(c) == calls[c].kind \in {"login", "logout"} /\ calls[c].ok

TakesCookie(c) == jar' = IF SetsCookie(c) THEN calls[c].token ELSE jar

Sets(s) ==
    /\ auth' = s
    /\ overtaken' = (overtaken \/ (shown = "anon" /\ auth = "authed" /\ s = "anon"))

Answered(c) == Pending(c) /\ calls[c].stage = "served" /\ ~calls[c].dropped

StatusAnswered(c) ==
    /\ Answered(c)
    /\ calls[c].kind = "status"
    /\ Sets(IF calls[c].ok THEN "authed" ELSE "anon")
    /\ Clears(c)
    /\ UNCHANGED <<shown, busy, jar, live, signedOut, unsure>>

\* A 401 is the server's answer to any call but these three.
AskAnswered(c) ==
    /\ Answered(c)
    /\ calls[c].kind = "ask"
    /\ IF calls[c].ok THEN UNCHANGED <<auth, overtaken>> ELSE Sets("anon")
    /\ Clears(c)
    /\ UNCHANGED <<shown, busy, jar, live, signedOut, unsure>>

LoginAnswered(c) ==
    /\ Answered(c)
    /\ calls[c].kind = "login"
    /\ calls[c].ok
    /\ TakesCookie(c)
    /\ Sets("authed")
    /\ unsure' = FALSE
    /\ Clears(c)
    /\ UNCHANGED <<shown, busy, live, signedOut>>

\* Mutant: only an error of the network makes the form usable again.
LoginRefusedStuck(c) ==
    /\ Answered(c)
    /\ calls[c].kind = "login"
    /\ ~calls[c].ok
    /\ Clears(c)
    /\ UNCHANGED <<auth, shown, busy, jar, live, signedOut, overtaken, unsure>>

LoginRefused(c) ==
    /\ Answered(c)
    /\ calls[c].kind = "login"
    /\ ~calls[c].ok
    /\ busy' = FALSE
    /\ Clears(c)
    /\ UNCHANGED <<auth, shown, jar, live, signedOut, overtaken, unsure>>

LogoutAnswered(c) ==
    /\ Answered(c)
    /\ calls[c].kind = "logout"
    /\ TakesCookie(c)
    /\ Sets("anon")
    /\ signedOut' = ~calls[c].later
    /\ Clears(c)
    /\ UNCHANGED <<shown, busy, live, unsure>>

\* The connection fails, before the call is served or after, and the browser
\* may have seen the cookie by then.
Loses(c) ==
    /\ Pending(c)
    /\ ~calls[c].dropped
    /\ \/ UNCHANGED jar
       \/ calls[c].stage = "served" /\ TakesCookie(c)
    /\ Clears(c)
    /\ UNCHANGED <<shown, live, signedOut>>

\* Mutant: a sign-out that fails is not one for the page either.
LogoutLostIgnored(c) ==
    /\ Loses(c)
    /\ calls[c].kind = "logout"
    /\ UNCHANGED <<auth, busy, overtaken, unsure>>

LogoutLost(c) ==
    /\ Loses(c)
    /\ calls[c].kind = "logout"
    /\ Sets("anon")
    /\ UNCHANGED <<busy, unsure>>

StatusLost(c) ==
    /\ Loses(c)
    /\ calls[c].kind = "status"
    /\ Sets("anon")
    /\ UNCHANGED <<busy, unsure>>

LoginLost(c) ==
    /\ Loses(c)
    /\ calls[c].kind = "login"
    /\ busy' = FALSE
    /\ UNCHANGED <<auth, overtaken, unsure>>

AskLost(c) ==
    /\ Loses(c)
    /\ calls[c].kind = "ask"
    /\ unsure' = TRUE
    /\ UNCHANGED <<auth, busy, overtaken>>

\* Nobody waits for it any more.
DroppedEnds(c) ==
    /\ Pending(c)
    /\ calls[c].dropped
    /\ Clears(c)
    /\ UNCHANGED <<auth, shown, busy, jar, live, signedOut, overtaken, unsure>>

CallEnds(c) ==
    \/ StatusAnswered(c) \/ AskAnswered(c) \/ LoginAnswered(c) \/ LoginRefused(c) \/ LogoutAnswered(c)
    \/ StatusLost(c) \/ AskLost(c) \/ LoginLost(c) \/ LogoutLost(c)
    \/ DroppedEnds(c)

WebNext ==
    \/ RenderAuth \/ DropSessions
    \/ \E c \in Call : SignIn(c) \/ SignOut(c) \/ Ask(c) \/ Reload(c) \/ ServeCall(c) \/ CallEnds(c)

\* A fetch ends, with an error if with nothing else, and what is due is rendered.
WebFairness == WF_webVars(RenderAuth) /\ \A c \in Call : WF_webVars(ServeCall(c) \/ CallEnds(c))

WebSpec == WebInit /\ [][WebNext]_webVars /\ WebFairness

-----------------------------------------------------------------------------

(***************************************************************************)
(* A sign-out that was answered lasts, over reloads and over answers that   *)
(* were under way, until a login is asked for.  (One that was not answered  *)
(* does not: the page shows the login form, and after a reload the notes.)  *)
(***************************************************************************)
SignedOutStays == signedOut => auth # "authed"

(***************************************************************************)
(* A page that is signed in and has no call under way holds a session of    *)
(* the server, unless the server dropped it or a call was lost since: each  *)
(* way of becoming signed in asks the server again, each way of losing the  *)
(* session leads out.                                                       *)
(***************************************************************************)
AuthedHolds == auth = "authed" /\ shown = auth /\ AtRest /\ ~unsure => jar \in live

(***************************************************************************)
(* The page leaves its loading screen, and the login form becomes usable    *)
(* again or makes way, however the call ends.  The exception is real: an    *)
(* answer to an earlier session's call (a 401, a second sign-out) that      *)
(* comes between a login's answer and its render leaves the form disabled.  *)
(***************************************************************************)
Waiting == (shown = "loading" \/ busy) /\ ~overtaken

StopsReloading == <>[][\A c \in Call : ~Reload(c)]_webVars

WaitingEnds == StopsReloading => []<>~Waiting

=============================================================================

-------------------------- MODULE WebSessionProofs --------------------------
(***************************************************************************)
(* WebSession for any number of sessions and calls.                         *)
(***************************************************************************)
EXTENDS WebSession, TLAPS

(***************************************************************************)
(* The inductive invariant.  A call matters while the page has not been     *)
(* loaded again since.                                                      *)
(***************************************************************************)

Matters(c) == Pending(c) /\ ~calls[c].dropped
LoginMatters(c) == Matters(c) /\ calls[c].kind = "login"
LogoutMatters(c) == Matters(c) /\ calls[c].kind = "logout"
StatusMatters(c) == Matters(c) /\ calls[c].kind = "status"

\* Only a load starts with "loading", and only a login's answer leads from the
\* form to the notes.
ShownFollows ==
    /\ auth = "loading" => shown = "loading"
    /\ auth = "authed" /\ shown = "anon" => busy /\ \A c \in Call : ~LoginMatters(c)

\* The page asks for one login at a time, from the form, which waits for it.
OneLogin ==
    \A c \in Call : LoginMatters(c) =>
      /\ busy
      /\ auth = "anon"
      /\ \A d \in Call : LoginMatters(d) => d = c

\* While the page loads it has no other call.
StatusAlone ==
    \A c \in Call : StatusMatters(c) =>
      /\ auth = "loading"
      /\ \A d \in Call : Matters(d) => d = c

\* A sign-out that is served clears the cookie, and a login asked for before it
\* is over.
LogoutLast ==
    \A c \in Call :
      /\ OfKind(c, "logout") /\ calls[c].stage = "served" => calls[c].ok /\ calls[c].token = NoSession
      /\ LogoutMatters(c) /\ ~calls[c].later => \A d \in Call : ~LoginMatters(d)

\* After a sign-out nothing under way can sign the page in.
NothingLeft ==
    signedOut =>
      /\ auth # "authed"
      /\ jar = NoSession
      /\ \A c \in Call : ~LoginMatters(c)
      /\ \A c \in Call : StatusMatters(c) => calls[c].token = NoSession /\ ~calls[c].ok

WebInv == WebTypeOK /\ ShownFollows /\ OneLogin /\ StatusAlone /\ LogoutLast /\ NothingLeft

(***************************************************************************)
(* A second one, that rests on the first: how the page hears of a session   *)
(* that is gone.                                                            *)
(***************************************************************************)

\* A call whose answer will be, or is, a 401.
AskTells(c) ==
    /\ Matters(c) /\ calls[c].kind = "ask"
    /\ \/ calls[c].stage = "sent" /\ calls[c].token = jar
       \/ calls[c].stage = "served" /\ ~calls[c].ok

\* What the page shows is so, or is about to be put right.
SessionKnown ==
    auth = "authed" /\ shown = "authed" /\ ~unsure =>
      jar \in live \/ \E c \in Call : LogoutMatters(c) \/ AskTells(c)

\* A sign-out of before a reload is not about the session of now.
OldSignOuts ==
    ~unsure =>
      \A c \in Call :
        OfKind(c, "logout") /\ calls[c].dropped /\ calls[c].stage = "sent" =>
          calls[c].token # jar \/ jar = NoSession

\* Nobody has the token of a login yet.
LoginFresh ==
    \A c \in Call :
      LoginMatters(c) /\ calls[c].stage = "served" /\ calls[c].ok =>
        /\ calls[c].token \in Session
        /\ calls[c].token # jar
        /\ \A d \in Call \ {c} : Pending(d) => calls[d].token # calls[c].token

HoldsInv == SessionKnown /\ OldSignOuts /\ LoginFresh

-----------------------------------------------------------------------------

LEMMA WebInitHolds == WebInit => WebInv
  <1> SUFFICES ASSUME NEW c \in Call,
                      /\ auth = "loading" /\ shown = "loading"
                      /\ busy = FALSE
                      /\ jar \in Cookie
                      /\ live \in SUBSET Session
                      /\ calls = [x \in Call |-> IF x = c THEN Sending("status") ELSE NoCall]
                      /\ signedOut = FALSE
                      /\ overtaken = FALSE
                      /\ unsure = FALSE
               PROVE  WebInv
    BY DEF WebInit
  <1>1. Sending("status") \in CallRecord
    BY DEF Sending, CallRecord, Kind
  <1>2. \A x \in Call : Matters(x) => x = c /\ calls[x].kind = "status" /\ calls[x].stage = "sent"
    BY DEF Matters, Pending, Sending
  <1>3. WebTypeOK
    BY <1>1 DEF WebTypeOK, AuthState
  <1>4. ShownFollows /\ OneLogin /\ StatusAlone /\ NothingLeft
    BY <1>2 DEF ShownFollows, OneLogin, StatusAlone, NothingLeft, LoginMatters, StatusMatters
  <1>5. LogoutLast
    BY <1>2 DEF LogoutLast, OfKind, Pending, Sending, LogoutMatters
  <1> QED
    BY <1>3, <1>4, <1>5 DEF WebInv

-----------------------------------------------------------------------------
(* The end of a call *)

LEMMA Cleared ==
    ASSUME WebTypeOK, NEW c \in Call, Clears(c)
    PROVE  /\ calls' \in [Call -> CallRecord \cup {NoCall}]
           /\ ~Pending(c)'
           /\ \A x \in Call \ {c} : calls'[x] = calls[x]
           /\ \A x \in Call : Matters(x)' <=> x # c /\ Matters(x)
           /\ \A x \in Call : LoginMatters(x)' <=> x # c /\ LoginMatters(x)
           /\ \A x \in Call : StatusMatters(x)' <=> x # c /\ StatusMatters(x)
           /\ \A x \in Call : LogoutMatters(x)' <=> x # c /\ LogoutMatters(x)
           /\ \A x \in Call : OfKind(x, "logout")' <=> x # c /\ OfKind(x, "logout")
  BY DEF WebTypeOK, Clears, Pending, Matters, LoginMatters, StatusMatters, LogoutMatters, OfKind

\* What a call that ends may change, besides the history of the waiting form.
EndsWith(c) ==
    /\ Pending(c)
    /\ Clears(c)
    /\ UNCHANGED <<shown, live>>
    /\ overtaken' \in BOOLEAN /\ unsure' \in BOOLEAN
    /\ \/ unsure' \in {unsure, TRUE}
       \/ LoginMatters(c) /\ SetsCookie(c) /\ calls[c].stage = "served" /\ jar' = calls[c].token
    /\ LogoutMatters(c) => auth' = "anon"
    /\ AskTells(c) => unsure' = TRUE \/ auth' = "anon"
    /\ Matters(c) \/ UNCHANGED <<auth, busy, jar, signedOut>>
    /\ \/ auth' \in {auth, "anon"}
       \/ auth' = "authed" /\ (LoginMatters(c) \/ (StatusMatters(c) /\ calls[c].ok))
    /\ busy' = busy \/ (busy' = FALSE /\ LoginMatters(c) /\ auth' = auth)
    /\ \/ jar' = jar
       \/ SetsCookie(c) /\ calls[c].stage = "served" /\ jar' = calls[c].token
    /\ \/ signedOut' = signedOut
       \/ /\ LogoutMatters(c)
          /\ signedOut' = ~calls[c].later
          /\ auth' = "anon"
          /\ jar' = NoSession

LEMMA CallEndsWith ==
    ASSUME WebInv, NEW c \in Call, CallEnds(c) PROVE EndsWith(c)
  <1> USE DEF EndsWith, Answered, Matters, LoginMatters, StatusMatters, LogoutMatters, AskTells
  <1>1. overtaken \in BOOLEAN /\ unsure \in BOOLEAN
    BY DEF WebInv, WebTypeOK
  <1>2. CASE StatusAnswered(c)
    BY <1>1, <1>2 DEF StatusAnswered, Sets
  <1>3. CASE AskAnswered(c)
    BY <1>1, <1>3 DEF AskAnswered, Sets
  <1>4. CASE LoginAnswered(c)
    BY <1>1, <1>4 DEF LoginAnswered, TakesCookie, SetsCookie, Sets
  <1>5. CASE LoginRefused(c)
    BY <1>1, <1>5 DEF LoginRefused
  <1>6. CASE LogoutAnswered(c)
    <2>1. calls[c].ok /\ calls[c].token = NoSession
      BY <1>6 DEF LogoutAnswered, WebInv, LogoutLast, OfKind
    <2>2. jar' = NoSession
      BY <1>6, <2>1 DEF LogoutAnswered, TakesCookie, SetsCookie
    <2> QED
      BY <1>1, <1>6, <2>1, <2>2 DEF LogoutAnswered, SetsCookie, Sets
  <1>7. CASE StatusLost(c)
    BY <1>1, <1>7 DEF StatusLost, Loses, TakesCookie, Sets
  <1>8. CASE AskLost(c)
    BY <1>1, <1>8 DEF AskLost, Loses, TakesCookie
  <1>9. CASE LoginLost(c)
    BY <1>1, <1>9 DEF LoginLost, Loses, TakesCookie
  <1>10. CASE LogoutLost(c)
    BY <1>1, <1>10 DEF LogoutLost, Loses, TakesCookie, Sets
  <1>11. CASE DroppedEnds(c)
    BY <1>1, <1>11 DEF DroppedEnds
  <1> QED
    BY <1>2, <1>3, <1>4, <1>5, <1>6, <1>7, <1>8, <1>9, <1>10, <1>11 DEF CallEnds

LEMMA CallEndsKeeps ==
    ASSUME WebInv, NEW c \in Call, CallEnds(c) PROVE WebInv'
  <1>0. WebTypeOK /\ EndsWith(c) /\ Clears(c) /\ Pending(c)
    BY CallEndsWith DEF WebInv, EndsWith
  <1>1. calls[c] \in CallRecord
    BY <1>0 DEF WebTypeOK, Pending
  <1>2. signedOut' \in BOOLEAN /\ jar' \in Cookie /\ auth' \in AuthState /\ busy' \in BOOLEAN
    BY <1>0, <1>1 DEF EndsWith, WebTypeOK, CallRecord, Cookie, AuthState
  <1>3. WebTypeOK'
    BY <1>0, <1>2, Cleared DEF EndsWith, WebTypeOK
  <1>4. ShownFollows'
    <2>1. CASE auth' \in {auth, "anon"}
      <3>1. CASE auth' = auth
        <4>1. auth = "loading" => shown' = "loading"
          BY <1>0 DEF WebInv, EndsWith, ShownFollows
        <4>2. ASSUME auth = "authed", shown' = "anon"
              PROVE  busy' /\ \A x \in Call : ~LoginMatters(x)
          <5>1. shown = "anon"
            BY <1>0, <4>2 DEF EndsWith
          <5>2. busy /\ \A x \in Call : ~LoginMatters(x)
            BY <4>2, <5>1, Zenon DEF WebInv, ShownFollows
          <5>3. busy' = busy
            BY <1>0, <5>2, Zenon DEF EndsWith
          <5> QED
            BY <5>2, <5>3, Zenon
        <4>3. \A x \in Call : LoginMatters(x)' => LoginMatters(x)
          BY <1>0, Cleared
        <4> QED
          BY <3>1, <4>1, <4>2, <4>3 DEF ShownFollows
      <3>2. CASE auth' = "anon"
        BY <3>2 DEF ShownFollows
      <3> QED
        BY <2>1, <3>1, <3>2
    <2>2. CASE auth' = "authed" /\ LoginMatters(c)
      <3>1. busy /\ auth = "anon"
        BY <2>2, Zenon DEF WebInv, OneLogin
      <3>2. busy' = busy
        BY <1>0, <2>2, <3>1 DEF EndsWith
      <3>3. \A x \in Call : ~LoginMatters(x)'
        BY <1>0, <2>2, Cleared DEF WebInv, OneLogin
      <3>4. busy'
        BY <3>1, <3>2, Zenon
      <3> QED
        BY <2>2, <3>3, <3>4 DEF ShownFollows
    <2>3. CASE auth' = "authed" /\ StatusMatters(c)
      BY <1>0, <2>3 DEF WebInv, EndsWith, ShownFollows, StatusAlone
    <2> QED
      BY <1>0, <2>1, <2>2, <2>3 DEF EndsWith
  <1>5. OneLogin'
    <2> SUFFICES ASSUME NEW x \in Call, x # c, LoginMatters(x)
                 PROVE  busy' /\ auth' = "anon" /\ \A d \in Call \ {c} : LoginMatters(d) => d = x
      BY <1>0, Cleared DEF OneLogin
    <2>1. ~LoginMatters(c)
      BY DEF WebInv, OneLogin
    <2>2. ~StatusMatters(c)
      <3>1. Matters(x)
        BY DEF LoginMatters
      <3> QED
        BY <3>1 DEF WebInv, StatusAlone
    <2> QED
      BY <1>0, <2>1, <2>2 DEF WebInv, EndsWith, OneLogin
  <1>6. StatusAlone'
    <2> SUFFICES ASSUME NEW x \in Call, x # c, StatusMatters(x)
                 PROVE  auth' = "loading" /\ \A d \in Call \ {c} : Matters(d) => d = x
      BY <1>0, Cleared DEF StatusAlone
    <2>1. ~Matters(c)
      BY DEF WebInv, StatusAlone, StatusMatters
    <2> QED
      BY <1>0, <2>1 DEF WebInv, EndsWith, StatusAlone, LoginMatters, StatusMatters
  <1>7. LogoutLast'
    BY <1>0, Cleared DEF WebInv, LogoutLast
  <1>8. NothingLeft'
    <2>1. CASE signedOut' = signedOut
      <3> SUFFICES ASSUME signedOut PROVE NothingLeft'
        BY <2>1 DEF NothingLeft
      <3>1. auth' # "authed"
        BY <1>0 DEF WebInv, EndsWith, NothingLeft
      <3>2. jar' = NoSession
        <4>1. jar = NoSession /\ ~LoginMatters(c)
          BY DEF WebInv, NothingLeft
        <4>2. ASSUME SetsCookie(c), calls[c].stage = "served", Matters(c)
              PROVE  calls[c].token = NoSession
          <5>1. calls[c].kind = "logout"
            BY <4>1, <4>2 DEF SetsCookie, LoginMatters
          <5> QED
            BY <1>0, <4>2, <5>1 DEF WebInv, LogoutLast, OfKind
        <4> QED
          BY <1>0, <4>1, <4>2 DEF EndsWith
      <3>3. \A x \in Call : StatusMatters(x)' => calls'[x] = calls[x] /\ StatusMatters(x)
        BY <1>0, Cleared
      <3>4. \A x \in Call : StatusMatters(x)' => calls'[x].token = NoSession /\ ~calls'[x].ok
        BY <3>3 DEF WebInv, NothingLeft
      <3>5. \A x \in Call : ~LoginMatters(x)'
        BY <1>0, Cleared DEF WebInv, NothingLeft
      <3> QED
        BY <3>1, <3>2, <3>4, <3>5 DEF NothingLeft
    <2>2. CASE LogoutMatters(c) /\ signedOut' = ~calls[c].later /\ auth' = "anon" /\ jar' = NoSession
      <3> SUFFICES ASSUME ~calls[c].later PROVE NothingLeft'
        BY <2>2 DEF NothingLeft
      <3>1. \A x \in Call : ~LoginMatters(x)
        BY <2>2 DEF WebInv, LogoutLast
      <3>2. \A x \in Call \ {c} : ~StatusMatters(x)
        BY <2>2 DEF WebInv, StatusAlone, LogoutMatters
      <3> QED
        BY <1>0, <2>2, <3>1, <3>2, Cleared DEF NothingLeft
    <2> QED
      BY <1>0, <2>1, <2>2 DEF EndsWith
  <1> QED
    BY <1>3, <1>4, <1>5, <1>6, <1>7, <1>8 DEF WebInv

-----------------------------------------------------------------------------
(* A new call *)

LEMMA Called ==
    ASSUME WebTypeOK, NEW c \in Call, NEW k \in Kind, Calls(c, k)
    PROVE  /\ calls' \in [Call -> CallRecord \cup {NoCall}]
           /\ ~Matters(c)
           /\ calls'[c].kind = k /\ calls'[c].stage = "sent"
           /\ calls'[c].token = jar /\ ~calls'[c].dropped /\ Pending(c)'
           /\ \A x \in Call \ {c} : calls'[x] = calls[x]
           /\ \A x \in Call \ {c} : Matters(x)' <=> Matters(x)
  <1>1. Sending(k) \in CallRecord
    BY DEF WebTypeOK, Sending, CallRecord, Cookie
  <1>2. \A x \in Call : calls'[x] = IF x = c THEN Sending(k) ELSE calls[x]
    BY DEF WebTypeOK, Calls
  <1>3. calls' \in [Call -> CallRecord \cup {NoCall}]
    BY <1>1 DEF WebTypeOK, Calls
  <1> QED
    BY <1>2, <1>3 DEF Calls, Sending, Matters, Pending, NoCall, Kind

\* A call of the notes is no danger to what the page knows.
LEMMA AskedKeeps ==
    ASSUME WebInv, NEW c \in Call, NEW k \in {"ask", "logout"}, Calls(c, k),
           \A x \in Call : ~LoginMatters(x)
    PROVE  /\ \A x \in Call : LoginMatters(x)' <=> LoginMatters(x)
           /\ \A x \in Call : StatusMatters(x)' <=> StatusMatters(x)
           /\ \A x \in Call : StatusMatters(x) => calls'[x] = calls[x]
           /\ LogoutLast'
  <1>1. WebTypeOK /\ k \in Kind
    BY DEF WebInv, Kind
  <1>2. /\ \A x \in Call : LoginMatters(x)' <=> LoginMatters(x)
        /\ \A x \in Call : StatusMatters(x)' <=> StatusMatters(x)
        /\ \A x \in Call : StatusMatters(x) => calls'[x] = calls[x]
    BY <1>1, Called DEF LoginMatters, StatusMatters
  <1>3. LogoutLast'
    BY <1>1, <1>2, Called DEF WebInv, LogoutLast, OfKind, Pending
  <1> QED
    BY <1>2, <1>3

LEMMA FromTheNotes ==
    ASSUME WebInv, NEW c \in Call, SignOut(c) \/ Ask(c) PROVE WebInv'
  <1>1. PICK k \in {"ask", "logout"} : Calls(c, k)
    BY DEF SignOut, Ask
  <1>2. shown = "authed" /\ UNCHANGED <<auth, shown, busy, jar, live, signedOut, overtaken, unsure>>
    BY DEF SignOut, Ask
  <1>3. \A x \in Call : ~LoginMatters(x) /\ ~StatusMatters(x)
    BY <1>2 DEF WebInv, WebTypeOK, OneLogin, StatusAlone, ShownFollows
  <1>4. WebTypeOK'
    BY <1>1, <1>2, Called DEF WebInv, WebTypeOK, Kind
  <1>5. LogoutLast' /\ \A x \in Call : ~LoginMatters(x)' /\ ~StatusMatters(x)'
    BY <1>1, <1>3, AskedKeeps
  <1> QED
    BY <1>2, <1>4, <1>5 DEF WebInv, ShownFollows, OneLogin, StatusAlone, NothingLeft

\* The form is there, so nothing else is under way that matters here.
LEMMA FormAlone ==
    ASSUME WebInv, NEW c \in Call, SignIn(c)
    PROVE  /\ auth = "anon" /\ shown = "anon" /\ ~busy /\ ~Pending(c)
           /\ busy' = TRUE /\ signedOut' = FALSE
           /\ UNCHANGED <<auth, shown, jar, live, overtaken, unsure>>
           /\ \A x \in Call : ~LoginMatters(x) /\ ~StatusMatters(x)
  <1>1. /\ shown = "anon" /\ ~busy /\ ~Pending(c) /\ busy' = TRUE /\ signedOut' = FALSE
        /\ UNCHANGED <<auth, shown, jar, live, overtaken, unsure>>
    BY DEF SignIn, AsksLogin
  <1>2. auth = "anon"
    BY <1>1 DEF WebInv, WebTypeOK, AuthState, ShownFollows
  <1>3. \A x \in Call : ~LoginMatters(x)
    BY <1>1 DEF WebInv, OneLogin
  <1>4. \A x \in Call : ~StatusMatters(x)
    BY <1>2 DEF WebInv, StatusAlone
  <1> QED
    BY <1>1, <1>2, <1>3, <1>4, Zenon

\* A sign-out asked for before the login is over: marked, and otherwise as it was.
Marked(x) ==
    /\ calls'[x].kind = "logout" /\ calls'[x].later
    /\ calls'[x].stage = calls[x].stage
    /\ calls'[x].ok = calls[x].ok
    /\ calls'[x].token = calls[x].token
    /\ calls'[x].dropped = calls[x].dropped
    /\ calls'[x] \in CallRecord

LEMMA CallsAtSignIn ==
    ASSUME WebTypeOK, NEW c \in Call, SignIn(c)
    PROVE  /\ calls' \in [Call -> CallRecord \cup {NoCall}]
           /\ calls'[c].kind = "login" /\ calls'[c].stage = "sent" /\ calls'[c] # NoCall
           /\ \A x \in Call \ {c} : OfKind(x, "logout") => Marked(x)
           /\ \A x \in Call \ {c} : ~OfKind(x, "logout") => calls'[x] = calls[x]
  <1>1. calls'[c] = Sending("login")
        /\ \A x \in Call \ {c} :
             calls'[x] = IF OfKind(x, "logout") THEN [calls[x] EXCEPT !.later = TRUE] ELSE calls[x]
    BY DEF SignIn, AsksLogin
  <1>2. Sending("login") \in CallRecord
    BY DEF WebTypeOK, Sending, CallRecord, Cookie, Kind
  <1>3. calls'[c].kind = "login" /\ calls'[c].stage = "sent" /\ calls'[c] # NoCall
    BY <1>1 DEF Sending, NoCall
  <1>4. ASSUME NEW x \in Call \ {c}, OfKind(x, "logout") PROVE Marked(x)
    <2>1. calls[x] \in CallRecord /\ calls[x].kind = "logout"
      BY <1>4 DEF WebTypeOK, OfKind, Pending
    <2>2. calls'[x] = [calls[x] EXCEPT !.later = TRUE]
      BY <1>1, <1>4
    <2> QED
      BY <2>1, <2>2 DEF CallRecord, Marked
  <1>5. ASSUME NEW x \in Call \ {c}, ~OfKind(x, "logout") PROVE calls'[x] = calls[x]
    BY <1>1, <1>5
  <1>6. ASSUME NEW x \in Call PROVE calls'[x] \in CallRecord \cup {NoCall}
    <2>1. CASE x = c
      BY <1>1, <1>2, <2>1
    <2>2. CASE x # c /\ OfKind(x, "logout")
      BY <1>4, <2>2 DEF Marked
    <2>3. CASE x # c /\ ~OfKind(x, "logout")
      BY <1>5, <2>3 DEF WebTypeOK
    <2> QED
      BY <2>1, <2>2, <2>3
  <1>7. calls' \in [Call -> CallRecord \cup {NoCall}]
    BY <1>6 DEF SignIn, AsksLogin
  <1> QED
    BY <1>3, <1>4, <1>5, <1>7, Zenon

\* Of the calls that matter the new one is the only login, and every sign-out
\* is one that was there, marked.
LEMMA SignsIn ==
    ASSUME WebInv, NEW c \in Call, SignIn(c)
    PROVE  /\ calls'[c].stage = "sent"
           /\ \A x \in Call : LoginMatters(x)' => x = c
           /\ \A x \in Call : ~StatusMatters(x)'
           /\ \A x \in Call : OfKind(x, "logout")' => OfKind(x, "logout") /\ Marked(x)
  <1>1. /\ calls'[c].kind = "login" /\ calls'[c].stage = "sent"
        /\ \A x \in Call \ {c} : OfKind(x, "logout") => Marked(x)
        /\ \A x \in Call \ {c} : ~OfKind(x, "logout") => calls'[x] = calls[x]
    BY CallsAtSignIn DEF WebInv
  <1>2. \A x \in Call : ~LoginMatters(x) /\ ~StatusMatters(x)
    BY FormAlone
  <1>3. ASSUME NEW x \in Call, LoginMatters(x)' PROVE x = c
    BY <1>1, <1>2, <1>3 DEF LoginMatters, Matters, Pending, Marked
  <1>4. ASSUME NEW x \in Call PROVE ~StatusMatters(x)'
    BY <1>1, <1>2 DEF StatusMatters, Matters, Pending, Marked
  <1>5. ASSUME NEW x \in Call, OfKind(x, "logout")' PROVE OfKind(x, "logout") /\ Marked(x)
    <2>1. x # c
      BY <1>1, <1>5 DEF OfKind
    <2>2. OfKind(x, "logout")
      BY <1>1, <1>5, <2>1 DEF OfKind, Pending, NoCall
    <2> QED
      BY <1>1, <2>1, <2>2
  <1> QED
    BY <1>1, <1>3, <1>4, <1>5, Zenon

LEMMA SignInKeeps ==
    ASSUME WebInv, NEW c \in Call, SignIn(c) PROVE WebInv'
  <1>1. /\ auth = "anon" /\ shown = "anon" /\ busy' = TRUE /\ signedOut' = FALSE
        /\ UNCHANGED <<auth, shown, jar, live, overtaken, unsure>>
    BY FormAlone
  <1>2. /\ \A x \in Call : LoginMatters(x)' => x = c
        /\ \A x \in Call : ~StatusMatters(x)'
        /\ \A x \in Call : OfKind(x, "logout")' => OfKind(x, "logout") /\ Marked(x)
    BY SignsIn
  <1>3. calls' \in [Call -> CallRecord \cup {NoCall}]
    BY CallsAtSignIn DEF WebInv
  <1>4. WebTypeOK'
    BY <1>1, <1>3 DEF WebInv, WebTypeOK
  <1>5. LogoutLast'
    <2> SUFFICES ASSUME NEW x \in Call, OfKind(x, "logout")'
                 PROVE  /\ calls'[x].later
                        /\ calls'[x].stage = "served" => calls'[x].ok /\ calls'[x].token = NoSession
      BY DEF LogoutLast, LogoutMatters, OfKind, Matters
    <2>1. OfKind(x, "logout") /\ Marked(x)
      BY <1>2
    <2>2. calls[x].stage = "served" => calls[x].ok /\ calls[x].token = NoSession
      BY <2>1 DEF WebInv, LogoutLast
    <2> QED
      BY <2>1, <2>2 DEF Marked
  <1>6. ShownFollows' /\ OneLogin'
    BY <1>1, <1>2 DEF ShownFollows, OneLogin
  <1>7. StatusAlone' /\ NothingLeft'
    BY <1>1, <1>2 DEF StatusAlone, NothingLeft
  <1> QED
    BY <1>4, <1>5, <1>6, <1>7 DEF WebInv

\* Of the calls of the page only the new one matters.
LEMMA Reloaded ==
    ASSUME WebInv, NEW c \in Call, Reload(c)
    PROVE  /\ calls' \in [Call -> CallRecord \cup {NoCall}]
           /\ calls'[c] = Sending("status")
           /\ \A x \in Call : Matters(x)' => x = c
           /\ \A x \in Call :
                /\ ~LoginMatters(x)'
                /\ ~LogoutMatters(x)'
                /\ OfKind(x, "logout")' => /\ OfKind(x, "logout")
                                           /\ calls'[x].stage = calls[x].stage
                                           /\ calls'[x].ok = calls[x].ok
                                           /\ calls'[x].token = calls[x].token
  <1> USE DEF WebInv
  <1>1. Sending("status") \in CallRecord
    BY DEF WebTypeOK, Sending, CallRecord, Cookie, Kind
  <1>2. \A x \in Call :
          calls'[x] = IF x = c THEN Sending("status")
                      ELSE IF Pending(x) THEN [calls[x] EXCEPT !.dropped = TRUE] ELSE NoCall
    BY DEF Reload
  <1>3. \A x \in Call : Pending(x) => /\ [calls[x] EXCEPT !.dropped = TRUE] \in CallRecord
                                      /\ calls[x] \in CallRecord
    BY DEF WebTypeOK, Pending, CallRecord
  <1>4. \A x \in Call : Matters(x)' => x = c
    BY <1>2, <1>3 DEF Matters, Pending, CallRecord
  <1>5. calls'[c] = Sending("status")
    BY <1>2
  <1>6. calls' \in [Call -> CallRecord \cup {NoCall}]
    <2>1. \A x \in Call : calls'[x] \in CallRecord \cup {NoCall}
      BY <1>1, <1>2, <1>3
    <2> QED
      BY <2>1 DEF Reload
  <1>7. \A x \in Call : ~LoginMatters(x)' /\ ~LogoutMatters(x)'
    BY <1>4, <1>5 DEF LoginMatters, LogoutMatters, Sending
  <1>8. \A x \in Call : OfKind(x, "logout")' =>
          /\ OfKind(x, "logout")
          /\ calls'[x].stage = calls[x].stage
          /\ calls'[x].ok = calls[x].ok
          /\ calls'[x].token = calls[x].token
    <2> SUFFICES ASSUME NEW x \in Call, Pending(x), x # c
                 PROVE  /\ calls'[x].kind = calls[x].kind
                        /\ calls'[x].stage = calls[x].stage
                        /\ calls'[x].ok = calls[x].ok
                        /\ calls'[x].token = calls[x].token
      BY <1>2, <1>5 DEF OfKind, Sending, Pending, NoCall
    <2>1. calls'[x] = [calls[x] EXCEPT !.dropped = TRUE] /\ calls[x] \in CallRecord
      BY <1>2, <1>3
    <2> QED
      BY <2>1 DEF CallRecord
  <1> QED
    BY <1>4, <1>5, <1>6, <1>7, <1>8

LEMMA ReloadKeeps ==
    ASSUME WebInv, NEW c \in Call, Reload(c) PROVE WebInv'
  <1> USE DEF WebInv
  <1>1. auth' = "loading" /\ shown' = "loading" /\ busy' = FALSE /\ UNCHANGED <<jar, live, signedOut>>
        /\ overtaken' = FALSE /\ unsure' \in BOOLEAN
    BY DEF Reload
  <1>2. WebTypeOK'
    BY <1>1, Reloaded DEF WebTypeOK, AuthState
  <1>3. ShownFollows' /\ OneLogin' /\ StatusAlone'
    BY <1>1, Reloaded DEF ShownFollows, OneLogin, StatusAlone, StatusMatters
  <1>4. LogoutLast'
    BY Reloaded DEF LogoutLast
  <1>5. NothingLeft'
    BY <1>1, Reloaded DEF NothingLeft, StatusMatters, Sending
  <1> QED
    BY <1>2, <1>3, <1>4, <1>5

-----------------------------------------------------------------------------
(* The other steps *)

LEMMA RenderKeeps ==
    ASSUME WebInv, RenderAuth PROVE WebInv'
  <1> USE DEF WebInv
  <1>1. auth # shown /\ shown' = auth /\ busy' = FALSE
        /\ UNCHANGED <<auth, jar, live, signedOut, overtaken, unsure>>
    BY DEF RenderAuth
  <1>2. \A x \in Call : ~LoginMatters(x)
    BY <1>1 DEF OneLogin, WebTypeOK
  <1>3. \A x \in Call : ~StatusMatters(x)
    BY <1>1 DEF StatusAlone, ShownFollows
  <1>4. CASE UNCHANGED calls
    <2>1. WebTypeOK' /\ LogoutLast'
      BY <1>1, <1>4 DEF WebTypeOK, LogoutLast, OfKind, Pending, LogoutMatters, LoginMatters, Matters
    <2>2. \A x \in Call : ~LoginMatters(x)' /\ ~StatusMatters(x)'
      BY <1>2, <1>3, <1>4 DEF Pending, LoginMatters, StatusMatters, Matters
    <2> QED
      BY <1>1, <2>1, <2>2 DEF ShownFollows, OneLogin, StatusAlone, NothingLeft
  <1>5. ASSUME NEW c \in Call, Calls(c, "ask") PROVE WebInv'
    <2>1. WebTypeOK'
      BY <1>1, <1>5, Called DEF WebTypeOK, Kind
    <2>2. LogoutLast' /\ \A x \in Call : ~LoginMatters(x)' /\ ~StatusMatters(x)'
      BY <1>2, <1>3, <1>5, AskedKeeps
    <2> QED
      BY <1>1, <2>1, <2>2 DEF ShownFollows, OneLogin, StatusAlone, NothingLeft
  <1> QED
    BY <1>4, <1>5 DEF RenderAuth

\* How the server may answer.
ServedAs(c, token, ok) ==
    /\ Serves(c, token, ok)
    /\ live' \subseteq Session
    /\ calls[c].kind \in {"status", "ask"} =>
         token = calls[c].token /\ (ok <=> token \in live) /\ live' = live
    /\ calls[c].kind = "login" =>
         /\ live \subseteq live'
         /\ IF ok THEN token \in Session \ InUse ELSE token = calls[c].token
    /\ calls[c].kind = "logout" =>
         ok /\ token = NoSession /\ live' = live \ {calls[c].token}

LEMMA ServeAnswers ==
    ASSUME WebInv, NEW c \in Call, ServeCall(c)
    PROVE  /\ UNCHANGED <<auth, shown, busy, jar, signedOut, overtaken, unsure>>
           /\ Pending(c) /\ calls[c].stage = "sent" /\ calls[c] \in CallRecord
           /\ \E token \in Cookie, ok \in BOOLEAN : ServedAs(c, token, ok)
  <1> USE DEF WebInv
  <1>1. UNCHANGED <<auth, shown, busy, jar, signedOut, overtaken, unsure>>
        /\ Pending(c) /\ calls[c].stage = "sent" /\ calls[c] \in CallRecord
    BY DEF ServeCall, WebTypeOK, Pending
  <1>2. calls[c].token \in Cookie /\ (calls[c].token \in live) \in BOOLEAN /\ live \subseteq Session
        /\ Session \subseteq Cookie /\ NoSession \in Cookie
    BY <1>1 DEF CallRecord, Cookie, WebTypeOK
  <1>3. CASE calls[c].kind \in {"status", "ask"} /\ Serves(c, calls[c].token, calls[c].token \in live)
             /\ UNCHANGED live
    <2>1. ServedAs(c, calls[c].token, calls[c].token \in live)
      BY <1>2, <1>3 DEF ServedAs
    <2> QED
      BY <1>1, <1>2, <2>1
  <1>4. CASE calls[c].kind = "login" /\ Serves(c, calls[c].token, FALSE) /\ UNCHANGED live
    <2>1. ServedAs(c, calls[c].token, FALSE)
      BY <1>2, <1>4 DEF ServedAs
    <2> QED
      BY <1>1, <1>2, <2>1
  <1>5. CASE /\ calls[c].kind = "login"
             /\ \E s \in Session \ InUse : Serves(c, s, TRUE) /\ live' = live \cup {s}
    <2>1. PICK s \in Session \ InUse : Serves(c, s, TRUE) /\ live' = live \cup {s}
      BY <1>5
    <2>2. ServedAs(c, s, TRUE)
      BY <1>2, <1>5, <2>1 DEF ServedAs
    <2> QED
      BY <1>1, <1>2, <2>2
  <1>6. CASE calls[c].kind = "logout" /\ Serves(c, NoSession, TRUE) /\ live' = live \ {calls[c].token}
    <2>1. ServedAs(c, NoSession, TRUE)
      BY <1>2, <1>6 DEF ServedAs
    <2> QED
      BY <1>1, <1>2, <2>1
  <1> QED
    BY <1>3, <1>4, <1>5, <1>6 DEF ServeCall

LEMMA Served ==
    ASSUME WebInv, NEW c \in Call, NEW token \in Cookie, NEW ok \in BOOLEAN,
           Pending(c), calls[c] \in CallRecord, ServedAs(c, token, ok)
    PROVE  /\ calls' \in [Call -> CallRecord \cup {NoCall}]
           /\ calls'[c].token = token /\ calls'[c].ok = ok /\ calls'[c].stage = "served"
           /\ \A x \in Call \ {c} : calls'[x] = calls[x]
           /\ \A x \in Call : /\ Pending(x)' <=> Pending(x)
                              /\ Matters(x)' <=> Matters(x)
                              /\ calls[x].kind = calls'[x].kind
                              /\ calls[x].dropped = calls'[x].dropped
                              /\ OfKind(x, "logout")' <=> OfKind(x, "logout")
                              /\ calls[x].later = calls'[x].later
                              /\ LoginMatters(x)' <=> LoginMatters(x)
                              /\ LogoutMatters(x)' <=> LogoutMatters(x)
                              /\ StatusMatters(x)' <=> StatusMatters(x)
  <1> USE DEF WebInv
  <1>1. /\ calls'[c] = [calls[c] EXCEPT !.stage = "served", !.token = token, !.ok = ok]
        /\ \A x \in Call \ {c} : calls'[x] = calls[x]
        /\ calls' \in [Call -> CallRecord \cup {NoCall}]
    <2>1. [calls[c] EXCEPT !.stage = "served", !.token = token, !.ok = ok] \in CallRecord
      BY DEF CallRecord
    <2> QED
      BY <2>1 DEF ServedAs, Serves, WebTypeOK
  <1>2. /\ calls'[c].kind = calls[c].kind /\ calls'[c].dropped = calls[c].dropped
        /\ calls'[c].later = calls[c].later /\ calls'[c].stage = "served"
        /\ calls'[c].token = token /\ calls'[c].ok = ok
        /\ Pending(c)'
    BY <1>1 DEF CallRecord, Pending, NoCall, Kind
  <1>3. \A x \in Call : /\ Pending(x)' <=> Pending(x)
                        /\ calls[x].kind = calls'[x].kind
                        /\ calls[x].dropped = calls'[x].dropped
                        /\ calls[x].later = calls'[x].later
    BY <1>1, <1>2 DEF Pending, NoCall
  <1>4. \A x \in Call : /\ Matters(x)' <=> Matters(x)
                        /\ OfKind(x, "logout")' <=> OfKind(x, "logout")
    BY <1>3 DEF Matters, OfKind
  <1> QED
    BY <1>1, <1>2, <1>3, <1>4 DEF LoginMatters, LogoutMatters, StatusMatters

LEMMA ServeKeeps ==
    ASSUME WebInv, NEW c \in Call, ServeCall(c) PROVE WebInv'
  <1> USE DEF WebInv
  <1>1. UNCHANGED <<auth, shown, busy, jar, signedOut, overtaken, unsure>>
        /\ Pending(c) /\ calls[c].stage = "sent" /\ calls[c] \in CallRecord
    BY ServeAnswers
  <1>2. PICK token \in Cookie, ok \in BOOLEAN : ServedAs(c, token, ok)
    BY ServeAnswers
  <1>3. /\ calls' \in [Call -> CallRecord \cup {NoCall}]
        /\ calls'[c].token = token /\ calls'[c].ok = ok
        /\ \A x \in Call \ {c} : calls'[x] = calls[x]
    BY <1>1, <1>2, Served
  <1>4. \A x \in Call : /\ Matters(x)' <=> Matters(x)
                        /\ OfKind(x, "logout")' <=> OfKind(x, "logout")
                        /\ calls[x].later = calls'[x].later
    BY <1>1, <1>2, Served
  <1>5. \A x \in Call : /\ LoginMatters(x)' <=> LoginMatters(x)
                        /\ LogoutMatters(x)' <=> LogoutMatters(x)
                        /\ StatusMatters(x)' <=> StatusMatters(x)
    BY <1>1, <1>2, Served
  <1>6. WebTypeOK'
    BY <1>1, <1>2, <1>3 DEF WebTypeOK, ServedAs
  <1>7. ShownFollows' /\ OneLogin' /\ StatusAlone'
    BY <1>1, <1>4, <1>5 DEF ShownFollows, OneLogin, StatusAlone
  <1>8. LogoutLast'
    <2> SUFFICES ASSUME NEW x \in Call, OfKind(x, "logout"), calls'[x].stage = "served"
                 PROVE  calls'[x].ok /\ calls'[x].token = NoSession
      BY <1>4, <1>5 DEF LogoutLast
    <2>1. CASE x = c
      <3>1. ok = TRUE /\ token = NoSession
        BY <1>2, <2>1, Zenon DEF ServedAs, OfKind
      <3> QED
        BY <1>3, <2>1, <3>1
    <2>2. CASE x # c
      BY <1>3, <2>2 DEF LogoutLast
    <2> QED
      BY <2>1, <2>2
  <1>9. NothingLeft'
    <2> SUFFICES ASSUME signedOut PROVE NothingLeft'
      BY <1>1 DEF NothingLeft
    <2>1. \A x \in Call : StatusMatters(x) => calls'[x].token = NoSession /\ ~calls'[x].ok
      <3>1. ASSUME StatusMatters(c) PROVE token = NoSession /\ ok = FALSE
        <4>1. token = NoSession /\ (ok => token \in live)
          BY <1>2, <3>1 DEF ServedAs, NothingLeft, StatusMatters
        <4>2. NoSession \notin live
          BY WebSessionAssumption DEF WebTypeOK
        <4> QED
          BY <4>1, <4>2
      <3> QED
        BY <1>3, <3>1 DEF NothingLeft
    <2> QED
      BY <1>1, <1>5, <2>1 DEF NothingLeft
  <1> QED
    BY <1>6, <1>7, <1>8, <1>9

LEMMA WebStepHolds == WebInv /\ [WebNext]_webVars => WebInv'
  <1> SUFFICES ASSUME WebInv, [WebNext]_webVars PROVE WebInv'
    OBVIOUS
  <1>1. CASE DropSessions \/ UNCHANGED webVars
    <2>1. UNCHANGED <<auth, shown, busy, jar, calls, signedOut, overtaken>>
          /\ live' \subseteq Session /\ unsure' \in BOOLEAN
      BY <1>1 DEF DropSessions, webVars, WebInv, WebTypeOK
    <2>2. WebTypeOK' /\ ShownFollows' /\ OneLogin' /\ StatusAlone' /\ LogoutLast' /\ NothingLeft'
      BY <2>1 DEF WebInv, WebTypeOK, ShownFollows, OneLogin, StatusAlone, LogoutLast, NothingLeft,
                  LoginMatters, LogoutMatters, StatusMatters, Matters, OfKind, Pending
    <2> QED
      BY <2>2 DEF WebInv
  <1>2. CASE RenderAuth
    BY <1>2, RenderKeeps
  <1>3. ASSUME NEW c \in Call,
               SignIn(c) \/ SignOut(c) \/ Ask(c) \/ Reload(c) \/ ServeCall(c) \/ CallEnds(c)
        PROVE  WebInv'
    BY <1>3, SignInKeeps, FromTheNotes, ReloadKeeps, ServeKeeps, CallEndsKeeps
  <1> QED
    BY <1>1, <1>2, <1>3 DEF WebNext

-----------------------------------------------------------------------------
(* The second invariant *)

LEMMA CallEndsHolds ==
    ASSUME WebInv, HoldsInv, NEW c \in Call, CallEnds(c) PROVE HoldsInv'
  <1> USE DEF WebInv, HoldsInv
  <1>1. WebTypeOK /\ EndsWith(c) /\ Clears(c) /\ Pending(c) /\ shown' = shown /\ live' = live
    BY CallEndsWith DEF EndsWith
  <1>2. \A x \in Call : Pending(x)' => x # c /\ Pending(x) /\ calls'[x] = calls[x]
    BY <1>1, Cleared DEF Pending, NoCall
  <1>3. SessionKnown'
    <2> SUFFICES ASSUME auth' = "authed", shown = "authed", ~unsure'
                 PROVE  jar' \in live \/ \E x \in Call : LogoutMatters(x)' \/ AskTells(x)'
      BY <1>1 DEF SessionKnown
    <2>1. ~LoginMatters(c) /\ ~StatusMatters(c)
      BY DEF OneLogin, WebTypeOK, StatusAlone, ShownFollows
    <2>2. auth = "authed" /\ ~LogoutMatters(c) /\ ~AskTells(c)
      BY <1>1, <2>1 DEF EndsWith
    <2>3. ~unsure
      BY <1>1, <2>1 DEF EndsWith
    <2>4. jar' = jar
      BY <1>1, <2>1, <2>2 DEF EndsWith, SetsCookie, LoginMatters, LogoutMatters
    <2>5. CASE jar \in live
      BY <2>4, <2>5
    <2>6. ASSUME NEW x \in Call, LogoutMatters(x) \/ AskTells(x)
          PROVE  LogoutMatters(x)' \/ AskTells(x)'
      <3>1. x # c /\ calls'[x] = calls[x] /\ (Matters(x)' <=> Matters(x))
            /\ (LogoutMatters(x)' <=> LogoutMatters(x))
        BY <1>1, <2>2, <2>6, Cleared
      <3> QED
        BY <2>4, <2>6, <3>1 DEF AskTells
    <2> QED
      BY <2>2, <2>3, <2>5, <2>6 DEF SessionKnown
  <1>4. jar' = jar \/ jar' = NoSession \/ (LoginMatters(c) /\ calls[c].stage = "served" /\ calls[c].ok
                                           /\ jar' = calls[c].token)
    BY <1>1 DEF EndsWith, SetsCookie, LoginMatters, LogoutLast, OfKind
  <1>5. OldSignOuts'
    <2> SUFFICES ASSUME ~unsure', NEW x \in Call, OfKind(x, "logout"), x # c,
                        calls[x].dropped, calls[x].stage = "sent"
                 PROVE  calls[x].token # jar' \/ jar' = NoSession
      BY <1>1, <1>2, Cleared DEF OldSignOuts
    <2>1. CASE LoginMatters(c) /\ calls[c].stage = "served" /\ calls[c].ok /\ jar' = calls[c].token
      BY <2>1 DEF LoginFresh, OfKind
    <2>2. CASE jar' = jar /\ ~unsure
      BY <2>2 DEF OldSignOuts
    <2>3. \/ ~unsure
          \/ LoginMatters(c) /\ SetsCookie(c) /\ calls[c].stage = "served" /\ jar' = calls[c].token
      BY <1>1, Zenon DEF EndsWith
    <2> QED
      BY <1>4, <2>1, <2>2, <2>3 DEF SetsCookie
  <1>6. LoginFresh'
    <2> SUFFICES ASSUME NEW x \in Call, x # c, LoginMatters(x), calls[x].stage = "served", calls[x].ok
                 PROVE  /\ calls[x].token \in Session
                        /\ calls[x].token # jar'
                        /\ \A d \in Call \ {x} : Pending(d) => calls[d].token # calls[x].token
      BY <1>1, <1>2, Cleared DEF LoginFresh
    <2> QED
      BY <1>1, <1>4, WebSessionAssumption DEF LoginFresh
  <1> QED
    BY <1>3, <1>5, <1>6

LEMMA CalledHolds ==
    ASSUME WebInv, HoldsInv, NEW c \in Call, NEW k \in {"ask", "logout"}, Calls(c, k),
           UNCHANGED <<jar, live, unsure>>
    PROVE  /\ OldSignOuts' /\ LoginFresh'
           /\ \A x \in Call : LogoutMatters(x) => LogoutMatters(x)'
           /\ \A x \in Call : AskTells(x) => AskTells(x)'
           /\ k = "ask" => AskTells(c)'
  <1> USE DEF WebInv, HoldsInv
  <1>1. k \in Kind
    BY DEF Kind
  <1>2. /\ ~Matters(c) /\ ~calls'[c].dropped /\ Pending(c)'
        /\ calls'[c].kind = k /\ calls'[c].stage = "sent" /\ calls'[c].token = jar
        /\ \A x \in Call \ {c} : calls'[x] = calls[x] /\ (Matters(x)' <=> Matters(x))
    BY <1>1, Called
  <1>3. \A x \in Call \ {c} : Pending(x)' <=> Pending(x)
    BY <1>2 DEF Pending, NoCall
  <1>4. OldSignOuts'
    BY <1>2, <1>3 DEF OldSignOuts, OfKind
  <1>5. LoginFresh'
    BY <1>2, <1>3 DEF LoginFresh, LoginMatters
  <1> QED
    BY <1>2, <1>4, <1>5 DEF LogoutMatters, AskTells, Matters

LEMMA ServeHolds ==
    ASSUME WebInv, HoldsInv, NEW c \in Call, ServeCall(c) PROVE HoldsInv'
  <1> USE DEF WebInv, HoldsInv
  <1>1. UNCHANGED <<auth, shown, jar, unsure>>
        /\ Pending(c) /\ calls[c].stage = "sent" /\ calls[c] \in CallRecord
    BY ServeAnswers
  <1>2. PICK token \in Cookie, ok \in BOOLEAN : ServedAs(c, token, ok)
    BY ServeAnswers
  <1>3. /\ calls'[c].token = token /\ calls'[c].ok = ok /\ calls'[c].stage = "served"
        /\ \A x \in Call \ {c} : calls'[x] = calls[x]
        /\ \A x \in Call : /\ Pending(x)' <=> Pending(x)
                           /\ Matters(x)' <=> Matters(x)
                           /\ calls[x].kind = calls'[x].kind
                           /\ calls[x].dropped = calls'[x].dropped
                           /\ OfKind(x, "logout")' <=> OfKind(x, "logout")
                           /\ LoginMatters(x)' <=> LoginMatters(x)
                           /\ LogoutMatters(x)' <=> LogoutMatters(x)
    BY <1>1, <1>2, Served
  <1>4. calls[c].kind \in {"status", "ask", "login", "logout"}
    BY <1>1 DEF CallRecord, Kind
  <1>5. OldSignOuts'
    BY <1>1, <1>3 DEF OldSignOuts
  <1>6. SessionKnown'
    <2> SUFFICES ASSUME auth = "authed", shown = "authed", ~unsure
                 PROVE  jar \in live' \/ \E x \in Call : LogoutMatters(x)' \/ AskTells(x)'
      BY <1>1 DEF SessionKnown
    <2>1. CASE jar \in live
      <3>1. CASE jar \notin live'
        <4>1. OfKind(c, "logout") /\ calls[c].token = jar
          BY <1>1, <1>2, <1>4, <2>1, <3>1 DEF ServedAs, OfKind
        <4>2. jar # NoSession
          BY <2>1, WebSessionAssumption DEF WebTypeOK
        <4>3. LogoutMatters(c)
          BY <1>1, <4>1, <4>2 DEF OldSignOuts, OfKind, LogoutMatters, Matters
        <4> QED
          BY <1>3, <4>3
      <3> QED
        BY <3>1
    <2>2. ASSUME NEW x \in Call, LogoutMatters(x) PROVE LogoutMatters(x)'
      BY <1>3, <2>2
    <2>3. ASSUME NEW x \in Call, AskTells(x) PROVE jar \in live' \/ AskTells(x)'
      <3>1. CASE x # c
        BY <1>1, <1>3, <2>3, <3>1 DEF AskTells
      <3>2. CASE x = c
        <4>1. calls[c].kind = "ask" /\ calls[c].token = jar /\ Matters(c)
          BY <1>1, <2>3, <3>2 DEF AskTells
        <4>2. (ok <=> jar \in live) /\ live' = live
          BY <1>2, <4>1 DEF ServedAs
        <4>3. CASE ok
          BY <4>2, <4>3
        <4>4. CASE ~ok
          BY <1>3, <3>2, <4>1, <4>4 DEF AskTells
        <4> QED
          BY <4>3, <4>4
      <3> QED
        BY <3>1, <3>2
    <2> QED
      BY <2>1, <2>2, <2>3 DEF SessionKnown
  <1>7. LoginFresh'
    <2> SUFFICES ASSUME NEW x \in Call, LoginMatters(x), calls'[x].stage = "served", calls'[x].ok
                 PROVE  /\ calls'[x].token \in Session
                        /\ calls'[x].token # jar
                        /\ \A d \in Call \ {x} : Pending(d) => calls'[d].token # calls'[x].token
      BY <1>1, <1>3 DEF LoginFresh
    <2>1. CASE x = c
      <3>1. token \in Session \ InUse
        BY <1>2, <1>3, <2>1 DEF ServedAs, LoginMatters
      <3> QED
        BY <1>3, <2>1, <3>1 DEF InUse
    <2>2. CASE x # c
      <3>1. /\ calls[x].token \in Session
            /\ calls[x].token # jar
            /\ \A d \in Call \ {x} : Pending(d) => calls[d].token # calls[x].token
        BY <1>3, <2>2 DEF LoginFresh
      <3>2. token # calls[x].token
        <4>1. CASE token = calls[c].token
          BY <1>1, <2>2, <3>1, <4>1
        <4>2. CASE token = NoSession
          BY <3>1, <4>2, WebSessionAssumption
        <4>3. CASE token \notin InUse
          <5>1. Pending(x)
            BY DEF LoginMatters, Matters
          <5> QED
            BY <4>3, <5>1 DEF InUse
        <4> QED
          BY <1>2, <1>4, <4>1, <4>2, <4>3 DEF ServedAs
      <3> QED
        BY <1>3, <2>2, <3>1, <3>2
    <2> QED
      BY <2>1, <2>2
  <1> QED
    BY <1>5, <1>6, <1>7

LEMMA HoldsStep == WebInv /\ HoldsInv /\ [WebNext]_webVars => HoldsInv'
  <1> SUFFICES ASSUME WebInv, HoldsInv, [WebNext]_webVars PROVE HoldsInv'
    OBVIOUS
  <1> USE DEF WebInv, HoldsInv
  <1>1. CASE UNCHANGED webVars
    BY <1>1 DEF webVars, SessionKnown, OldSignOuts, LoginFresh, AskTells, LoginMatters,
                LogoutMatters, Matters, OfKind, Pending
  <1>2. CASE DropSessions
    <2>1. UNCHANGED <<jar, calls>> /\ unsure' = TRUE
      BY <1>2 DEF DropSessions
    <2> QED
      BY <2>1 DEF SessionKnown, OldSignOuts, LoginFresh, LoginMatters, Matters, Pending
  <1>3. CASE RenderAuth
    <2>1. auth' = auth /\ shown' = auth /\ UNCHANGED <<jar, live, unsure>>
      BY <1>3 DEF RenderAuth
    <2>2. CASE auth # "authed"
      <3>1. calls' = calls
        BY <1>3, <2>2 DEF RenderAuth
      <3> QED
        BY <2>1, <2>2, <3>1 DEF SessionKnown, OldSignOuts, LoginFresh, LoginMatters, Matters,
                                OfKind, Pending
    <2>3. ASSUME NEW c \in Call, Calls(c, "ask") PROVE HoldsInv'
      <3>1. OldSignOuts' /\ LoginFresh' /\ AskTells(c)'
        BY <2>1, <2>3, CalledHolds
      <3> QED
        BY <3>1 DEF SessionKnown
    <2> QED
      BY <1>3, <2>2, <2>3 DEF RenderAuth
  <1>4. ASSUME NEW c \in Call, SignOut(c) \/ Ask(c) PROVE HoldsInv'
    <2>1. PICK k \in {"ask", "logout"} : Calls(c, k)
      BY <1>4 DEF SignOut, Ask
    <2>2. UNCHANGED <<auth, shown, jar, live, unsure>>
      BY <1>4 DEF SignOut, Ask
    <2>3. /\ OldSignOuts' /\ LoginFresh'
          /\ \A x \in Call : LogoutMatters(x) => LogoutMatters(x)'
          /\ \A x \in Call : AskTells(x) => AskTells(x)'
      BY <2>1, <2>2, CalledHolds
    <2> QED
      BY <2>2, <2>3 DEF SessionKnown
  <1>5. ASSUME NEW c \in Call, SignIn(c) PROVE HoldsInv'
    <2>1. auth' = "anon" /\ UNCHANGED <<jar, unsure>>
      BY <1>5, FormAlone
    <2>2. /\ calls'[c].stage = "sent"
          /\ \A x \in Call : LoginMatters(x)' => x = c
          /\ \A x \in Call : OfKind(x, "logout")' => OfKind(x, "logout") /\ Marked(x)
      BY <1>5, SignsIn
    <2>3. SessionKnown' /\ LoginFresh'
      BY <2>1, <2>2 DEF SessionKnown, LoginFresh
    <2>4. OldSignOuts'
      BY <2>1, <2>2 DEF OldSignOuts, Marked
    <2> QED
      BY <2>3, <2>4
  <1>6. ASSUME NEW c \in Call, Reload(c) PROVE HoldsInv'
    <2>1. auth' = "loading" /\ (~unsure' => \A x \in Call : ~OfKind(x, "logout"))
      BY <1>6 DEF Reload
    <2>2. \A x \in Call :
            /\ ~LoginMatters(x)'
            /\ OfKind(x, "logout")' => OfKind(x, "logout")
      BY <1>6, Reloaded
    <2> QED
      BY <2>1, <2>2 DEF SessionKnown, OldSignOuts, LoginFresh
  <1>7. ASSUME NEW c \in Call, ServeCall(c) \/ CallEnds(c) PROVE HoldsInv'
    BY <1>7, ServeHolds, CallEndsHolds
  <1> QED
    BY <1>1, <1>2, <1>3, <1>4, <1>5, <1>6, <1>7 DEF WebNext

(***************************************************************************)
(* The strengthened invariant holds in every reachable state.               *)
(***************************************************************************)
THEOREM WebInvariance == WebSpec => []WebInv
  BY WebInitHolds, WebStepHolds, PTL DEF WebSpec

(***************************************************************************)
(* Each part of the page's session has its type, and the login form waits   *)
(* only while it is on the screen.                                          *)
(***************************************************************************)
THEOREM WebTyped == WebSpec => []WebTypeOK
  <1>1. WebInv => WebTypeOK
    BY DEF WebInv
  <1> QED
    BY <1>1, WebInvariance, PTL

(***************************************************************************)
(* After an answered sign-out nothing signs the page in but a new login:    *)
(* no answer that was under way, and no reload.                             *)
(***************************************************************************)
THEOREM SignedOutLasts == WebSpec => []SignedOutStays
  <1>1. WebInv => SignedOutStays
    BY DEF WebInv, NothingLeft, SignedOutStays
  <1> QED
    BY <1>1, WebInvariance, PTL

LEMMA HoldsInit == WebInit => HoldsInv
  <1> SUFFICES ASSUME WebInit PROVE HoldsInv
    OBVIOUS
  <1>1. auth = "loading" /\ \A x \in Call : Pending(x) => calls[x].kind = "status"
    BY DEF WebInit, Pending, Sending
  <1> QED
    BY <1>1 DEF HoldsInv, SessionKnown, OldSignOuts, LoginFresh, OfKind, LoginMatters, Matters

(***************************************************************************)
(* A page that is signed in, shows it and has no call under way holds a     *)
(* session of the server, unless the server has dropped it or a call was    *)
(* lost: a sign-out of before a reload never hits the session of after it.  *)
(***************************************************************************)
THEOREM SessionHeld == WebSpec => []AuthedHolds
  <1>1. WebInv /\ HoldsInv /\ [WebNext]_webVars => WebInv' /\ HoldsInv'
    BY WebStepHolds, HoldsStep
  <1>2. HoldsInv => AuthedHolds
    BY DEF HoldsInv, SessionKnown, AuthedHolds, AtRest, LogoutMatters, AskTells, Matters
  <1> QED
    BY <1>1, <1>2, WebInitHolds, HoldsInit, PTL DEF WebSpec

-----------------------------------------------------------------------------
(* What the page waits for.                                                 *)

LoadAwaited ==
    shown = "loading" => auth # "loading" \/ \E c \in Call : StatusMatters(c)

LoginAwaited ==
    busy /\ ~overtaken => auth = "authed" \/ \E c \in Call : LoginMatters(c)

\* Calls of a kind that matter are left as they are but for c.
LEMMA OthersMatter ==
    ASSUME WebTypeOK, NEW c \in Call, NEW x, calls' = [calls EXCEPT ![c] = x]
    PROVE  \A d \in Call \ {c} : /\ StatusMatters(d)' <=> StatusMatters(d)
                                 /\ LoginMatters(d)' <=> LoginMatters(d)
  BY DEF WebTypeOK, StatusMatters, LoginMatters, Matters, Pending

LEMMA AwaitedStep ==
    ASSUME WebInv, LoadAwaited, LoginAwaited, [WebNext]_webVars
    PROVE  LoadAwaited' /\ LoginAwaited'
  <1>t. /\ WebTypeOK /\ calls \in [Call -> CallRecord \cup {NoCall}]
        /\ NoCall.kind = "none" /\ NoCall \notin CallRecord
        /\ \A k \in Kind : Sending(k) # NoCall /\ Sending(k).kind = k /\ ~Sending(k).dropped
    BY DEF WebInv, WebTypeOK, NoCall, CallRecord, Kind, Sending
  <1>1. CASE RenderAuth
    BY <1>1 DEF RenderAuth, LoadAwaited, LoginAwaited, WebInv, ShownFollows
  <1>2. ASSUME NEW c \in Call, SignIn(c) PROVE LoadAwaited' /\ LoginAwaited'
    <2>1. shown' = "anon" /\ calls'[c] = Sending("login")
      BY <1>2, <1>t DEF SignIn, AsksLogin
    <2>2. LoginMatters(c)'
      BY <2>1 DEF LoginMatters, Matters, Pending, Sending, NoCall
    <2> QED
      BY <2>1, <2>2 DEF LoadAwaited, LoginAwaited
  <1>3. ASSUME NEW c \in Call, SignOut(c) \/ Ask(c) PROVE LoadAwaited' /\ LoginAwaited'
    BY <1>3, <1>t DEF WebTypeOK, SignOut, Ask, LoadAwaited, LoginAwaited
  <1>4. ASSUME NEW c \in Call, Reload(c) PROVE LoadAwaited' /\ LoginAwaited'
    <2>1. busy' = FALSE /\ calls'[c] = Sending("status")
      BY <1>4 DEF Reload
    <2>2. StatusMatters(c)'
      BY <2>1 DEF StatusMatters, Matters, Pending, Sending, NoCall
    <2> QED
      BY <2>1, <2>2 DEF LoadAwaited, LoginAwaited
  <1>5. ASSUME NEW c \in Call, ServeCall(c) PROVE LoadAwaited' /\ LoginAwaited'
    <2>1. PICK token, ok : Serves(c, token, ok)
      BY <1>5 DEF ServeCall
    <2>2. calls[c] \in CallRecord
      BY <1>5, <1>t DEF ServeCall, Pending
    <2>3. /\ calls'[c] # NoCall
          /\ calls'[c].kind = calls[c].kind /\ calls'[c].dropped = calls[c].dropped
      BY <1>t, <2>1, <2>2 DEF Serves, CallRecord, NoCall
    <2>4. \A d \in Call : /\ StatusMatters(d) => StatusMatters(d)'
                          /\ LoginMatters(d) => LoginMatters(d)'
      BY <1>t, <2>1, <2>3, OthersMatter DEF Serves, StatusMatters, LoginMatters, Matters, Pending
    <2>5. auth' = auth /\ shown' = shown /\ busy' = busy /\ overtaken' = overtaken
      BY <1>5 DEF ServeCall
    <2>6. /\ (\E d \in Call : StatusMatters(d)) => \E d \in Call : StatusMatters(d)'
          /\ (\E d \in Call : LoginMatters(d)) => \E d \in Call : LoginMatters(d)'
      BY <2>4
    <2>7. LoadAwaited'
      BY <2>5, <2>6 DEF LoadAwaited
    <2>8. LoginAwaited'
      BY <2>5, <2>6 DEF LoginAwaited
    <2> QED
      BY <2>7, <2>8
  <1>6. ASSUME NEW c \in Call, CallEnds(c) PROVE LoadAwaited' /\ LoginAwaited'
    <2>1. shown' = shown /\ calls' = [calls EXCEPT ![c] = NoCall]
      BY <1>6 DEF CallEnds, StatusAnswered, AskAnswered, LoginAnswered, LoginRefused, LogoutAnswered,
                  StatusLost, AskLost, LoginLost, LogoutLost, DroppedEnds, Loses, Clears
    <2>2. \A d \in Call \ {c} : /\ StatusMatters(d)' <=> StatusMatters(d)
                                /\ LoginMatters(d)' <=> LoginMatters(d)
      BY <1>t, <2>1, OthersMatter
    <2>3. auth' = auth \/ auth' \in {"authed", "anon"}
      BY <1>6 DEF CallEnds, StatusAnswered, AskAnswered, LoginAnswered, LoginRefused, LogoutAnswered,
                  StatusLost, AskLost, LoginLost, LogoutLost, DroppedEnds, Sets
    <2>4. StatusMatters(c) => auth' # "loading"
      BY <1>6 DEF CallEnds, StatusAnswered, AskAnswered, LoginAnswered, LoginRefused, LogoutAnswered,
                  StatusLost, AskLost, LoginLost, LogoutLost, DroppedEnds, Sets, Answered,
                  StatusMatters, Matters
    <2>5. LoadAwaited'
      BY <2>1, <2>2, <2>3, <2>4 DEF LoadAwaited
    <2>6. LoginMatters(c) => ~busy' \/ auth' = "authed"
      BY <1>6 DEF CallEnds, StatusAnswered, AskAnswered, LoginAnswered, LoginRefused, LogoutAnswered,
                  StatusLost, AskLost, LoginLost, LogoutLost, DroppedEnds, Sets, Answered,
                  LoginMatters, Matters
    <2>7. ASSUME auth = "authed", auth' # "authed", busy' PROVE overtaken'
      <3>1. busy' = busy \/ ~busy'
        BY <1>6 DEF CallEnds, StatusAnswered, AskAnswered, LoginAnswered, LoginRefused, LogoutAnswered,
                    StatusLost, AskLost, LoginLost, LogoutLost, DroppedEnds
      <3>2. shown = "anon"
        BY <1>t, <2>7, <3>1 DEF WebTypeOK
      <3>3. Sets("anon")
        BY <1>6, <2>7 DEF CallEnds, StatusAnswered, AskAnswered, LoginAnswered, LoginRefused,
                          LogoutAnswered, StatusLost, AskLost, LoginLost, LogoutLost, DroppedEnds, Sets
      <3> QED
        BY <2>7, <3>2, <3>3 DEF Sets
    <2>8. /\ busy' => busy
          /\ overtaken => overtaken'
      <3>1. (busy' = busy) \/ (busy' = FALSE)
        BY <1>6 DEF CallEnds, StatusAnswered, AskAnswered, LoginAnswered, LoginRefused, LogoutAnswered,
                    StatusLost, AskLost, LoginLost, LogoutLost, DroppedEnds
      <3>2. (overtaken' = overtaken) \/ \E s \in {"authed", "anon"} : Sets(s)
        BY <1>6 DEF CallEnds, StatusAnswered, AskAnswered, LoginAnswered, LoginRefused, LogoutAnswered,
                    StatusLost, AskLost, LoginLost, LogoutLost, DroppedEnds
      <3>3. overtaken => overtaken'
        BY <3>2, Zenon DEF Sets
      <3> QED
        BY <3>1, <3>3
    <2>9. LoginAwaited'
      BY <2>2, <2>6, <2>7, <2>8 DEF LoginAwaited
    <2> QED
      BY <2>5, <2>9
  <1>7. CASE DropSessions \/ UNCHANGED webVars
    BY <1>7 DEF DropSessions, webVars, LoadAwaited, LoginAwaited, StatusMatters, LoginMatters, Matters,
                Pending
  <1> QED
    BY <1>1, <1>2, <1>3, <1>4, <1>5, <1>6, <1>7 DEF WebNext

(***************************************************************************)
(* The loading screen and the disabled form are never left with nothing to  *)
(* end them: a status call, a login or a render is still to come, but for   *)
(* the answer that was overtaken.  It is the safe half of WaitingEnds.      *)
(***************************************************************************)
THEOREM AlwaysAwaited == WebSpec => [](LoadAwaited /\ LoginAwaited)
  <1>1. WebInit => LoadAwaited /\ LoginAwaited
    <2> SUFFICES ASSUME WebInit PROVE LoadAwaited /\ LoginAwaited
      OBVIOUS
    <2>1. PICK c \in Call : calls = [x \in Call |-> IF x = c THEN Sending("status") ELSE NoCall]
      BY DEF WebInit
    <2>2. StatusMatters(c)
      BY <2>1 DEF StatusMatters, Matters, Pending, Sending, NoCall
    <2> QED
      BY <2>2 DEF WebInit, LoadAwaited, LoginAwaited
  <1>2. WebInv /\ LoadAwaited /\ LoginAwaited /\ [WebNext]_webVars => (LoadAwaited /\ LoginAwaited)'
    BY AwaitedStep
  <1> QED
    BY <1>1, <1>2, WebInvariance, PTL DEF WebSpec

=============================================================================

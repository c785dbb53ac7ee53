----------------------------- MODULE AdminToken -----------------------------
(***************************************************************************)
(* The tokens of the monitor: login, validate, refresh and logout of       *)
(* http_server.go over jwt.go, as the pages app.js and login.html use      *)
(* them.  The server keeps no state for a token and its secret is a        *)
(* constant, so that a token is its expiry time, and outlives a restart.   *)
(*                                                                         *)
(* The browser keeps a token in localStorage and one in a cookie; each tab *)
(* has the one it was loaded with.  A fetch is sent with what the page     *)
(* holds, the server answers it later, the head of the answer sets the     *)
(* cookie and the script goes on after that; in between other tabs and the *)
(* clock move.  A fetch may fail at any time, so that a refusal needs no   *)
(* step of its own.  Time is counted in seconds, like the claims.          *)
(***************************************************************************)
EXTENDS Integers

CONSTANTS
  Tab,           \* tabs of the browser
  TokenExpire,   \* tokenExpire, 24 hours
  MaxTime        \* bound: the clock

ASSUME TokenAssumption == TokenExpire \in Nat /\ MaxTime \in Nat

\* A tab loads "/" ("load"), awaits validate and refresh ("validating",
\* "asking"), has a new token in the cookie ("granted"), shows the monitor
\* ("in") and awaits the answer to logout ("leaving", "left").  Or it loads
\* login.html ("login"), awaits validate and refresh ("checking",
\* "resuming") and stays ("prompt"); awaits the answer to the password
\* ("entering"); has a new token in the cookie ("admitted").
Page ==
  {"closed", "load", "validating", "asking", "granted", "in", "leaving", "left",
   "login", "checking", "resuming", "prompt", "entering", "admitted"}

VARIABLES
  clock,
  page,    \* what a tab shows
  held,    \* the token a tab sends, 0 for none
  answer,  \* the token in the answer a tab is about to get, 0 for none
  stored,  \* localStorage
  cookie   \* the cookie authCookieName

tokenVars == <<clock, page, held, answer, stored, cookie>>

TokenInit ==
  /\ clock = 0
  /\ page = [t \in Tab |-> "closed"]
  /\ held = [t \in Tab |-> 0]
  /\ answer = [t \in Tab |-> 0]
  /\ stored = 0
  /\ cookie = 0

\* The tab goes on with token h in hand and answer a under way.
Show(t, p, h, a) ==
  /\ page' = [page EXCEPT ![t] = p]
  /\ held' = [held EXCEPT ![t] = h]
  /\ answer' = [answer EXCEPT ![t] = a]

-----------------------------------------------------------------------------
(* The server.                                                             *)

\* jwt.Parse accepts a token before its expiry.
ValidateToken(e) == clock < e

\* Variant: a token is renewed for what it says, expired or not.
RefreshToken_Expired(e) == e # 0

\* parseClaims is as strict as ValidateToken.
RefreshToken(e) == ValidateToken(e)

GenerateToken == clock + TokenExpire

Answer(t, e) ==
  /\ answer[t] = 0
  /\ answer' = [answer EXCEPT ![t] = e]
  /\ UNCHANGED <<clock, page, held, stored, cookie>>

Validate(t) ==
  /\ page[t] \in {"validating", "checking"}
  /\ ValidateToken(held[t])
  /\ Answer(t, held[t])

Refresh(t) ==
  /\ page[t] \in {"asking", "resuming"}
  /\ RefreshToken(held[t])
  /\ Answer(t, GenerateToken)

\* The password is right.  With it what restoreIfLoggedIn still waits for is
\* dropped: whichever of the two answers is first takes the page away.
Login(t) ==
  /\ page[t] \in {"login", "checking", "resuming", "prompt"}
  /\ Show(t, "entering", 0, GenerateToken)
  /\ UNCHANGED <<clock, stored, cookie>>

-----------------------------------------------------------------------------
(* app.js.                                                                 *)

\* restoreAuthState: the stored token is to be validated, or refresh is
\* asked with the cookie.
RestoreAuthState(t) ==
  /\ page[t] = "load"
  /\ IF stored # 0 THEN Show(t, "validating", stored, 0)
                   ELSE Show(t, "asking", cookie, 0)
  /\ UNCHANGED <<clock, stored, cookie>>

\* The token is valid, or refresh is asked with the same.
Validated(t) ==
  /\ page[t] = "validating"
  /\ \/ answer[t] # 0 /\ Show(t, "in", held[t], 0)
     \/ Show(t, "asking", held[t], 0)
  /\ UNCHANGED <<clock, stored, cookie>>

\* setAuthCookie of an answer to refresh or login takes effect.
SetCookie(t) ==
  /\ page[t] \in {"asking", "resuming", "entering"} /\ answer[t] # 0
  /\ cookie' = answer[t]
  /\ Show(t, IF page[t] = "asking" THEN "granted" ELSE "admitted", 0, answer[t])
  /\ UNCHANGED <<clock, stored>>

\* The new token is read from the answer's body.
Refreshed(t) ==
  /\ page[t] = "granted"
  /\ stored' = answer[t]
  /\ Show(t, "in", answer[t], 0)
  /\ UNCHANGED <<clock, cookie>>

\* Neither fetch gave one: off to the login page.
NotRestored(t) ==
  /\ page[t] \in {"asking", "granted"}
  /\ stored' = 0
  /\ Show(t, "login", 0, 0)
  /\ UNCHANGED <<clock, cookie>>

Logout(t) ==
  /\ page[t] = "in"
  /\ Show(t, "leaving", held[t], 0)
  /\ UNCHANGED <<clock, stored, cookie>>

\* handleLogout, whose answer clears the cookie.
ClearCookie(t) ==
  /\ page[t] = "leaving"
  /\ cookie' = 0
  /\ Show(t, "left", 0, 0)
  /\ UNCHANGED <<clock, stored>>

\* The end of logout, with an answer or for want of one.
LoggedOut(t) ==
  /\ page[t] \in {"leaving", "left"}
  /\ stored' = 0
  /\ Show(t, "login", 0, 0)
  /\ UNCHANGED <<clock, cookie>>

\* updateAdminPassword of the page, when the server has answered that the
\* password is updated.  The login page is opened a little later.
Updated(t) ==
  /\ page[t] = "in"
  /\ stored' = 0
  /\ UNCHANGED <<clock, page, held, answer, cookie>>

-----------------------------------------------------------------------------
(* login.html.                                                             *)

\* restoreIfLoggedIn.
RestoreIfLoggedIn(t) ==
  /\ page[t] = "login"
  /\ IF stored # 0 THEN Show(t, "checking", stored, 0)
                   ELSE Show(t, "resuming", cookie, 0)
  /\ UNCHANGED <<clock, stored, cookie>>

\* A valid stored token leads to "/"; otherwise refresh is asked with the
\* cookie.
Checked(t) ==
  /\ page[t] = "checking"
  /\ \/ answer[t] # 0 /\ Show(t, "load", 0, 0)
     \/ Show(t, "resuming", cookie, 0)
  /\ UNCHANGED <<clock, stored, cookie>>

\* The new token is read from the body of the answer to refresh or login.
Admitted(t) ==
  /\ page[t] = "admitted"
  /\ stored' = answer[t]
  /\ Show(t, "load", 0, 0)
  /\ UNCHANGED <<clock, cookie>>

NotAdmitted(t) ==
  /\ page[t] \in {"resuming", "entering", "admitted"}
  /\ Show(t, "prompt", 0, 0)
  /\ UNCHANGED <<clock, stored, cookie>>

-----------------------------------------------------------------------------
\* A tab is opened, loaded again or sent to the other page; what it was
\* waiting for does not arrive.
OpenTab(t) ==
  /\ \E p \in {"load", "login"} : Show(t, p, 0, 0)
  /\ UNCHANGED <<clock, stored, cookie>>

CloseTab(t) ==
  /\ page[t] # "closed"
  /\ Show(t, "closed", 0, 0)
  /\ UNCHANGED <<clock, stored, cookie>>

Second ==
  /\ clock < MaxTime
  /\ clock' = clock + 1
  /\ UNCHANGED <<page, held, answer, stored, cookie>>

\* What the process does for a tab, and what the browser does by itself.
Serve(t) == Validate(t) \/ Refresh(t) \/ Login(t) \/ ClearCookie(t)

Browse(t) ==
  \/ RestoreAuthState(t) \/ Validated(t) \/ SetCookie(t) \/ Refreshed(t)
  \/ NotRestored(t) \/ Logout(t) \/ LoggedOut(t)
  \/ RestoreIfLoggedIn(t) \/ Checked(t) \/ Admitted(t) \/ NotAdmitted(t)
  \/ OpenTab(t) \/ CloseTab(t)

\* withAuth: some tab has a token to send that is valid.
Authorized == \E t \in Tab : page[t] = "in" /\ ValidateToken(held[t])

-----------------------------------------------------------------------------
\* The clock, the tabs and the tokens.
TokenTypeOK ==
  /\ clock \in Nat /\ stored \in Nat /\ cookie \in Nat
  /\ page \in [Tab -> Page]
  /\ held \in [Tab -> Nat] /\ answer \in [Tab -> Nat]

\* Pages that start and may still keep or renew the token they have read or
\* are about to get.
Starting == {"validating", "asking", "granted", "resuming", "entering", "admitted"}

\* The tokens with which a page can be or is being started.
Kept ==
  {stored, cookie}
    \cup UNION {{held[t], answer[t]} : t \in {u \in Tab : page[u] \in Starting}}

SignedOut == \A e \in Kept : ~ValidateToken(e)

\* Once a browser keeps no valid token and none is in use or on its way to a
\* page that starts, as after a logout that was answered or after a day, it
\* is signed out until somebody gives the password: no page that starts, and
\* no other tab still open with a token of its own, brings the session back,
\* however late the answers to validate, refresh and logout are.
OnlyPasswordSignsIn ==
  [][SignedOut => SignedOut' \/ \E t \in Tab : Login(t)]_tokenVars

=============================================================================

--------------------------- MODULE BrowserSession ---------------------------
(***************************************************************************)
(* AuthProvider of the web application: the session token in localStorage, *)
(* the one in the state of the page, and the requests me(), login and      *)
(* logout that change both when they are answered.                         *)
(*                                                                         *)
(* Each change of the token starts a me() and cancels the one before; a    *)
(* cancelled me() that fails still empties localStorage.                   *)
(***************************************************************************)
EXTENDS Naturals, FiniteSets

CONSTANTS
    Tokens,      \* session tokens the server may issue
    MaxRequests, \* bound: requests of the page
    NoToken

ASSUME TokenAssumption == NoToken \notin Tokens /\ MaxRequests \in Nat \ {0}

VARIABLES
    storedToken, \* localStorage
    sessionToken,\* the state of the page
    signedInAs,  \* user: the token whose user is shown
    cookie,      \* the session cookie, which me() tells the page of
    issued,      \* tokens the server has issued
    asking,      \* requests: number, kind, token, cancelled
    sent,        \* how many were sent
    lostLate     \* history: a cancelled me() has failed since the last reload

browserVars == <<storedToken, sessionToken, signedInAs, cookie, issued, asking, sent, lostLate>>

AnyToken == Tokens \union {NoToken}

BrowserTypeOK ==
    /\ storedToken \in AnyToken /\ sessionToken \in AnyToken
    /\ signedInAs \in AnyToken /\ cookie \in AnyToken /\ issued \subseteq Tokens
    /\ sent \in 0 .. MaxRequests
    /\ asking \subseteq [number : 1 .. MaxRequests, kind : {"me", "login", "logout"},
                         token : AnyToken, cancelled : BOOLEAN]
    /\ lostLate \in BOOLEAN

Request(n, kind, t) == [number |-> n, kind |-> kind, token |-> t, cancelled |-> FALSE]
Cancelled(requests) ==
    {[x EXCEPT !.cancelled = x.cancelled \/ x.kind = "me"] : x \in requests}

\* The page is opened with the token that an earlier visit has stored.
BrowserInit ==
    /\ storedToken \in AnyToken /\ sessionToken = storedToken
    /\ signedInAs = NoToken /\ cookie \in AnyToken
    /\ issued = {storedToken, cookie} \ {NoToken}
    /\ asking = {Request(1, "me", storedToken)} /\ sent = 1
    /\ lostLate = FALSE

-----------------------------------------------------------------------------
\* setSessionToken: a change re-runs the effect.
SetToken(t, others) ==
    /\ sessionToken' = t
    /\ IF t = sessionToken THEN asking' = others /\ UNCHANGED sent
       ELSE /\ sent < MaxRequests /\ sent' = sent + 1
            /\ asking' = Cancelled(others) \union {Request(sent + 1, "me", t)}

\* me() names the session the server found, by header or by cookie; another
\* than the page has is stored.
MeAnswers(x) ==
    /\ x.kind = "me"
    /\ IF x.cancelled
       THEN /\ asking' = asking \ {x}
            /\ UNCHANGED <<storedToken, sessionToken, signedInAs, sent>>
       ELSE LET t == IF x.token = NoToken THEN cookie ELSE x.token
            IN  /\ t # NoToken
                /\ signedInAs' = t
                /\ storedToken' = IF t = sessionToken THEN storedToken ELSE t
                /\ SetToken(t, asking \ {x})
    /\ UNCHANGED <<cookie, issued, lostLate>>

\* Refused, or not reached: localStorage is emptied before the test.
MeFails(x) ==
    /\ x.kind = "me"
    /\ storedToken' = NoToken
    /\ IF x.cancelled
       THEN /\ asking' = asking \ {x} /\ lostLate' = TRUE
            /\ UNCHANGED <<sessionToken, signedInAs, sent>>
       ELSE /\ SetToken(NoToken, asking \ {x})
            /\ signedInAs' = NoToken /\ UNCHANGED lostLate
    /\ UNCHANGED <<cookie, issued>>

\* connectionTick: another client, and so another me().
ConnectionChanged ==
    /\ sent < MaxRequests /\ sent' = sent + 1
    /\ asking' = Cancelled(asking) \union {Request(sent + 1, "me", sessionToken)}
    /\ UNCHANGED <<storedToken, sessionToken, signedInAs, cookie, issued, lostLate>>

\* login and register.
SendLogin ==
    /\ sent < MaxRequests /\ sent' = sent + 1
    /\ asking' = asking \union {Request(sent + 1, "login", NoToken)}
    /\ UNCHANGED <<storedToken, sessionToken, signedInAs, cookie, issued, lostLate>>

\* applySession.
LoginAnswers(x, t) ==
    /\ x.kind = "login" /\ t \notin issued
    /\ issued' = issued \union {t} /\ cookie' = t
    /\ storedToken' = t /\ signedInAs' = t
    /\ SetToken(t, asking \ {x})
    /\ UNCHANGED lostLate

LoginFails(x) ==
    /\ x.kind = "login"
    /\ asking' = asking \ {x}
    /\ UNCHANGED <<storedToken, sessionToken, signedInAs, cookie, issued, sent, lostLate>>

SendLogout ==
    /\ signedInAs # NoToken
    /\ sent < MaxRequests /\ sent' = sent + 1
    /\ asking' = asking \union {Request(sent + 1, "logout", sessionToken)}
    /\ UNCHANGED <<storedToken, sessionToken, signedInAs, cookie, issued, lostLate>>

\* Answered or failed, the token is forgotten, be it a later one.
LogoutEnds(x) ==
    /\ x.kind = "logout"
    /\ cookie' \in {cookie, NoToken}
    /\ storedToken' = NoToken
    /\ SetToken(NoToken, asking \ {x})
    /\ signedInAs' = NoToken
    /\ UNCHANGED <<issued, lostLate>>

ReloadPage ==
    /\ sent < MaxRequests /\ sent' = sent + 1
    /\ sessionToken' = storedToken /\ signedInAs' = NoToken
    /\ asking' = {Request(sent + 1, "me", storedToken)}
    /\ lostLate' = FALSE
    /\ UNCHANGED <<storedToken, cookie, issued>>

BrowserNext ==
    \/ ConnectionChanged \/ SendLogin \/ SendLogout \/ ReloadPage
    \/ \E x \in asking :
        \/ MeAnswers(x) \/ MeFails(x) \/ LoginFails(x) \/ LogoutEnds(x)
        \/ \E t \in Tokens : LoginAnswers(x, t)

BrowserSpec == BrowserInit /\ [][BrowserNext]_browserVars

-----------------------------------------------------------------------------
\* A reload finds the session the page has: localStorage and the page agree on
\* the token, unless a me() that a later sign-in had cancelled failed after it.
ReloadKeepsSession == storedToken = sessionToken \/ lostLate

=============================================================================

---------------------------- MODULE SingleSignOn ----------------------------
(***************************************************************************)
(* Single sign-on of one browser: the link of the sign-in page (useAccount *)
(* Sso of Auth.tsx), GET /v1/auth/oidc/login and callback, and the one     *)
(* cookie otv_oidc that carries state, verifier and expiry from the first  *)
(* to the second (lib/oidc.ts).  A person may sign in from several tabs;   *)
(* each keeps its state in that same cookie.  What the callback then does  *)
(* to the accounts is SignIn's; the provider is external.                  *)
(***************************************************************************)
EXTENDS Naturals

CONSTANTS
    Attempts,     \* pages from which the person signs in, once each
    NoAttempt,
    MaxTroubles   \* bound: calls that fail, pages that are reloaded

ASSUME AttemptAssumption == NoAttempt \notin Attempts /\ MaxTroubles \in Nat

VARIABLES
    enabled,    \* the server has OIDC_ISSUER and OIDC_CLIENT_ID
    hosted,     \* the page talks to the hosted server
    offer,      \* the link each page shows
    leg,        \* how far each attempt has come
    jar,        \* the attempt whose state otv_oidc holds
    carried,    \* what otv_oidc held when the callback was sent
    late,       \* attempts older than ten minutes
    spent,      \* attempts whose code has been exchanged
    displaced,  \* history: attempts at the provider when otv_oidc was taken
    denied,     \* history: attempts turned down by the provider, or in trouble
    troubles

ssoVars == <<enabled, hosted, offer, leg, jar, carried, late, spent,
             displaced, denied, troubles>>

Underway == {"provider", "returning", "checked", "exchanged"}
Over == {"in", "refused", "unconfigured", "unavailable", "elsewhere"}
Legs == {"page", "asked"} \union Underway \union Over

SsoTypeOK ==
    /\ enabled \in BOOLEAN /\ hosted \in BOOLEAN
    /\ offer \in [Attempts -> {"unread", "none", "here", "elsewhere"}]
    /\ leg \in [Attempts -> Legs]
    /\ jar \in Attempts \union {NoAttempt}
    /\ carried \in [Attempts -> Attempts \union {NoAttempt}]
    /\ late \subseteq Attempts /\ spent \subseteq Attempts
    /\ displaced \subseteq Attempts /\ denied \subseteq Attempts
    /\ troubles \in 0 .. MaxTroubles

SsoInit ==
    /\ enabled \in BOOLEAN /\ hosted \in BOOLEAN
    /\ offer = [a \in Attempts |-> "unread"]
    /\ leg = [a \in Attempts |-> "page"]
    /\ jar = NoAttempt
    /\ carried = [a \in Attempts |-> NoAttempt]
    /\ late = {} /\ spent = {} /\ displaced = {} /\ denied = {}
    /\ troubles = 0

-----------------------------------------------------------------------------
Reach(a, l) == leg' = [leg EXCEPT ![a] = l]
Trouble == troubles < MaxTroubles /\ troubles' = troubles + 1
Setting == <<enabled, hosted>>
Rest == <<Setting, offer, troubles>>

\* The page asks its server, and when that has no single sign-on, or does not
\* answer, the hosted one.  A hosted server that does not answer is offered.
OfferLink(a) ==
    /\ leg[a] = "page" /\ offer[a] = "unread"
    /\ \E link \in {"none", "here", "elsewhere"} :
         /\ offer' = [offer EXCEPT ![a] = link]
         /\ \/ enabled /\ link = "here" /\ UNCHANGED troubles
            \/ ~enabled /\ link = "none" /\ hosted /\ UNCHANGED troubles
            \/ ~enabled /\ link # "here" /\ ~hosted /\ UNCHANGED troubles
            \/ Trouble /\ IF hosted THEN link = "here" ELSE link # "here"
    /\ UNCHANGED <<Setting, leg, jar, carried, late, spent, displaced, denied>>

\* The link is followed.  The login handler answers 501, or makes a state and a
\* verifier that are good for ten minutes and reads the provider's endpoints.
GoToLogin(a) ==
    /\ leg[a] = "page"
    /\ \/ offer[a] = "here" /\ Reach(a, IF enabled THEN "asked" ELSE "unconfigured")
       \/ offer[a] = "elsewhere" /\ Reach(a, "elsewhere")
    /\ UNCHANGED <<Rest, jar, carried, late, spent, displaced, denied>>

\* Ten minutes have passed since the state was made.
Expire(a) ==
    /\ leg[a] \in {"asked"} \union Underway /\ a \notin late
    /\ late' = late \union {a}
    /\ UNCHANGED <<Rest, leg, jar, carried, spent, displaced, denied>>

\* The attempts that still need the cookie of the jar.
Waiting == {a \in Attempts : a = jar /\ leg[a] = "provider"}

\* The redirect arrives with its cookie, which takes the place of another's: the
\* answers of two logins arrive in any order.
LoginAnswered(a) ==
    /\ leg[a] = "asked"
    /\ jar' = a
    /\ displaced' = displaced \union Waiting
    /\ Reach(a, "provider")
    /\ UNCHANGED <<Rest, carried, late, spent, denied>>

\* No endpoints: 502.
NoEndpoints(a) ==
    /\ leg[a] = "asked" /\ Trouble
    /\ Reach(a, "unavailable")
    /\ UNCHANGED <<Setting, offer, jar, carried, late, spent, displaced, denied>>

\* The person signs in at the provider, which sends the browser to the callback
\* with a code; the browser adds the cookie it has by then.
Authenticate(a) ==
    /\ leg[a] = "provider"
    /\ carried' = [carried EXCEPT ![a] = jar]
    /\ Reach(a, "returning")
    /\ UNCHANGED <<Rest, jar, late, spent, displaced, denied>>

\* The provider returns an error, or the person gives up there.
ProviderDenies(a) ==
    /\ leg[a] = "provider"
    /\ denied' = denied \union {a}
    /\ Reach(a, "refused")
    /\ UNCHANGED <<Rest, jar, carried, late, spent, displaced>>

-----------------------------------------------------------------------------
Recognised(a) == carried[a] = a /\ a \notin late

\* A bug to try: a callback that is refused clears the cookie.
CheckStateOrClear(a) ==
    /\ leg[a] = "returning"
    /\ Reach(a, IF Recognised(a) THEN "checked" ELSE "refused")
    /\ jar' = IF Recognised(a) THEN jar ELSE NoAttempt
    /\ UNCHANGED <<Rest, carried, late, spent, displaced, denied>>

\* parseOidcCookie, and the state of the query against the cookie's.
CheckState(a) ==
    /\ leg[a] = "returning"
    /\ Reach(a, IF Recognised(a) THEN "checked" ELSE "refused")
    /\ UNCHANGED <<Rest, jar, carried, late, spent, displaced, denied>>

\* The provider takes a code once, with the verifier of its state.
ExchangeCode(a) ==
    /\ leg[a] = "checked"
    /\ IF a \in spent
       THEN Reach(a, "refused") /\ UNCHANGED spent
       ELSE Reach(a, "exchanged") /\ spent' = spent \union {a}
    /\ UNCHANGED <<Rest, jar, carried, late, displaced, denied>>

\* The endpoints, the exchange, the e-mail address or the account fails; or the
\* audit, when the answer already sets the session and clears the cookie.
CallbackFails(a) ==
    /\ leg[a] \in {"checked", "exchanged"} /\ Trouble
    /\ \/ spent' \in {spent, spent \union {a}} /\ UNCHANGED <<jar, displaced>>
       \/ /\ leg[a] = "exchanged" /\ jar' = NoAttempt
          /\ displaced' = displaced \union Waiting
          /\ UNCHANGED spent
    /\ denied' = denied \union {a}
    /\ Reach(a, "refused")
    /\ UNCHANGED <<Setting, offer, carried, late>>

\* The session is set, and otv_oidc cleared, whosever it is by now.
CallbackAnswered(a) ==
    /\ leg[a] = "exchanged"
    /\ jar' = NoAttempt
    /\ displaced' = displaced \union Waiting
    /\ Reach(a, "in")
    /\ UNCHANGED <<Rest, carried, late, spent, denied>>

\* The person reloads while the callback is answered: it is sent again, and the
\* answer of the first, which may have exchanged the code, goes nowhere.
SendAgain(a) ==
    /\ leg[a] \in {"returning", "checked", "exchanged"} /\ Trouble
    /\ carried' = [carried EXCEPT ![a] = jar]
    /\ spent' \in {spent, spent \union {a}}
    /\ denied' = denied \union {a}
    /\ Reach(a, "returning")
    /\ UNCHANGED <<Setting, offer, jar, late, displaced>>

SsoNext ==
    \E a \in Attempts :
        \/ OfferLink(a) \/ GoToLogin(a) \/ Expire(a)
        \/ LoginAnswered(a) \/ NoEndpoints(a)
        \/ Authenticate(a) \/ ProviderDenies(a)
        \/ CheckState(a) \/ ExchangeCode(a) \/ CallbackFails(a)
        \/ CallbackAnswered(a) \/ SendAgain(a)

SsoSpec == SsoInit /\ [][SsoNext]_ssoVars

-----------------------------------------------------------------------------
(* Properties.                                                             *)

\* A sign-in ends on the error page only if ten minutes have passed, the provider
\* or a call failed it, it was sent twice, or another sign-in of the browser took
\* or cleared the cookie while its person was at the provider.
RefusedForCause ==
    \A a \in Attempts : leg[a] = "refused" => a \in late \union denied \union displaced

\* Attempts spoil each other's cookie, but not everybody's: when all are over,
\* and none was late, denied or in trouble, one that came back has signed in.
SomeoneGetsIn ==
    /\ \A a \in Attempts : leg[a] \in Over
    /\ \E a \in Attempts : leg[a] = "refused"
    /\ late = {} /\ denied = {}
    => \E a \in Attempts : leg[a] = "in"

\* A link leads to a server without single sign-on only if that server had not
\* answered whether it has it.
OfferedIsConfigured ==
    \A a \in Attempts : leg[a] = "unconfigured" => troubles > 0 /\ hosted

SignOnStands == RefusedForCause /\ SomeoneGetsIn /\ OfferedIsConfigured

=============================================================================

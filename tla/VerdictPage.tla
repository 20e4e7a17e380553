---------------------------- MODULE VerdictPage ----------------------------
(***************************************************************************)
(* The public verifier (pages/Verifier.tsx): a verdict is looked up by a   *)
(* link, by the form, or is the answer to a claim, and its signature is    *)
(* then checked by a second request.  The page shows the verdict at once   *)
(* and the outcome of the check when it comes; nothing is cancelled, and a *)
(* link is followed while the form's request is under way.                 *)
(***************************************************************************)
EXTENDS Naturals

CONSTANTS
    Verdicts,    \* what the API stores
    NoVerdict,
    MaxLookups   \* bound: lookups and claims

ASSUME LookupsAssumption == NoVerdict \notin Verdicts /\ MaxLookups \in Nat

VARIABLES
    verdictShown, \* the verdict on the page
    sigValid,     \* the verdict whose signature's validity is on the page
    lookups,      \* requests under way, with the step they wait for
    lookedUp,     \* how many there were
    loading,      \* the form's button
    notice,       \* an error is shown
    unsure        \* history: why the check shown may be another verdict's

pageVars == <<verdictShown, sigValid, lookups, lookedUp, loading, notice, unsure>>

Origins == {"link", "form"}
Reasons == {"overlap", "link failed"}
ShownVerdict == Verdicts \union {NoVerdict}

PageTypeOK ==
    /\ verdictShown \in ShownVerdict /\ sigValid \in ShownVerdict
    /\ lookups \subseteq [n : 1 .. MaxLookups, by : Origins, id : Verdicts,
                          waits : {"verdict", "check"}]
    /\ lookedUp \in 0 .. MaxLookups
    /\ loading \in BOOLEAN /\ notice \in BOOLEAN /\ unsure \subseteq Reasons

PageInit ==
    /\ verdictShown = NoVerdict /\ sigValid = NoVerdict
    /\ lookups = {} /\ lookedUp = 0
    /\ loading = FALSE /\ notice = FALSE /\ unsure = {}

-----------------------------------------------------------------------------
AskFor(v, origin) ==
    /\ lookedUp < MaxLookups
    /\ lookedUp' = lookedUp + 1
    /\ lookups' = lookups \union
                    {[n |-> lookedUp + 1, by |-> origin, id |-> v, waits |-> "verdict"]}
    /\ unsure' = unsure \union {r \in {"overlap"} : lookups # {}}
    /\ UNCHANGED <<verdictShown, sigValid>>

\* /verifier?id=...: the effect touches neither the button nor an old error.
FollowLink(v) == AskFor(v, "link") /\ UNCHANGED <<loading, notice>>

\* A lookup or a claim, from a form whose button waits for the last one.
SubmitForm(v) ==
    /\ ~loading /\ loading' = TRUE /\ notice' = FALSE
    /\ AskFor(v, "form")

\* showVerdict: shown before its signature has been checked.
ShowVerdict(x) ==
    /\ x.waits = "verdict"
    /\ verdictShown' = x.id
    /\ lookups' = (lookups \ {x}) \union {[x EXCEPT !.waits = "check"]}
    /\ UNCHANGED <<sigValid, lookedUp, loading, notice, unsure>>

Finished(x) == lookups' = lookups \ {x} /\ loading' = (loading /\ x.by # "form")

ShowCheck(x) ==
    /\ x.waits = "check"
    /\ sigValid' = x.id
    /\ Finished(x)
    /\ UNCHANGED <<verdictShown, lookedUp, notice, unsure>>

\* A bug to try: a failed check leaves the verdict of the form on the page.
KeptAfterFailure(x) == verdictShown

\* The form takes the verdict down; the link's handler only shows the error.
LeftAfterFailure(x) == IF x.by = "form" THEN NoVerdict ELSE verdictShown

Fail(x) ==
    /\ notice' = TRUE
    /\ verdictShown' = LeftAfterFailure(x)
    /\ Finished(x)
    /\ unsure' = unsure \union
                   {r \in {"link failed"} : x.by = "link" /\ x.waits = "check"}
    /\ UNCHANGED <<sigValid, lookedUp>>

PageNext ==
    \/ \E v \in Verdicts : FollowLink(v) \/ SubmitForm(v)
    \/ \E x \in lookups : ShowVerdict(x) \/ ShowCheck(x) \/ Fail(x)

PageSpec == PageInit /\ [][PageNext]_pageVars

-----------------------------------------------------------------------------
\* Once everything is answered, "signature valid" on the page is about the
\* verdict on the page, unless requests overlapped or the check of a followed link failed;
\* and no button waits for an answer that is not coming.
SignatureIsOfVerdict ==
    /\ lookups = {} /\ unsure = {} /\ verdictShown # NoVerdict => sigValid = verdictShown
    /\ loading => \E x \in lookups : x.by = "form"

=============================================================================

--------------------------- MODULE DashboardReads ---------------------------
(***************************************************************************)
(* The pages of the console that show what the API answers                 *)
(* (pages/Dashboard.tsx, pages/Admin.tsx).  A page reads when it is opened  *)
(* and whenever the connection (the `client` of useAuth) changes; three     *)
(* also create things and read again, with the client and the search of    *)
(* the click.  Three drop the answers of an effect that has been cleaned    *)
(* up, the others show whatever answers last.                              *)
(*                                                                         *)
(* Things are numbered as the API makes them.  A list read at the moment    *)
(* of the thing numbered `seen` holds, of those up to it, its connection's  *)
(* own, and of these only the matching ones when the search is not empty.  *)
(***************************************************************************)
EXTENDS Naturals

CONSTANTS
    MaxReads,    \* bound: reads asked for
    MaxClients,  \* bound: connections
    MaxMade      \* bound: clicks that create

ASSUME ReadsAssumption ==
    MaxReads \in Nat \ {0} /\ MaxClients \in Nat \ {0} /\ MaxMade \in Nat

\* Effects whose cleanup sets `cancelled`.
Cancelling == {"overview", "monitoring", "connection"}
\* Pages that create: a claim, an API key, a webhook.
Creating == {"verifications", "keys", "webhooks"}
ReadPages ==
    Cancelling \union Creating \union {"hub", "analytics", "security", "billing", "audit"}
\* An empty search lists everything (listVerdicts).
Queries == {"all", "matching"}

VARIABLES
    readPage,  \* the page on screen
    client,    \* the connection, numbered
    query,     \* what the search field asks for
    clicks,    \* creations clicked so far
    made,      \* things created so far
    creating,  \* creations not answered, with the client and the search of the
               \* click, and the thing once made
    reads,     \* reads not answered, `again` those that follow a creation
    numbered,  \* reads asked for so far
    refused,   \* the newest read that was refused
    onScreen,  \* the read whose answer the page shows, and what it contains
    told,      \* history: the newest thing whose creation has been answered
    mixedUp    \* history: an answer has replaced that of a later read
               \* ("overtaken"); the last read is a former connection's ("former")

readVars == <<readPage, client, query, clicks, made, creating, reads, numbered, refused,
              onScreen, told, mixedUp>>

Blank == [n |-> 0, of |-> 1, what |-> "all", seen |-> 0]

ReadsTypeOK ==
    /\ readPage \in ReadPages /\ client \in 1 .. MaxClients /\ query \in Queries
    /\ clicks \in 0 .. MaxMade /\ made \in 0 .. MaxMade
    /\ creating \subseteq [click : 1 .. MaxMade, of : 1 .. MaxClients, what : Queries,
                           thing : 0 .. MaxMade]
    /\ reads \subseteq [n : 1 .. MaxReads, of : 1 .. MaxClients, what : Queries,
                        from : 0 .. MaxMade, again : BOOLEAN, cancelled : BOOLEAN]
    /\ numbered \in 0 .. MaxReads /\ refused \in 0 .. MaxReads
    /\ onScreen \in [n : 0 .. MaxReads, of : 1 .. MaxClients, what : Queries,
                     seen : 0 .. MaxMade]
    /\ told \in 0 .. MaxMade /\ mixedUp \subseteq {"overtaken", "former"}

\* A read by connection c, which the API may answer from now on.
Read(c, what, again) ==
    [n |-> numbered + 1, of |-> c, what |-> what, from |-> made, again |-> again,
     cancelled |-> FALSE]

ReadsInit ==
    /\ readPage \in ReadPages /\ client = 1 /\ query = "all"
    /\ clicks = 0 /\ made = 0 /\ creating = {}
    /\ numbered = 1 /\ refused = 0
    /\ reads = {[n |-> 1, of |-> 1, what |-> "all", from |-> 0, again |-> FALSE,
                 cancelled |-> FALSE]}
    /\ onScreen = Blank /\ told = 0 /\ mixedUp = {}

-----------------------------------------------------------------------------
\* A bug to try: the effect has no cleanup.
NoCleanup == reads

\* The cleanup of the effect, before it runs again.
Cleanup ==
    {IF readPage \in Cancelling THEN [r EXCEPT !.cancelled = TRUE] ELSE r : r \in reads}

\* A new session or a new API address: another client, and the effect again.
Reconnect ==
    /\ client < MaxClients /\ numbered < MaxReads
    /\ client' = client + 1 /\ numbered' = numbered + 1
    /\ reads' = Cleanup \union {Read(client', "all", FALSE)}
    /\ mixedUp' = mixedUp \ {"former"}
    /\ UNCHANGED <<readPage, query, clicks, made, creating, refused, onScreen, told>>

\* The answer of a read: the list as it was at some moment since.
ReadAnswered(r, seen) ==
    /\ reads' = reads \ {r}
    /\ IF r.cancelled THEN UNCHANGED <<onScreen, mixedUp>>
       ELSE /\ onScreen' = [n |-> r.n, of |-> r.of, what |-> r.what, seen |-> seen]
            /\ mixedUp' = mixedUp \union {h \in {"overtaken"} : r.n < onScreen.n}
    /\ UNCHANGED <<readPage, client, query, clicks, made, creating, numbered, refused, told>>

\* An error is put beside what was there.
ReadRefused(r) ==
    /\ reads' = reads \ {r}
    /\ refused' = IF r.n > refused THEN r.n ELSE refused
    /\ UNCHANGED <<readPage, client, query, clicks, made, creating, numbered, onScreen, told,
                   mixedUp>>

TypeQuery ==
    /\ readPage = "verifications" /\ query' \in Queries \ {query}
    /\ UNCHANGED <<readPage, client, clicks, made, creating, reads, numbered, refused,
                   onScreen, told, mixedUp>>

\* The search of the verifications: another read, which cancels none.
Search ==
    /\ readPage = "verifications" /\ numbered < MaxReads
    /\ numbered' = numbered + 1
    /\ reads' = reads \union {Read(client, query, FALSE)}
    /\ mixedUp' = mixedUp \ {"former"}
    /\ UNCHANGED <<readPage, client, query, clicks, made, creating, refused, onScreen, told>>

-----------------------------------------------------------------------------
\* The button of a claim is disabled until the list has been read again; those of
\* a key and of a webhook never are.
Loading ==
    readPage = "verifications" /\ (creating # {} \/ \E r \in reads : r.again)

Create ==
    /\ readPage \in Creating /\ ~Loading /\ clicks < MaxMade
    /\ clicks' = clicks + 1
    /\ creating' = creating \union
                   {[click |-> clicks', of |-> client, what |-> query, thing |-> 0]}
    /\ UNCHANGED <<readPage, client, query, made, reads, numbered, refused, onScreen, told,
                   mixedUp>>

\* The API creates it ...
Made(c) ==
    /\ c.thing = 0 /\ made < MaxMade
    /\ made' = made + 1
    /\ creating' = (creating \ {c}) \union {[c EXCEPT !.thing = made']}
    /\ UNCHANGED <<readPage, client, query, clicks, reads, numbered, refused, onScreen, told,
                   mixedUp>>

\* ... answers, and the page reads again with the client and the search of the click.
Created(c) ==
    /\ c.thing > 0 /\ numbered < MaxReads
    /\ creating' = creating \ {c} /\ numbered' = numbered + 1
    /\ reads' = reads \union {Read(c.of, c.what, TRUE)}
    /\ told' = IF c.thing > told THEN c.thing ELSE told
    /\ mixedUp' = (mixedUp \ {"former"}) \union {h \in {"former"} : c.of # client}
    /\ UNCHANGED <<readPage, client, query, clicks, made, refused, onScreen>>

CreationRefused(c) ==
    /\ creating' = creating \ {c}
    /\ UNCHANGED <<readPage, client, query, clicks, made, reads, numbered, refused, onScreen,
                   told, mixedUp>>

ReadsNext ==
    \/ Reconnect \/ TypeQuery \/ Search \/ Create
    \/ \E r \in reads : ReadRefused(r) \/ \E seen \in r.from .. made : ReadAnswered(r, seen)
    \/ \E c \in creating : Made(c) \/ Created(c) \/ CreationRefused(c)

ReadsSpec == ReadsInit /\ [][ReadsNext]_readVars

-----------------------------------------------------------------------------
\* When the answer on screen is that of the last read asked for, it is this
\* connection's, unless that read followed a creation clicked under a former one,
\* and it lists everything whose creation has been answered, unless it is a
\* search; when nothing is awaited it is that of the last read, unless that was
\* refused or overtaken by an earlier one, which no page that cancels allows.
LastAskedIsShown ==
    /\ onScreen.n = numbered => /\ "former" \in mixedUp \/ onScreen.of = client
                                /\ onScreen.what = "matching" \/ onScreen.seen >= told
    /\ reads = {} => onScreen.n = numbered \/ refused = numbered \/ "overtaken" \in mixedUp
    /\ readPage \in Cancelling => "overtaken" \notin mixedUp

=============================================================================

--------------------------- MODULE ProjectRecords ---------------------------
(***************************************************************************)
(* What the projects of an organization own, and what they are shown of    *)
(* it: verdicts, API keys and webhooks as the routes of app.ts have them   *)
(* stored, the lists, and the meters of usage and billing, over            *)
(* PostgresStore (statements on a pool) and over MemoryStore (Maps of one  *)
(* process).                                                               *)
(*                                                                         *)
(* A request is known by its name, and so is the row it stores.  The list  *)
(* of verdicts is ordered by the time of the check in Postgres and by the  *)
(* order of saving in memory; requests overlap, so the orders differ.      *)
(***************************************************************************)
EXTENDS Naturals, FiniteSets

CONSTANTS
    Asks,       \* requests, each sent once
    Projects,   \* projects of the organization
    Home,       \* its first project, the one a session stands for
    ListLimit,  \* how many verdicts a list shows (100 in app.ts)
    MaxLosses,  \* bound: statements that fail
    NoReply

ASSUME HomeAssumption == Home \in Projects
ASSUME AskAssumption == IsFiniteSet(Asks)
ASSUME LimitAssumption == ListLimit \in Nat \ {0} /\ MaxLosses \in Nat

VARIABLES
    backend,    \* which store the process was started with
    opened,     \* projects there are
    kind,       \* each request: what it stores ...
    project,    \* ... and for which project
    stage,      \* how far it has come
    checkedAt,  \* when the engine finished its verdict, 0 before
    storedAt,   \* when its row was stored, 0 before
    counted,    \* verdicts with a usage event
    told,       \* requests answered with what they stored
    shown,      \* the answer of a request that reads
    now, losses

projectVars == <<backend, opened, kind, project, stage, checkedAt, storedAt,
                 counted, told, shown, now, losses>>

Kinds == {"verdict", "key", "hook"}
Reads == Kinds \union {"usage", "billing", "one"}
Writing == {"request", "rows", "event", "commit", "insert"}
Stages == Writing \union {"new", "checking", "after", "done"}
Answers == [what : Reads, matching : SUBSET Asks, rows : SUBSET Asks]

ProjectTypeOK ==
    /\ backend \in {"postgres", "memory"}
    /\ opened \subseteq Projects /\ Home \in opened
    /\ kind \in [Asks -> Kinds \union {"none"}]
    /\ project \in [Asks -> Projects]
    /\ stage \in [Asks -> Stages]
    /\ checkedAt \in [Asks -> Nat] /\ storedAt \in [Asks -> Nat]
    /\ counted \subseteq Asks /\ told \subseteq Asks
    /\ shown \in [Asks -> Answers \union {NoReply}]
    /\ now \in Nat /\ losses \in 0 .. MaxLosses

\* The process starts on an organization that has projects, and no rows in them.
ProjectInit ==
    /\ backend \in {"postgres", "memory"}
    /\ opened \in {ps \in SUBSET Projects : Home \in ps}
    /\ kind = [c \in Asks |-> "none"]
    /\ project = [c \in Asks |-> Home]
    /\ stage = [c \in Asks |-> "new"]
    /\ checkedAt = [c \in Asks |-> 0] /\ storedAt = [c \in Asks |-> 0]
    /\ counted = {} /\ told = {}
    /\ shown = [c \in Asks |-> NoReply]
    /\ now = 0 /\ losses = 0

-----------------------------------------------------------------------------
Stored(k, p) == {v \in Asks : kind[v] = k /\ project[v] = p /\ storedAt[v] > 0}

\* resolveProject: a session stands for the oldest project of its organization,
\* an API key for the project it was made for.
Credentials == {Home} \union {p \in opened : Stored("key", p) # {}}

Go(c, s) == stage' = [stage EXCEPT ![c] = s]

\* POST /v1/projects, open to every caller.
OpenProject(c, p) ==
    /\ stage[c] = "new" /\ p \notin opened
    /\ opened' = opened \union {p}
    /\ Go(c, "done")
    /\ UNCHANGED <<backend, kind, project, checkedAt, storedAt, counted, told,
                   shown, now, losses>>

\* POST verify/incoming, api-keys (and rotate, which makes one more) and webhooks.
\* A key is made for the project its body names, or for the caller's own.
Ask(c, k, caller, p) ==
    /\ stage[c] = "new"
    /\ caller \in Credentials
    /\ p \in opened /\ (k # "key" => p = caller)
    /\ kind' = [kind EXCEPT ![c] = k]
    /\ project' = [project EXCEPT ![c] = p]
    /\ Go(c, IF k = "verdict" THEN "checking" ELSE "insert")
    /\ UNCHANGED <<backend, opened, checkedAt, storedAt, counted, told, shown,
                   now, losses>>

\* The engine is done, and dates the verdict.
Check(c) ==
    /\ stage[c] = "checking"
    /\ now' = now + 1
    /\ checkedAt' = [checkedAt EXCEPT ![c] = now + 1]
    /\ Go(c, "request")
    /\ UNCHANGED <<backend, opened, kind, project, storedAt, counted, told,
                   shown, losses>>

-----------------------------------------------------------------------------
\* The row is there for everyone to read.
Keep(c) ==
    /\ now' = now + 1
    /\ storedAt' = [storedAt EXCEPT ![c] = now + 1]

\* A bug to try: the usage event is no part of the transaction.
SaveStatementAlone(c) ==
    /\ backend = "postgres"
    /\ \/ stage[c] = "request" /\ Go(c, "rows") /\ UNCHANGED counted
       \/ stage[c] = "rows" /\ Go(c, "event") /\ UNCHANGED counted
       \/ stage[c] = "event" /\ Go(c, "commit") /\ counted' = counted \union {c}
    /\ UNCHANGED <<backend, opened, kind, project, checkedAt, storedAt, told,
                   shown, now, losses>>

\* PostgresStore.saveVerdict: BEGIN and the request; the verdict with its
\* evidence and signals; the usage event.  Nobody sees them before the COMMIT.
SaveStatement(c) ==
    /\ backend = "postgres"
    /\ \/ stage[c] = "request" /\ Go(c, "rows")
       \/ stage[c] = "rows" /\ Go(c, "event")
       \/ stage[c] = "event" /\ Go(c, "commit")
    /\ UNCHANGED <<backend, opened, kind, project, checkedAt, storedAt, counted,
                   told, shown, now, losses>>

\* MemoryStore.saveVerdict runs without a break, and so does a transaction's end.
SaveVerdict(c) ==
    /\ stage[c] = (IF backend = "postgres" THEN "commit" ELSE "request")
    /\ Keep(c)
    /\ counted' = counted \union {c}
    /\ Go(c, "after")
    /\ UNCHANGED <<backend, opened, kind, project, checkedAt, told, shown, losses>>

\* createApiKey and createWebhook: one statement, or one entry of a Map.
InsertRow(c) ==
    /\ stage[c] = "insert"
    /\ Keep(c)
    /\ Go(c, "after")
    /\ UNCHANGED <<backend, opened, kind, project, checkedAt, counted, told,
                   shown, losses>>

\* The announcement of a verdict, the audit of a key; then the answer.
Tell(c) ==
    /\ stage[c] = "after"
    /\ told' = told \union {c}
    /\ Go(c, "done")
    /\ UNCHANGED <<backend, opened, kind, project, checkedAt, storedAt, counted,
                   shown, now, losses>>

\* A statement fails: ROLLBACK where a transaction is open, and the caller has
\* an error.  After the row is stored only the key's audit and the verdict's
\* announcement are left to fail: the row stays, and nobody is told of it.
StatementLost(c) ==
    /\ losses < MaxLosses
    /\ \/ backend = "postgres" /\ stage[c] \in Writing
       \/ backend = "postgres" /\ stage[c] = "after" /\ kind[c] = "key"
       \/ stage[c] = "after" /\ kind[c] = "verdict"
    /\ losses' = losses + 1
    /\ Go(c, "done")
    /\ UNCHANGED <<backend, opened, kind, project, checkedAt, storedAt, counted,
                   told, shown, now>>

-----------------------------------------------------------------------------
\* ORDER BY checked_at DESC; the entries of the Map, reversed.
ListedBefore(w, v) ==
    IF backend = "postgres"
    THEN checkedAt[w] > checkedAt[v]
    ELSE storedAt[w] > storedAt[v]

\* The first ListLimit of them.
FirstOfList(vs) ==
    {v \in vs : Cardinality({w \in vs : ListedBefore(w, v)}) < ListLimit}

Show(c, p, what, matching, rows) ==
    /\ stage[c] = "new"
    /\ project' = [project EXCEPT ![c] = p]
    /\ shown' = [shown EXCEPT
         ![c] = [what |-> what, matching |-> matching, rows |-> rows]]
    /\ Go(c, "done")
    /\ UNCHANGED <<backend, opened, kind, checkedAt, storedAt, counted, told,
                   now, losses>>

\* GET /v1/verdicts, with the words searched for (in the id, the transaction and
\* the recipient): every verdict, or those they match.
ListVerdicts(c, p, matching) ==
    Show(c, p, "verdict", matching,
         FirstOfList(Stored("verdict", p) \intersect matching))

\* GET /v1/api-keys and /v1/webhooks.
ListRows(c, p, k) ==
    k \in {"key", "hook"} /\ Show(c, p, k, Asks, Stored(k, p))

\* GET /v1/verdicts/:id, of whatever project it is.
GetVerdict(c, v) ==
    Show(c, Home, "one", {v},
         {w \in {v} : kind[w] = "verdict" /\ storedAt[w] > 0})

\* SUM(quantity) of the events of a project; one counter for all in memory.
Counted(p) == {v \in counted : backend = "memory" \/ project[v] = p}

GetUsage(c, p) == Show(c, p, "usage", Asks, Counted(p))

\* The usage of one project of the organization: the SELECT asks for any.
GetBilling(c, p, q) == q \in opened /\ Show(c, p, "billing", Asks, Counted(q))

Consult(c) ==
    \/ \E p \in Credentials :
        \/ \E matching \in {Asks} \union {{v} : v \in Asks} : ListVerdicts(c, p, matching)
        \/ \E k \in Kinds : ListRows(c, p, k)
        \/ GetUsage(c, p)
        \/ \E q \in Projects : GetBilling(c, p, q)
    \/ \E v \in Asks : GetVerdict(c, v)

ProjectNext ==
    \E c \in Asks :
        \/ \E p \in Projects : OpenProject(c, p)
        \/ \E k \in Kinds, caller, p \in Projects : Ask(c, k, caller, p)
        \/ Check(c) \/ SaveStatement(c) \/ SaveVerdict(c) \/ InsertRow(c)
        \/ Tell(c) \/ StatementLost(c) \/ Consult(c)

ProjectSpec == ProjectInit /\ [][ProjectNext]_projectVars

-----------------------------------------------------------------------------
(* Properties.                                                             *)

\* Of two verdicts, the one checked first was saved last.
Overtaken(v, w) == checkedAt[w] < checkedAt[v] /\ storedAt[w] > storedAt[v]

\* A list has everything of its project that a caller was told of before and the
\* words match.  Only a verdict is left out, of a list that is full of verdicts
\* checked later, or in memory of verdicts that overtook it on the way to the
\* store.
ListIsComplete(c) ==
    LET list == shown'[c] IN
    list.what \in Kinds =>
      \A v \in told :
        kind[v] = list.what /\ project[v] = project'[c] /\ v \in list.matching =>
          \/ v \in list.rows
          \/ /\ list.what = "verdict"
             /\ Cardinality(list.rows) >= ListLimit
             /\ \A w \in list.rows :
                  \/ checkedAt[w] > checkedAt[v]
                  \/ backend = "memory" /\ Overtaken(v, w)

\* A meter counts the verdicts the project has stored, each once and no other:
\* those of all projects in memory, of one project of several on a bill.
MeterIsExact(c) ==
    LET meter == shown'[c] IN
    meter.what \in {"usage", "billing"} =>
      \/ meter.rows = Stored("verdict", project'[c])
      \/ backend = "memory" /\ meter.rows = UNION {Stored("verdict", p) : p \in opened}
      \/ /\ meter.what = "billing" /\ opened # {Home}
         /\ \E p \in opened : meter.rows = Stored("verdict", p)

\* A verdict that was answered is found by its id.
AnsweredIsFound(c) ==
    shown'[c].what = "one" => shown'[c].matching \intersect told \subseteq
        shown'[c].rows \union {v \in Asks : kind[v] # "verdict"}

\* Whatever answer a project is given agrees with what its callers were told
\* before, on either store, whatever requests overlap and whichever statement
\* fails.
AnswersAgree ==
    [][\A c \in Asks :
         shown'[c] # shown[c] =>
           ListIsComplete(c) /\ MeterIsExact(c) /\ AnsweredIsFound(c)]_projectVars

=============================================================================

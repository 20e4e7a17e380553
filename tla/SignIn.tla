------------------------------- MODULE SignIn -------------------------------
(***************************************************************************)
(* Accounts and sessions of the API over Postgres: the routes /v1/auth/*   *)
(* of services/api/src/app.ts and the PostgresStore operations they await. *)
(*                                                                         *)
(* A request runs on the event loop and gives way at every statement it    *)
(* sends, so its steps are the statements.  A statement takes one of the   *)
(* PoolSize connections and gives it back; a transaction keeps one from    *)
(* BEGIN to release.  users.email is UNIQUE: an INSERT waits while another *)
(* transaction holds the same address and fails with 23505 once that has   *)
(* committed.  A session's token is the request that created it.           *)
(***************************************************************************)
EXTENDS Naturals, FiniteSets

CONSTANTS
    Requests,    \* requests, each sent once
    Emails,      \* addresses, as lower() leaves them
    PoolSize,    \* max of create-store.ts
    MaxFaults,   \* bound: statements that fail
    Nobody       \* no request

ASSUME PoolAssumption == PoolSize \in Nat \ {0} /\ MaxFaults \in Nat
ASSUME NobodyAssumption == Nobody \notin Requests

WorkspaceRows == {"organization", "billing", "project", "membership"}
Kinds == {"none", "password", "oidc"}
Operations == {"register", "login", "oidc", "me", "logout"}
Replies == {"nothing", "session", "taken", "unauthorized", "user", "out", "error"}

VARIABLES
    accounts,   \* users: how the account of each address signs in
    rows,       \* organizations, billing_accounts, projects, memberships of it
    sessions,   \* the tokens in sessions ...
    expired,    \* ... those past expires_at
    pc, op, email, token,   \* each request: its next statement, and its input
    held,       \* requests that keep a connection
    staged,     \* rows each open transaction has inserted
    reply,      \* what each request was answered
    creator,    \* history: the request that committed the account
    closed,     \* history: tokens whose logout has been answered
    late,       \* history: requests that arrived after that, or after expires_at
    faults      \* statements that have failed

dataVars    == <<accounts, rows, creator>>
inputVars   == <<op, email, token, late>>
signInVars  == <<dataVars, sessions, expired, pc, inputVars, held, staged, reply, closed, faults>>

SignInTypeOK ==
    /\ accounts \in [Emails -> Kinds]
    /\ rows \in [Emails -> SUBSET WorkspaceRows]
    /\ sessions \subseteq Requests /\ expired \subseteq Requests
    /\ pc \in [Requests -> {"new", "connect", "begin", "insert", "workspace", "commit",
                            "find", "again", "verify", "lookup", "session", "audit",
                            "read", "purge", "project", "destroy", "done"}]
    /\ op \in [Requests -> Operations \union {"none"}]
    /\ email \in [Requests -> Emails \union {"none"}]
    /\ token \in [Requests -> Requests \union {Nobody}]
    /\ held \subseteq Requests
    /\ staged \in [Requests -> SUBSET (WorkspaceRows \union {"user"})]
    /\ reply \in [Requests -> Replies]
    /\ creator \in [Emails -> Requests \union {Nobody}]
    /\ closed \subseteq Requests /\ late \subseteq Requests
    /\ faults \in 0 .. MaxFaults

SignInInit ==
    /\ accounts = [e \in Emails |-> "none"]
    /\ rows = [e \in Emails |-> {}]
    /\ sessions = {} /\ expired = {}
    /\ pc = [r \in Requests |-> "new"]
    /\ op = [r \in Requests |-> "none"]
    /\ email = [r \in Requests |-> "none"]
    /\ token = [r \in Requests |-> Nobody]
    /\ held = {}
    /\ staged = [r \in Requests |-> {}]
    /\ reply = [r \in Requests |-> "nothing"]
    /\ creator = [e \in Emails |-> Nobody]
    /\ closed = {} /\ late = {}
    /\ faults = 0

-----------------------------------------------------------------------------
\* A connection for one statement; one that a transaction already has.
Free == Cardinality(held) < PoolSize

At(r, step) == pc[r] = step
Goto(r, step) == pc' = [pc EXCEPT ![r] = step]
Answer(r, what) ==
    /\ Goto(r, "done")
    /\ reply' = [reply EXCEPT ![r] = what]

Unanswered == UNCHANGED <<reply, closed>>
SameData == UNCHANGED <<dataVars, sessions, expired>>
SamePool == UNCHANGED <<held, staged>>
SameInput == UNCHANGED inputVars

\* A request with an address: POST register, POST login, GET oidc/callback
\* with an identity from the provider.
FirstStep == [register |-> "connect", login |-> "verify", oidc |-> "find"]

ArriveWithEmail(r, o, e) ==
    /\ At(r, "new") /\ o \in DOMAIN FirstStep
    /\ op' = [op EXCEPT ![r] = o]
    /\ email' = [email EXCEPT ![r] = e]
    /\ Goto(r, FirstStep[o])
    /\ UNCHANGED <<token, late, faults>> /\ Unanswered /\ SameData /\ SamePool

\* A request with a session: GET me, which stands for every route that calls
\* resolveProject, and POST logout.
ArriveWithToken(r, o, t) ==
    /\ At(r, "new") /\ o \in {"me", "logout"}
    /\ reply[t] = "session"
    /\ op' = [op EXCEPT ![r] = o]
    /\ token' = [token EXCEPT ![r] = t]
    /\ late' = IF t \in closed \union expired THEN late \union {r} ELSE late
    /\ Goto(r, IF o = "me" THEN "read" ELSE "destroy")
    /\ UNCHANGED <<email, faults>> /\ Unanswered /\ SameData /\ SamePool

-----------------------------------------------------------------------------
\* createUser and the second half of findOrCreateOidcUser.
Connect(r) ==
    /\ At(r, "connect") /\ Free
    /\ held' = held \union {r}
    /\ Goto(r, "begin")
    /\ UNCHANGED <<staged, faults>> /\ Unanswered /\ SameData /\ SameInput

\* BEGIN, and the owner role, which the seeds have inserted.
Begin(r) ==
    /\ At(r, "begin")
    /\ Goto(r, "insert")
    /\ UNCHANGED faults /\ Unanswered /\ SameData /\ SamePool /\ SameInput

Contended(r) == \E q \in Requests \ {r} : "user" \in staged[q] /\ email[q] = email[r]

\* A bug to try: the statements go to the pool, outside any transaction.
InsertUserAutocommitted(r) ==
    /\ At(r, "insert") /\ accounts[email[r]] = "none"
    /\ accounts' = [accounts EXCEPT ![email[r]] = "password"]
    /\ creator' = [creator EXCEPT ![email[r]] = r]
    /\ staged' = [staged EXCEPT ![r] = {"user"}]
    /\ Goto(r, "workspace")
    /\ UNCHANGED <<rows, sessions, expired, held, faults>> /\ Unanswered /\ SameInput

\* A bug to try: the address is written over, as an upsert would.
InsertOrTakeOver(r) ==
    /\ At(r, "insert") /\ ~ Contended(r)
    /\ staged' = [staged EXCEPT ![r] = {"user"}]
    /\ Goto(r, "workspace")
    /\ UNCHANGED <<held, faults>> /\ Unanswered /\ SameData /\ SameInput

InsertUser(r) ==
    /\ At(r, "insert") /\ ~ Contended(r)
    /\ accounts[email[r]] = "none"
    /\ staged' = [staged EXCEPT ![r] = {"user"}]
    /\ Goto(r, "workspace")
    /\ UNCHANGED <<held, faults>> /\ Unanswered /\ SameData /\ SameInput

\* 23505, ROLLBACK: a registration is refused and its connection released; an
\* OIDC sign-in looks the winner up, on a connection of the pool.
EmailTaken(r) ==
    /\ At(r, "insert") /\ ~ Contended(r)
    /\ accounts[email[r]] # "none"
    /\ IF op[r] = "register"
       THEN Answer(r, "taken") /\ held' = held \ {r}
       ELSE Goto(r, "again") /\ UNCHANGED <<reply, held>>
    /\ UNCHANGED <<staged, closed, faults>> /\ SameData /\ SameInput

Before == [organization |-> {},
           billing      |-> {"organization"},
           project      |-> {"organization", "billing"},
           membership   |-> {"organization", "billing", "project"}]

InsertWorkspaceRow(r, row) ==
    /\ At(r, "workspace")
    /\ row \notin staged[r] /\ Before[row] \subseteq staged[r]
    /\ staged' = [staged EXCEPT ![r] = @ \union {row}]
    /\ Goto(r, IF row = "membership" THEN "commit" ELSE "workspace")
    /\ UNCHANGED <<held, faults>> /\ Unanswered /\ SameData /\ SameInput

Committed(r) ==
    /\ accounts' = [accounts EXCEPT ![email[r]] = IF op[r] = "oidc" THEN "oidc" ELSE "password"]
    /\ rows' = [rows EXCEPT ![email[r]] = staged[r] \ {"user"}]
    /\ creator' = [creator EXCEPT ![email[r]] = r]
    /\ staged' = [staged EXCEPT ![r] = {}]

Commit(r) ==
    /\ At(r, "commit")
    /\ Committed(r)
    /\ held' = held \ {r}
    /\ Goto(r, "session")
    /\ UNCHANGED <<sessions, expired, faults>> /\ Unanswered /\ SameInput

-----------------------------------------------------------------------------
\* findOrCreateOidcUser: the first look, and the one after 23505.
FindUser(r) ==
    /\ At(r, "find") /\ Free
    /\ Goto(r, IF accounts[email[r]] = "none" THEN "connect" ELSE "session")
    /\ UNCHANGED faults /\ Unanswered /\ SameData /\ SamePool /\ SameInput

FindAgain(r) ==
    /\ At(r, "again") /\ Free
    /\ held' = held \ {r}
    /\ Goto(r, "session")
    /\ UNCHANGED <<staged, faults>> /\ Unanswered /\ SameData /\ SameInput

\* authenticateUser: an account without a password, or a wrong one, is refused.
VerifyPassword(r) ==
    /\ At(r, "verify") /\ Free
    /\ \/ Answer(r, "unauthorized")
       \/ accounts[email[r]] = "password" /\ Goto(r, "lookup") /\ UNCHANGED reply
    /\ UNCHANGED <<closed, faults>> /\ SameData /\ SamePool /\ SameInput

LookUp(r) ==
    /\ At(r, "lookup") /\ Free
    /\ Goto(r, "session")
    /\ UNCHANGED faults /\ Unanswered /\ SameData /\ SamePool /\ SameInput

CreateSession(r) ==
    /\ At(r, "session") /\ Free
    /\ sessions' = sessions \union {r}
    /\ Goto(r, "audit")
    /\ UNCHANGED <<dataVars, expired, faults>> /\ Unanswered /\ SamePool /\ SameInput

WriteAuthAudit(r) ==
    /\ At(r, "audit") /\ Free
    /\ Answer(r, "session")
    /\ UNCHANGED <<closed, faults>> /\ SameData /\ SamePool /\ SameInput

-----------------------------------------------------------------------------
\* getSession: the row joined with its user; one past its time is deleted.
ReadSession(r) ==
    /\ At(r, "read") /\ Free
    /\ \/ token[r] \notin sessions /\ Answer(r, "unauthorized")
       \/ token[r] \in sessions \intersect expired /\ Goto(r, "purge") /\ UNCHANGED reply
       \/ token[r] \in sessions \ expired /\ Goto(r, "project") /\ UNCHANGED reply
    /\ UNCHANGED <<closed, faults>> /\ SameData /\ SamePool /\ SameInput

PurgeSession(r) ==
    /\ At(r, "purge") /\ Free
    /\ sessions' = sessions \ {token[r]}
    /\ Answer(r, "unauthorized")
    /\ UNCHANGED <<dataVars, expired, closed, faults>> /\ SamePool /\ SameInput

\* defaultProjectId and defaultOrgId through the membership.
ReadProject(r) ==
    /\ At(r, "project") /\ Free
    /\ Answer(r, IF {"project", "membership"} \subseteq rows[email[token[r]]] THEN "user" ELSE "error")
    /\ UNCHANGED <<closed, faults>> /\ SameData /\ SamePool /\ SameInput

\* A bug to try: logout only clears the cookie.
ClearCookieOnly(r) ==
    /\ At(r, "destroy") /\ Free
    /\ closed' = closed \union {token[r]}
    /\ Answer(r, "out")
    /\ UNCHANGED faults /\ SameData /\ SamePool /\ SameInput

DestroySession(r) ==
    /\ At(r, "destroy") /\ Free
    /\ sessions' = sessions \ {token[r]}
    /\ closed' = closed \union {token[r]}
    /\ Answer(r, "out")
    /\ UNCHANGED <<dataVars, expired, faults>> /\ SamePool /\ SameInput

-----------------------------------------------------------------------------
\* A bug to try: the catch block forgets ROLLBACK, and the connection goes
\* back to the pool with its transaction open.
FailWithoutRollback(r) ==
    /\ pc[r] \notin {"new", "done"} /\ faults < MaxFaults
    /\ faults' = faults + 1
    /\ held' = held \ {r}
    /\ Answer(r, "error")
    /\ UNCHANGED <<staged, closed>> /\ SameData /\ SameInput

\* A statement fails: an open transaction is rolled back, its connection
\* released, and the request is answered 500 (a redirect to the sign-in page
\* for OIDC), whatever it had already committed.
StatementFails(r) ==
    /\ pc[r] \notin {"new", "done"} /\ faults < MaxFaults
    /\ faults' = faults + 1
    /\ staged' = [staged EXCEPT ![r] = {}]
    /\ held' = held \ {r}
    /\ Answer(r, "error")
    /\ UNCHANGED closed /\ SameData /\ SameInput

\* COMMIT is carried out and its answer lost: the caller is told it failed.
CommitUnheard(r) ==
    /\ At(r, "commit") /\ faults < MaxFaults
    /\ faults' = faults + 1
    /\ Committed(r)
    /\ held' = held \ {r}
    /\ Answer(r, "error")
    /\ UNCHANGED <<sessions, expired, closed>> /\ SameInput

Expire(t) ==
    /\ t \in sessions \ expired
    /\ expired' = expired \union {t}
    /\ UNCHANGED <<dataVars, sessions, pc, faults>> /\ Unanswered /\ SamePool /\ SameInput

Arrive(r) ==
    \/ \E o \in {"register", "login", "oidc"}, e \in Emails : ArriveWithEmail(r, o, e)
    \/ \E o \in {"me", "logout"}, t \in Requests : ArriveWithToken(r, o, t)

Proceed(r) ==
    \/ Connect(r) \/ Begin(r) \/ InsertUser(r) \/ EmailTaken(r)
    \/ \E row \in WorkspaceRows : InsertWorkspaceRow(r, row)
    \/ Commit(r)
    \/ FindUser(r) \/ FindAgain(r)
    \/ VerifyPassword(r) \/ LookUp(r) \/ CreateSession(r) \/ WriteAuthAudit(r)
    \/ ReadSession(r) \/ PurgeSession(r) \/ ReadProject(r) \/ DestroySession(r)

SignInNext ==
    \/ \E r \in Requests : Arrive(r) \/ Proceed(r) \/ StatementFails(r) \/ CommitUnheard(r)
    \/ \E t \in Requests : Expire(t)

\* The event loop runs and Postgres answers every statement that has a
\* connection: a request whose next statement stays possible sends it.
SignInFairness == \A r \in Requests : SF_signInVars(Proceed(r))

SignInSpec == SignInInit /\ [][SignInNext]_signInVars /\ SignInFairness

-----------------------------------------------------------------------------
\* An account and its organization, billing account, project and membership
\* come together or not at all, whichever statement of the transaction fails:
\* otherwise resolveProject would answer its owner no_project for ever.
EveryAccountHasWorkspace ==
    \A e \in Emails : rows[e] = IF accounts[e] = "none" THEN {} ELSE WorkspaceRows

\* A request that arrives when the logout of its session has been answered, or
\* after expires_at, is not served, whatever is still under way.
EndedSessionIsNotServed == \A r \in late : reply[r] # "user"

\* Every connection is kept by an OIDC sign-in that asks the pool for another.
Starved ==
    /\ Cardinality(held) = PoolSize
    /\ \A r \in held : At(r, "again")

\* Every request is answered, unless as many first sign-ins of one address as
\* the pool has connections have lost the race to create it: each of them
\* keeps its connection while findUserByEmail waits for one, for ever.
EveryRequestAnswered ==
    \A r \in Requests : pc[r] # "new" ~> (At(r, "done") \/ Starved)

\* The accounts are those of AccountRegistry: one for each address, and the
\* registration that is answered with a session is the one that made it.
Registry == INSTANCE AccountRegistry WITH
    told <- [r \in Requests |->
               IF op[r] # "register" THEN "nothing"
               ELSE IF reply[r] = "session" THEN "created"
               ELSE IF reply[r] = "taken" THEN "taken"
               ELSE "nothing"]
ImplementsRegistry == Registry!RegistrySpec

=============================================================================

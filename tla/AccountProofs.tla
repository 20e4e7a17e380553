--------------------------- MODULE AccountProofs ---------------------------
(***************************************************************************)
(* Safety of accounts and sessions, for any number of requests and         *)
(* addresses.  Over Postgres (SignIn) an account is one transaction, that  *)
(* has its address to itself.  In memory (MemoryAccounts) a request has    *)
(* seen a number of accounts, and all it is wrong about comes after it.    *)
(* A session names the account that was made for it, or the first of its   *)
(* address.  With BootProofs come the types of all that Accounts composes. *)
(***************************************************************************)
EXTENDS Accounts, BootProofs, SequenceTheorems, WellFoundedInduction, TLAPS

\* Statements of requests that bring an address, and of those that bring a session.
WithEmail == {"connect", "begin", "insert", "workspace", "commit", "find", "again",
              "verify", "lookup", "session", "audit"}
WithToken == {"read", "purge", "project", "destroy"}

\* A request has the input its next statement reads, and no answer before its last.
InputInv ==
    \A r \in Requests :
        /\ pc[r] \in WithEmail => email[r] \in Emails
        /\ pc[r] \in {"find", "again", "verify", "lookup"} => op[r] # "register"
        /\ pc[r] \in WithToken =>
              op[r] \in {"me", "logout"} /\ token[r] \in Requests /\ pc[token[r]] = "done"
        /\ pc[r] # "done" => reply[r] = "nothing"

\* An open transaction has the address to itself until it ends.
TransactionInv ==
    /\ \A r \in Requests :
        /\ pc[r] \in {"workspace", "commit"} =>
              "user" \in staged[r] /\ accounts[email[r]] = "none"
        /\ pc[r] \notin {"workspace", "commit"} => staged[r] = {}
        /\ pc[r] = "commit" => staged[r] = WorkspaceRows \union {"user"}
    /\ \A q, r \in Requests :
        q # r /\ "user" \in staged[q] /\ "user" \in staged[r] => email[q] # email[r]

\* An account is its creator's, whose transaction is over.
AccountInv ==
    /\ EveryAccountHasWorkspace
    /\ \A e \in Emails : creator[e] = Nobody <=> accounts[e] = "none"
    /\ \A e \in Emails, r \in Requests :
        creator[e] = r => pc[r] \in {"session", "audit", "done"}
    /\ \A r \in Requests :
        op[r] = "register" /\ pc[r] \in {"session", "audit"} => creator[email[r]] = r

\* A session that was closed does not come back, and a request that came too
\* late for its session does not get past getSession.
EndedInv ==
    /\ \A t \in closed : t \notin sessions /\ pc[t] = "done"
    /\ \A r \in late :
        /\ token[r] \in closed \union expired
        /\ pc[r] \in {"read", "purge", "destroy", "done"}
        /\ reply[r] # "user"

SignInInv == SignInTypeOK /\ InputInv /\ TransactionInv /\ AccountInv /\ EndedInv

\* The statements that change no account and no transaction.
Quiet(r) ==
    \/ Connect(r) \/ Begin(r) \/ EmailTaken(r) \/ FindUser(r) \/ FindAgain(r)
    \/ VerifyPassword(r) \/ LookUp(r) \/ CreateSession(r) \/ WriteAuthAudit(r)
    \/ ReadSession(r) \/ PurgeSession(r) \/ ReadProject(r) \/ DestroySession(r)

\* COMMIT, heard of or not.
CommitStep(r) == Commit(r) \/ CommitUnheard(r)

LEMMA SignInInitInv == SignInInit => SignInInv
    BY NobodyAssumption, PoolAssumption
    DEF SignInInit, SignInInv, SignInTypeOK, InputInv, TransactionInv, AccountInv, EndedInv,
        EveryAccountHasWorkspace, Kinds, Operations, Replies, WithEmail, WithToken

\* Every step is one of these.
LEMMA SignInSteps ==
    ASSUME [SignInNext]_signInVars
    PROVE  \/ \E r \in Requests, o \in {"register", "login", "oidc"}, e \in Emails :
                ArriveWithEmail(r, o, e)
           \/ \E r \in Requests, o \in {"me", "logout"}, t \in Requests :
                ArriveWithToken(r, o, t)
           \/ \E r \in Requests : Quiet(r)
           \/ \E r \in Requests : InsertUser(r)
           \/ \E r \in Requests, part \in WorkspaceRows : InsertWorkspaceRow(r, part)
           \/ \E r \in Requests : CommitStep(r)
           \/ \E r \in Requests : StatementFails(r)
           \/ \E t \in Requests : Expire(t)
           \/ UNCHANGED signInVars
    BY DEF SignInNext, Arrive, Proceed, Quiet, CommitStep

LEMMA ArriveWithEmailKeeps ==
    ASSUME SignInInv, NEW r \in Requests, NEW o \in {"register", "login", "oidc"},
           NEW e \in Emails, ArriveWithEmail(r, o, e)
    PROVE  SignInInv'
<1>1. /\ pc[r] = "new" /\ pc' = [pc EXCEPT ![r] = FirstStep[o]]
      /\ op' = [op EXCEPT ![r] = o] /\ email' = [email EXCEPT ![r] = e]
      /\ UNCHANGED <<token, late, faults, reply, closed, dataVars, sessions, expired, held, staged>>
    BY DEF ArriveWithEmail, At, Goto, Unanswered, SameData, SamePool
<1>2. FirstStep[o] \in {"connect", "verify", "find"}
      /\ (o = "register" => FirstStep[o] = "connect")
    BY DEF FirstStep
<1>3. SignInTypeOK'
    BY <1>1, <1>2 DEF SignInInv, SignInTypeOK, dataVars, Operations
<1>4. InputInv'
    BY <1>1, <1>2 DEF SignInInv, SignInTypeOK, InputInv, WithEmail, WithToken
<1>5. TransactionInv'
    BY <1>1, <1>2 DEF SignInInv, SignInTypeOK, TransactionInv, dataVars
<1>6. AccountInv'
    BY <1>1, <1>2 DEF SignInInv, SignInTypeOK, AccountInv, EveryAccountHasWorkspace, dataVars
<1>7. EndedInv'
    BY <1>1, <1>2 DEF SignInInv, SignInTypeOK, EndedInv
<1> QED BY <1>3, <1>4, <1>5, <1>6, <1>7 DEF SignInInv

LEMMA ArriveWithTokenKeeps ==
    ASSUME SignInInv, NEW r \in Requests, NEW o \in {"me", "logout"},
           NEW t \in Requests, ArriveWithToken(r, o, t)
    PROVE  SignInInv'
<1>1. /\ pc[r] = "new" /\ pc' = [pc EXCEPT ![r] = IF o = "me" THEN "read" ELSE "destroy"]
      /\ op' = [op EXCEPT ![r] = o] /\ token' = [token EXCEPT ![r] = t]
      /\ late' = IF t \in closed \union expired THEN late \union {r} ELSE late
      /\ UNCHANGED <<email, faults, reply, closed, dataVars, sessions, expired, held, staged>>
      /\ reply[t] = "session"
    BY DEF ArriveWithToken, At, Goto, Unanswered, SameData, SamePool
<1>2. pc[t] = "done" /\ t # r
    BY <1>1 DEF SignInInv, InputInv
<1>3. SignInTypeOK'
    BY <1>1 DEF SignInInv, SignInTypeOK, dataVars, Operations
<1>4. InputInv'
    BY <1>1, <1>2 DEF SignInInv, SignInTypeOK, InputInv, WithEmail, WithToken
<1>5. TransactionInv'
    BY <1>1 DEF SignInInv, SignInTypeOK, TransactionInv, dataVars
<1>6. AccountInv'
    BY <1>1 DEF SignInInv, SignInTypeOK, AccountInv, EveryAccountHasWorkspace, dataVars
<1>7. EndedInv'
    BY <1>1, <1>2 DEF SignInInv, SignInTypeOK, EndedInv, InputInv
<1> QED BY <1>3, <1>4, <1>5, <1>6, <1>7 DEF SignInInv

LEMMA QuietKeeps ==
    ASSUME SignInInv, NEW r \in Requests, Quiet(r)
    PROVE  SignInInv'
<1> USE DEF Quiet, Connect, Begin, EmailTaken, FindUser, FindAgain, VerifyPassword, LookUp,
        CreateSession, WriteAuthAudit, ReadSession, PurgeSession, ReadProject, DestroySession,
        At, Goto, Answer, Unanswered, SameData, SamePool, SameInput, inputVars
<1>1. UNCHANGED <<dataVars, inputVars, staged>>
    OBVIOUS
<1>2. SignInTypeOK'
    BY <1>1 DEF SignInInv, SignInTypeOK, InputInv, WithEmail, WithToken, dataVars, Replies
<1>3. InputInv'
    BY <1>1 DEF SignInInv, SignInTypeOK, InputInv, WithEmail, WithToken
<1>4. TransactionInv'
    BY <1>1 DEF SignInInv, SignInTypeOK, TransactionInv, dataVars
<1>5. AccountInv'
    BY <1>1 DEF SignInInv, SignInTypeOK, InputInv, AccountInv, EveryAccountHasWorkspace, dataVars
<1>6. EndedInv'
    BY <1>1 DEF SignInInv, SignInTypeOK, InputInv, WithToken, EndedInv
<1> QED BY <1>2, <1>3, <1>4, <1>5, <1>6 DEF SignInInv

LEMMA InsertUserKeeps ==
    ASSUME SignInInv, NEW r \in Requests, InsertUser(r)
    PROVE  SignInInv'
<1>1. /\ pc[r] = "insert" /\ pc' = [pc EXCEPT ![r] = "workspace"]
      /\ ~ Contended(r) /\ accounts[email[r]] = "none"
      /\ staged' = [staged EXCEPT ![r] = {"user"}]
      /\ UNCHANGED <<held, faults, reply, closed, dataVars, sessions, expired, inputVars>>
    BY DEF InsertUser, At, Goto, Unanswered, SameData, SameInput
<1>2. SignInTypeOK'
    BY <1>1 DEF SignInInv, SignInTypeOK, dataVars, inputVars
<1>3. InputInv'
    BY <1>1 DEF SignInInv, SignInTypeOK, InputInv, WithEmail, WithToken, inputVars
<1>4. TransactionInv'
    BY <1>1 DEF SignInInv, SignInTypeOK, TransactionInv, Contended, dataVars, inputVars
<1>5. AccountInv'
    BY <1>1 DEF SignInInv, SignInTypeOK, AccountInv, EveryAccountHasWorkspace, dataVars, inputVars
<1>6. EndedInv'
    BY <1>1 DEF SignInInv, SignInTypeOK, EndedInv, inputVars
<1> QED BY <1>2, <1>3, <1>4, <1>5, <1>6 DEF SignInInv

LEMMA InsertWorkspaceRowKeeps ==
    ASSUME SignInInv, NEW r \in Requests, NEW part \in WorkspaceRows, InsertWorkspaceRow(r, part)
    PROVE  SignInInv'
<1>1. /\ pc[r] = "workspace"
      /\ pc' = [pc EXCEPT ![r] = IF part = "membership" THEN "commit" ELSE "workspace"]
      /\ Before[part] \subseteq staged[r]
      /\ staged' = [staged EXCEPT ![r] = staged[r] \union {part}]
      /\ UNCHANGED <<held, faults, reply, closed, dataVars, sessions, expired, inputVars>>
    BY DEF InsertWorkspaceRow, At, Goto, Unanswered, SameData, SameInput
<1>2. Before["membership"] = {"organization", "billing", "project"}
    BY DEF Before
<1>3. SignInTypeOK'
    BY <1>1 DEF SignInInv, SignInTypeOK, dataVars, inputVars
<1>4. InputInv'
    BY <1>1 DEF SignInInv, SignInTypeOK, InputInv, WithEmail, WithToken, inputVars
<1>5. TransactionInv'
    <2>1. part = "membership" => staged'[r] = WorkspaceRows \union {"user"}
        BY <1>1, <1>2 DEF SignInInv, SignInTypeOK, TransactionInv, WorkspaceRows
    <2> QED BY <1>1, <2>1 DEF SignInInv, SignInTypeOK, TransactionInv, WorkspaceRows,
               dataVars, inputVars
<1>6. AccountInv'
    BY <1>1 DEF SignInInv, SignInTypeOK, AccountInv, EveryAccountHasWorkspace, dataVars, inputVars
<1>7. EndedInv'
    BY <1>1 DEF SignInInv, SignInTypeOK, EndedInv, inputVars
<1> QED BY <1>3, <1>4, <1>5, <1>6, <1>7 DEF SignInInv

LEMMA CommitKeeps ==
    ASSUME SignInInv, NEW r \in Requests, CommitStep(r)
    PROVE  SignInInv'
<1>1. /\ pc[r] = "commit" /\ held' = held \ {r}
      /\ accounts' = [accounts EXCEPT ![email[r]] = IF op[r] = "oidc" THEN "oidc" ELSE "password"]
      /\ rows' = [rows EXCEPT ![email[r]] = staged[r] \ {"user"}]
      /\ creator' = [creator EXCEPT ![email[r]] = r]
      /\ staged' = [staged EXCEPT ![r] = {}]
      /\ UNCHANGED <<closed, sessions, expired, inputVars>>
    BY DEF CommitStep, Commit, CommitUnheard, Committed, At, Unanswered, SameInput
<1>2. \/ pc' = [pc EXCEPT ![r] = "session"] /\ UNCHANGED <<reply, faults>>
      \/ /\ pc' = [pc EXCEPT ![r] = "done"] /\ reply' = [reply EXCEPT ![r] = "error"]
         /\ faults < MaxFaults /\ faults' = faults + 1
    BY DEF CommitStep, Commit, CommitUnheard, Goto, Answer, Unanswered
<1>3. email[r] \in Emails
    BY <1>1 DEF SignInInv, InputInv, WithEmail
<1>4. SignInTypeOK'
    <2>1. faults' \in 0 .. MaxFaults
        BY <1>2, PoolAssumption DEF SignInInv, SignInTypeOK
    <2> QED BY <1>1, <1>2, <1>3, <2>1 DEF SignInInv, SignInTypeOK, inputVars, Kinds, Replies
<1>5. InputInv'
    BY <1>1, <1>2 DEF SignInInv, SignInTypeOK, InputInv, WithEmail, WithToken, inputVars
<1>6. TransactionInv'
    BY <1>1, <1>2, <1>3 DEF SignInInv, SignInTypeOK, TransactionInv, inputVars
<1>7. AccountInv'
    <2>1. staged[r] \ {"user"} = WorkspaceRows /\ accounts[email[r]] = "none"
        BY <1>1 DEF SignInInv, TransactionInv, WorkspaceRows
    <2>2. Nobody \notin Requests
        BY NobodyAssumption
    <2>3. EveryAccountHasWorkspace'
        BY <1>1, <1>3, <2>1
        DEF SignInInv, SignInTypeOK, AccountInv, EveryAccountHasWorkspace
    <2>4. \A e \in Emails : creator'[e] = Nobody <=> accounts'[e] = "none"
        BY <1>1, <1>3, <2>2 DEF SignInInv, SignInTypeOK, AccountInv
    <2>5. \A e \in Emails, q \in Requests :
            creator'[e] = q => pc'[q] \in {"session", "audit", "done"}
        BY <1>1, <1>2, <1>3 DEF SignInInv, SignInTypeOK, AccountInv
    <2>6. ASSUME NEW q \in Requests, op'[q] = "register", pc'[q] \in {"session", "audit"}
          PROVE  creator'[email'[q]] = q
        <3>1. CASE q = r
            BY <1>1, <1>3, <3>1 DEF SignInInv, SignInTypeOK, inputVars
        <3>2. CASE q # r
            <4>1. op[q] = "register" /\ pc[q] \in {"session", "audit"} /\ email' = email
                BY <1>1, <1>2, <2>6, <3>2 DEF SignInInv, SignInTypeOK, inputVars
            <4>2. email[q] \in Emails /\ creator[email[q]] = q
                BY <4>1 DEF SignInInv, InputInv, WithEmail, AccountInv
            <4>3. email[q] # email[r]
                BY <1>3, <2>1, <2>2, <4>2 DEF SignInInv, AccountInv
            <4> QED BY <1>1, <4>1, <4>2, <4>3 DEF SignInInv, SignInTypeOK
        <3> QED BY <3>1, <3>2
    <2> QED BY <2>3, <2>4, <2>5, <2>6 DEF AccountInv
<1>8. EndedInv'
    BY <1>1, <1>2 DEF SignInInv, SignInTypeOK, EndedInv, inputVars
<1> QED BY <1>4, <1>5, <1>6, <1>7, <1>8 DEF SignInInv

LEMMA StatementFailsKeeps ==
    ASSUME SignInInv, NEW r \in Requests, StatementFails(r)
    PROVE  SignInInv'
<1>1. /\ pc[r] \notin {"new", "done"} /\ faults < MaxFaults /\ faults' = faults + 1
      /\ staged' = [staged EXCEPT ![r] = {}] /\ held' = held \ {r}
      /\ pc' = [pc EXCEPT ![r] = "done"] /\ reply' = [reply EXCEPT ![r] = "error"]
      /\ UNCHANGED <<closed, dataVars, sessions, expired, inputVars>>
    BY DEF StatementFails, Goto, Answer, SameData, SameInput
<1>2. SignInTypeOK'
    <2>1. faults' \in 0 .. MaxFaults
        BY <1>1, PoolAssumption DEF SignInInv, SignInTypeOK
    <2> QED BY <1>1, <2>1 DEF SignInInv, SignInTypeOK, dataVars, inputVars, Replies
<1>3. InputInv'
    BY <1>1 DEF SignInInv, SignInTypeOK, InputInv, WithEmail, WithToken, inputVars
<1>4. TransactionInv'
    BY <1>1 DEF SignInInv, SignInTypeOK, TransactionInv, dataVars, inputVars
<1>5. AccountInv'
    BY <1>1 DEF SignInInv, SignInTypeOK, AccountInv, EveryAccountHasWorkspace, dataVars, inputVars
<1>6. EndedInv'
    BY <1>1 DEF SignInInv, SignInTypeOK, EndedInv, inputVars
<1> QED BY <1>2, <1>3, <1>4, <1>5, <1>6 DEF SignInInv

LEMMA SignInInvInductive == SignInInv /\ [SignInNext]_signInVars => SignInInv'
<1> SUFFICES ASSUME SignInInv, [SignInNext]_signInVars PROVE SignInInv'
    OBVIOUS
<1>1. ASSUME NEW t \in Requests, Expire(t) PROVE SignInInv'
    BY <1>1 DEF Expire, Unanswered, SamePool, SameInput, dataVars, inputVars, SignInInv,
       SignInTypeOK, InputInv, TransactionInv, AccountInv, EveryAccountHasWorkspace, EndedInv
<1>2. CASE UNCHANGED signInVars
    BY <1>2 DEF signInVars, dataVars, inputVars, SignInInv, SignInTypeOK, InputInv,
       TransactionInv, AccountInv, EveryAccountHasWorkspace, EndedInv
<1> HIDE DEF SignInInv
<1> QED BY <1>1, <1>2, SignInSteps, ArriveWithEmailKeeps, ArriveWithTokenKeeps, QuietKeeps,
           InsertUserKeeps, InsertWorkspaceRowKeeps, CommitKeeps, StatementFailsKeeps

LEMMA SignInInvHolds == SignInSpec => []SignInInv
    BY SignInInitInv, SignInInvInductive, PTL DEF SignInSpec

\* createUser and the insertion of findOrCreateOidcUser are one transaction: whichever
\* of its statements fails or is overtaken, an account comes with its organization,
\* billing account, project and membership or not at all, for any number of requests,
\* addresses, connections and failures.
THEOREM AccountsComeWhole == SignInSpec => []EveryAccountHasWorkspace
<1>1. SignInInv => EveryAccountHasWorkspace
    BY DEF SignInInv, AccountInv
<1> QED BY <1>1, SignInInvHolds, PTL

\* getSession lets no request through that arrives after its session was logged
\* out or had expired, whatever other requests of that session are under way.
THEOREM EndedSessionsStayEnded == SignInSpec => []EndedSessionIsNotServed
<1>1. SignInInv => EndedSessionIsNotServed
    BY DEF SignInInv, EndedInv, EndedSessionIsNotServed
<1> QED BY <1>1, SignInInvHolds, PTL

-----------------------------------------------------------------------------
\* What AccountRegistry calls told.
Told == [r \in Requests |->
            IF op[r] # "register" THEN "nothing"
            ELSE IF reply[r] = "session" THEN "created"
            ELSE IF reply[r] = "taken" THEN "taken"
            ELSE "nothing"]

\* A step that gives no registration its answer says nothing new.
LEMMA NothingTold ==
    ASSUME \A q \in Requests :
              \/ op'[q] = op[q] /\ reply'[q] = reply[q]
              \/ /\ op[q] = "register" => reply[q] \notin {"session", "taken"}
                 /\ op'[q] = "register" => reply'[q] \notin {"session", "taken"}
    PROVE  Told' = Told
    BY DEF Told

\* COMMIT opens the account.
LEMMA CommitOpens ==
    ASSUME SignInInv, NEW r \in Requests, CommitStep(r)
    PROVE  Registry!RegistryNext
<1>1. /\ pc[r] = "commit" /\ UNCHANGED op
      /\ creator' = [creator EXCEPT ![email[r]] = r]
    BY DEF CommitStep, Commit, CommitUnheard, Committed, At, SameInput, inputVars
<1>2. reply' = reply \/ reply' = [reply EXCEPT ![r] = "error"]
    BY DEF CommitStep, Commit, CommitUnheard, Answer, Unanswered
<1>3. email[r] \in Emails /\ accounts[email[r]] = "none" /\ reply[r] = "nothing"
    BY <1>1 DEF SignInInv, InputInv, WithEmail, TransactionInv
<1>4. creator[email[r]] = Nobody
    BY <1>3 DEF SignInInv, AccountInv
<1>5. Told' = Told
    BY <1>1, <1>2, <1>3, NothingTold DEF SignInInv, SignInTypeOK
<1> QED BY <1>1, <1>3, <1>4, <1>5 DEF Registry!RegistryNext, Registry!Open, Told

\* The audit row of a registration is followed by its answer.
LEMMA AuditConfirms ==
    ASSUME SignInInv, NEW r \in Requests, WriteAuthAudit(r), op[r] = "register"
    PROVE  Registry!RegistryNext
<1>1. /\ pc[r] = "audit" /\ UNCHANGED <<op, creator>>
      /\ reply' = [reply EXCEPT ![r] = "session"]
    BY DEF WriteAuthAudit, At, Answer, SameData, dataVars, SameInput, inputVars
<1>2. email[r] \in Emails /\ reply[r] = "nothing" /\ creator[email[r]] = r
    BY <1>1 DEF SignInInv, InputInv, WithEmail, AccountInv
<1>3. Told[r] = "nothing"
    BY <1>2 DEF Told
<1>4. Told' = [Told EXCEPT ![r] = "created"]
    BY <1>1 DEF Told, SignInInv, SignInTypeOK
<1> QED BY <1>1, <1>2, <1>3, <1>4 DEF Registry!RegistryNext, Registry!Confirm, Told

\* 23505 refuses a registration whose address another request has.
LEMMA TakenRefuses ==
    ASSUME SignInInv, NEW r \in Requests, EmailTaken(r), op[r] = "register"
    PROVE  Registry!RegistryNext
<1>1. /\ pc[r] = "insert" /\ accounts[email[r]] # "none" /\ UNCHANGED <<op, creator>>
      /\ reply' = [reply EXCEPT ![r] = "taken"]
    BY DEF EmailTaken, At, Answer, SameData, dataVars, SameInput, inputVars
<1>2. email[r] \in Emails /\ reply[r] = "nothing"
    BY <1>1 DEF SignInInv, InputInv, WithEmail
<1>3. creator[email[r]] \notin {Nobody, r}
    BY <1>1, <1>2 DEF SignInInv, AccountInv
<1>4. Told[r] = "nothing"
    BY <1>2 DEF Told
<1>5. Told' = [Told EXCEPT ![r] = "taken"]
    BY <1>1 DEF Told, SignInInv, SignInTypeOK
<1> QED BY <1>1, <1>2, <1>3, <1>4, <1>5 DEF Registry!RegistryNext, Registry!Refuse, Told

\* Every other statement is none of the registry's business.
LEMMA QuietStutters ==
    ASSUME SignInInv, NEW r \in Requests, Quiet(r),
           ~ (WriteAuthAudit(r) /\ op[r] = "register"),
           ~ (EmailTaken(r) /\ op[r] = "register")
    PROVE  UNCHANGED Registry!registryVars
<1>1. UNCHANGED <<op, creator>>
    BY DEF Quiet, Connect, Begin, EmailTaken, FindUser, FindAgain, VerifyPassword, LookUp,
       CreateSession, WriteAuthAudit, ReadSession, PurgeSession, ReadProject, DestroySession,
       SameData, dataVars, SameInput, inputVars
<1>2. pc[r] # "done" /\ reply[r] = "nothing"
    BY DEF Quiet, Connect, Begin, EmailTaken, FindUser, FindAgain, VerifyPassword, LookUp,
       CreateSession, WriteAuthAudit, ReadSession, PurgeSession, ReadProject, DestroySession,
       At, SignInInv, InputInv
<1>3. /\ \A q \in Requests \ {r} : reply'[q] = reply[q]
      /\ reply'[r] = reply[r]
         \/ (op[r] = "register" => reply'[r] \notin {"session", "taken"})
    BY DEF Quiet, Connect, Begin, EmailTaken, FindUser, FindAgain, VerifyPassword, LookUp,
       CreateSession, WriteAuthAudit, ReadSession, PurgeSession, ReadProject, DestroySession,
       Answer, Unanswered, SignInInv, SignInTypeOK
<1>4. ASSUME NEW q \in Requests
      PROVE  \/ op'[q] = op[q] /\ reply'[q] = reply[q]
             \/ /\ op[q] = "register" => reply[q] \notin {"session", "taken"}
                /\ op'[q] = "register" => reply'[q] \notin {"session", "taken"}
    <2>1. CASE q = r
        BY <1>1, <1>2, <1>3, <2>1
    <2>2. CASE q # r
        BY <1>1, <1>3, <2>2
    <2> QED BY <2>1, <2>2
<1>5. Told' = Told
    BY <1>4, NothingTold
<1> QED BY <1>1, <1>5 DEF Registry!registryVars, Told

LEMMA OthersStutter ==
    ASSUME SignInInv, NEW r \in Requests,
           \/ \E o \in {"register", "login", "oidc"}, e \in Emails : ArriveWithEmail(r, o, e)
           \/ \E o \in {"me", "logout"}, t \in Requests : ArriveWithToken(r, o, t)
           \/ InsertUser(r)
           \/ \E part \in WorkspaceRows : InsertWorkspaceRow(r, part)
           \/ StatementFails(r)
    PROVE  UNCHANGED Registry!registryVars
<1>1. UNCHANGED creator
    BY DEF ArriveWithEmail, ArriveWithToken, InsertUser, InsertWorkspaceRow, StatementFails,
       SameData, dataVars
<1>2. pc[r] # "done" /\ reply[r] = "nothing"
    BY DEF ArriveWithEmail, ArriveWithToken, InsertUser, InsertWorkspaceRow, StatementFails,
       At, SignInInv, InputInv
<1>3. \A q \in Requests \ {r} : op'[q] = op[q]
    BY DEF ArriveWithEmail, ArriveWithToken, InsertUser, InsertWorkspaceRow, StatementFails,
       SameInput, inputVars, SignInInv, SignInTypeOK
<1>4. reply' = reply \/ reply' = [reply EXCEPT ![r] = "error"]
    BY DEF ArriveWithEmail, ArriveWithToken, InsertUser, InsertWorkspaceRow, StatementFails,
       Answer, Unanswered
<1>5. Told' = Told
    BY <1>2, <1>3, <1>4, NothingTold DEF SignInInv, SignInTypeOK
<1> QED BY <1>1, <1>5 DEF Registry!registryVars, Told

LEMMA RegistryStep ==
    SignInInv /\ [SignInNext]_signInVars => [Registry!RegistryNext]_Registry!registryVars
<1> SUFFICES ASSUME SignInInv, [SignInNext]_signInVars
             PROVE  [Registry!RegistryNext]_Registry!registryVars
    OBVIOUS
<1>1. ASSUME NEW r \in Requests, CommitStep(r) PROVE Registry!RegistryNext
    BY <1>1, CommitOpens
<1>2. ASSUME NEW r \in Requests, Quiet(r)
      PROVE  Registry!RegistryNext \/ UNCHANGED Registry!registryVars
    <2>1. CASE WriteAuthAudit(r) /\ op[r] = "register"
        BY <2>1, AuditConfirms
    <2>2. CASE EmailTaken(r) /\ op[r] = "register"
        BY <2>2, TakenRefuses
    <2>3. CASE ~ (WriteAuthAudit(r) /\ op[r] = "register")
               /\ ~ (EmailTaken(r) /\ op[r] = "register")
        BY <1>2, <2>3, QuietStutters
    <2> QED BY <2>1, <2>2, <2>3
<1>3. ASSUME NEW t \in Requests, Expire(t) PROVE UNCHANGED Registry!registryVars
    BY <1>3 DEF Expire, Unanswered, SameInput, inputVars, dataVars, Registry!registryVars
<1>4. CASE UNCHANGED signInVars
    BY <1>4 DEF signInVars, inputVars, dataVars, Registry!registryVars
<1> QED BY <1>1, <1>2, <1>3, <1>4, SignInSteps, OthersStutter

\* The accounts of PostgresStore are those of AccountRegistry: an address has one
\* account for good, the registration answered with a session is the one that made
\* it, and one answered email_taken lost to another, for any number of requests.
THEOREM PostgresImplementsRegistry == SignInSpec => ImplementsRegistry
<1>1. SignInInit => Registry!RegistryInit
    BY DEF SignInInit, Registry!RegistryInit
<1> QED BY <1>1, RegistryStep, SignInInvHolds, PTL
        DEF SignInSpec, ImplementsRegistry, Registry!RegistrySpec

-----------------------------------------------------------------------------
\* Types of what the property is about.
PeopleTyped ==
    /\ people \in Seq(Account)
    /\ phase \in [Visitors -> {"new", "hashing", "verifying", "done"}]
    /\ asked \in [Visitors -> Addresses \union {"none"}]
    /\ seen \in [Visitors -> Nat]

\* An account is its maker's last act; a registration under way was right about
\* the accounts it has seen.
SeenInv ==
    /\ \A i \in 1 .. Len(people) : phase[people[i].by] = "done"
    /\ \A v \in Visitors :
        /\ seen[v] <= Len(people)
        /\ phase[v] = "hashing" =>
              /\ asked[v] \in Addresses
              /\ \A i \in 1 .. Len(people) : people[i].email = asked[v] => seen[v] < i

MemoryInv == PeopleTyped /\ SeenInv /\ DuplicateNeedsOverlap

LEMMA MemoryInitInv == MemoryInit => MemoryInv
    BY DEF MemoryInit, MemoryInv, PeopleTyped, SeenInv, DuplicateNeedsOverlap

\* A new account of a visitor who had not finished, right about what it saw.
LEMMA AppendKeepsInv ==
    ASSUME MemoryInv, NEW v \in Visitors, NEW e \in Addresses,
           NEW h \in {"password", "oidc"},
           phase[v] # "done",
           phase' = [phase EXCEPT ![v] = "done"],
           people' = Append(people, [email |-> e, by |-> v, hash |-> h]),
           asked' \in [Visitors -> Addresses \union {"none"}],
           \A u \in Visitors \ {v} : asked'[u] = asked[u] /\ seen'[u] = seen[u],
           seen' \in [Visitors -> Nat], seen'[v] <= Len(people),
           \A i \in 1 .. Len(people) :
                people[i].email = e => seen'[v] < i /\ h = "password"
    PROVE  MemoryInv'
<1> DEFINE one == [email |-> e, by |-> v, hash |-> h]
<1>0. one \in Account /\ people \in Seq(Account)
    BY DEF MemoryInv, PeopleTyped, Account
<1>1. /\ people' \in Seq(Account)
      /\ Len(people') = Len(people) + 1 /\ people'[Len(people) + 1] = one
      /\ \A i \in 1 .. Len(people) : people'[i] = people[i] /\ people[i] \in Account
    BY <1>0, AppendProperties, ElementOfSeq
<1>2. PeopleTyped'
    <2>1. phase' \in [Visitors -> {"new", "hashing", "verifying", "done"}]
        BY DEF MemoryInv, PeopleTyped
    <2> QED BY <1>1, <2>1 DEF PeopleTyped
<1>3. \A i \in 1 .. Len(people) : people[i].by \in Visitors \ {v}
    BY <1>1 DEF MemoryInv, SeenInv, Account
<1>4. Len(people) \in Nat
    BY <1>0, LenProperties
<1>5. SeenInv'
    <2>1. \A i \in 1 .. Len(people') : phase'[people'[i].by] = "done"
        BY <1>1, <1>3, <1>4 DEF MemoryInv, SeenInv, PeopleTyped
    <2>2. ASSUME NEW u \in Visitors PROVE seen'[u] <= Len(people')
        <3>1. seen'[u] \in Nat /\ seen'[u] <= Len(people)
            BY DEF MemoryInv, SeenInv, PeopleTyped
        <3> QED BY <3>1, <1>1, <1>4
    <2>3. ASSUME NEW u \in Visitors, phase'[u] = "hashing"
          PROVE  /\ asked'[u] \in Addresses
                 /\ \A i \in 1 .. Len(people') : people'[i].email = asked'[u] => seen'[u] < i
        <3>1. u # v /\ phase[u] = "hashing"
            BY <2>3 DEF MemoryInv, PeopleTyped
        <3>2. asked'[u] = asked[u] /\ seen'[u] = seen[u] /\ seen[u] \in Nat
              /\ seen[u] <= Len(people)
            BY <3>1 DEF MemoryInv, SeenInv, PeopleTyped
        <3> QED BY <1>1, <1>4, <3>1, <3>2 DEF MemoryInv, SeenInv
    <2> QED BY <2>1, <2>2, <2>3 DEF SeenInv
<1>6. DuplicateNeedsOverlap'
    <2> SUFFICES ASSUME NEW i \in 1 .. Len(people'), NEW j \in 1 .. Len(people'),
                        i < j, people'[i].email = people'[j].email
                 PROVE  seen'[people'[j].by] < i /\ people'[j].hash = "password"
        BY DEF DuplicateNeedsOverlap
    <2>1. CASE j = Len(people) + 1
        BY <2>1, <1>1, <1>4
    <2>2. CASE j # Len(people) + 1
        <3>1. i \in 1 .. Len(people) /\ j \in 1 .. Len(people)
            BY <2>2, <1>1, <1>4
        <3>2. people'[i] = people[i] /\ people'[j] = people[j]
            BY <3>1, <1>1
        <3>3. seen[people[j].by] < i /\ people[j].hash = "password"
            BY <3>1, <3>2 DEF MemoryInv, DuplicateNeedsOverlap
        <3>4. seen'[people[j].by] = seen[people[j].by]
            BY <3>1, <1>3
        <3> QED BY <3>2, <3>3, <3>4
    <2> QED BY <2>1, <2>2
<1> QED BY <1>2, <1>5, <1>6 DEF MemoryInv

\* A step that adds no account.
LEMMA LookKeepsInv ==
    ASSUME MemoryInv, NEW v \in Visitors, NEW e \in Addresses,
           NEW next \in {"hashing", "verifying", "done"},
           Look(v, e, next), next = "hashing" => ~Known(e), UNCHANGED people
    PROVE  MemoryInv'
<1>1. Len(people) \in Nat /\ \A i \in 1 .. Len(people) : people[i] \in Account
    BY LenProperties DEF MemoryInv, PeopleTyped
<1>2. PeopleTyped'
    BY <1>1 DEF MemoryInv, PeopleTyped, Look
<1>3. \A i \in 1 .. Len(people) : people[i].by \in Visitors \ {v}
    BY <1>1 DEF MemoryInv, SeenInv, Look, Account
<1>4. SeenInv'
    <2>1. /\ phase' = [phase EXCEPT ![v] = next] /\ asked' = [asked EXCEPT ![v] = e]
          /\ seen' = [seen EXCEPT ![v] = Len(people)]
        BY DEF Look
    <2>2. \A i \in 1 .. Len(people) : phase'[people[i].by] = "done"
        BY <1>3, <2>1 DEF MemoryInv, SeenInv, PeopleTyped
    <2>3. ASSUME NEW u \in Visitors PROVE seen'[u] <= Len(people)
        BY <1>1, <2>1 DEF MemoryInv, SeenInv, PeopleTyped
    <2>4. ASSUME NEW u \in Visitors, phase'[u] = "hashing"
          PROVE  /\ asked'[u] \in Addresses
                 /\ \A i \in 1 .. Len(people) : people[i].email = asked'[u] => seen'[u] < i
        <3>1. CASE u = v
            BY <2>1, <2>4, <3>1 DEF Known, MemoryInv, PeopleTyped
        <3>2. CASE u # v
            BY <2>1, <2>4, <3>2 DEF MemoryInv, PeopleTyped, SeenInv
        <3> QED BY <3>1, <3>2
    <2> QED BY <2>2, <2>3, <2>4 DEF SeenInv
<1>5. DuplicateNeedsOverlap'
    BY <1>1, <1>3 DEF MemoryInv, PeopleTyped, DuplicateNeedsOverlap, Look
<1> QED BY <1>2, <1>4, <1>5 DEF MemoryInv

LEMMA MemoryInvInductive == MemoryInv /\ [MemoryNext]_memoryVars => MemoryInv'
<1> SUFFICES ASSUME MemoryInv, [MemoryNext]_memoryVars PROVE MemoryInv'
    OBVIOUS
<1>1. ASSUME NEW v \in Visitors, NEW e \in Addresses, AskForAccount(v, e) PROVE MemoryInv'
    BY <1>1, LookKeepsInv DEF AskForAccount
<1>2. ASSUME NEW v \in Visitors, NEW e \in Addresses, FindOrCreate(v, e) PROVE MemoryInv'
    <2>1. CASE Known(e)
        BY <1>2, <2>1, LookKeepsInv DEF FindOrCreate
    <2>2. CASE ~Known(e)
        <3>1. Len(people) \in Nat
            BY LenProperties DEF MemoryInv, PeopleTyped
        <3>2. /\ asked' = [asked EXCEPT ![v] = e] /\ seen' = [seen EXCEPT ![v] = Len(people)]
              /\ phase' = [phase EXCEPT ![v] = "done"] /\ phase[v] # "done"
              /\ people' = Append(people, [email |-> e, by |-> v, hash |-> "oidc"])
            BY <1>2, <2>2 DEF FindOrCreate, Look
        <3>3. /\ asked' \in [Visitors -> Addresses \union {"none"}]
              /\ seen' \in [Visitors -> Nat] /\ seen'[v] <= Len(people)
              /\ \A u \in Visitors \ {v} : asked'[u] = asked[u] /\ seen'[u] = seen[u]
            BY <1>2, <3>1, <3>2 DEF MemoryInv, PeopleTyped
        <3>4. \A i \in 1 .. Len(people) :
                people[i].email = e => seen'[v] < i /\ "oidc" = "password"
            BY <2>2 DEF Known
        <3> QED BY <3>2, <3>3, <3>4, AppendKeepsInv
    <2> QED BY <2>1, <2>2
<1>3. ASSUME NEW v \in Visitors, NEW e \in Addresses, AskForSession(v, e) PROVE MemoryInv'
    BY <1>3, LookKeepsInv DEF AskForSession
<1>4. ASSUME NEW v \in Visitors, InsertAccount(v) PROVE MemoryInv'
    <2>1. asked[v] \in Addresses /\ phase[v] = "hashing"
        BY <1>4 DEF InsertAccount, MemoryInv, SeenInv
    <2>2. /\ phase' = [phase EXCEPT ![v] = "done"] /\ UNCHANGED <<asked, seen>>
          /\ people' = Append(people, [email |-> asked[v], by |-> v, hash |-> "password"])
        BY <1>4 DEF InsertAccount
    <2>3. /\ seen[v] <= Len(people)
          /\ \A i \in 1 .. Len(people) : people[i].email = asked[v] => seen[v] < i
        BY <2>1, <1>4 DEF MemoryInv, SeenInv
    <2> QED BY <1>4, <2>1, <2>2, <2>3, AppendKeepsInv DEF MemoryInv, PeopleTyped
<1>5. ASSUME NEW v \in Visitors, Verified(v) PROVE MemoryInv'
    BY <1>5 DEF Verified, MemoryInv, PeopleTyped, SeenInv, DuplicateNeedsOverlap
<1>6. CASE UNCHANGED memoryVars
    BY <1>6 DEF memoryVars, MemoryInv, PeopleTyped, SeenInv, DuplicateNeedsOverlap
<1> QED BY <1>1, <1>2, <1>3, <1>4, <1>5, <1>6 DEF MemoryNext

\* createUser of the memory store refuses an address that has an account, except
\* to a registration that was hashing its password meanwhile: with any number of
\* requests, a second account of an address is that of one which had looked first.
THEOREM DuplicateTakesOverlap == MemorySpec => []DuplicateNeedsOverlap
<1>1. MemoryInv => DuplicateNeedsOverlap
    BY DEF MemoryInv
<1> QED BY <1>1, MemoryInitInv, MemoryInvInductive, PTL DEF MemorySpec

-----------------------------------------------------------------------------
\* A set of naturals has a least member.
LEMMA LeastOne ==
    ASSUME NEW T \in SUBSET Nat, T # {} PROVE \E n \in T : \A m \in T : n <= m
<1>1. PICK n \in T : \A m \in T : ~(<<m, n>> \in OpToRel(<, Nat))
    BY WFMin, NatLessThanWellFounded
<1>2. ASSUME NEW m \in T PROVE n <= m
    <2>1. ~(<<m, n>> \in OpToRel(<, Nat))
        BY <1>1
    <2> QED BY <2>1 DEF OpToRel
<1> QED BY <1>2

\* The loops of the memory store end at the first account of an address, and
\* find one whenever there is one.
LEMMA FirstIsFound ==
    ASSUME people \in Seq(Account), NEW e, Known(e)
    PROVE  \E i \in 1 .. Len(people) :
             /\ people[i] = FirstWith(e) /\ people[i].email = e
             /\ \A j \in 1 .. (i - 1) : people[j].email # e
<1> DEFINE Found == {i \in 1 .. Len(people) : people[i].email = e}
<1>1. Len(people) \in Nat
    BY LenProperties
<1>2. Found \in SUBSET Nat /\ Found # {}
    BY <1>1 DEF Known
<1>3. PICK i \in Found : \A j \in Found : i <= j
    BY <1>2, LeastOne
<1>4. \A j \in 1 .. (i - 1) : people[j].email # e
    <2> SUFFICES ASSUME NEW j \in 1 .. (i - 1), people[j].email = e PROVE FALSE
        OBVIOUS
    <2>1. j \in Found /\ j < i /\ i \in Nat /\ j \in Nat
        BY <1>1
    <2> HIDE DEF Found
    <2> QED BY <1>3, <2>1
<1> DEFINE k == CHOOSE n \in 1 .. Len(people) :
                    /\ people[n].email = e
                    /\ \A j \in 1 .. (n - 1) : people[j].email # e
<1>5. /\ k \in 1 .. Len(people) /\ people[k].email = e
      /\ \A j \in 1 .. (k - 1) : people[j].email # e
    BY <1>4
<1>6. FirstWith(e) = people[k]
    BY DEF FirstWith
<1> HIDE DEF k
<1> QED BY <1>5, <1>6

\* A session in memory is for an account of the address that was asked for: the
\* one that the request has made, or the first there is.
SessionsOfAddress ==
    \A v \in Visitors : signedIn[v] # NoVisitor =>
        \E i \in 1 .. Len(people) :
            /\ people[i].by = signedIn[v] /\ people[i].email = asked[v]
            /\ \/ signedIn[v] = v
               \/ \A j \in 1 .. (i - 1) : people[j].email # asked[v]

SessionInv ==
    /\ signedIn \in [Visitors -> Visitors \union {NoVisitor}]
    /\ \A v \in Visitors :
           /\ phase[v] = "verifying" => Known(asked[v])
           /\ signedIn[v] # NoVisitor => phase[v] = "done"
    /\ SessionsOfAddress

\* Accounts are only ever added, at the end; a request that is not at work keeps
\* its address, and the one that is was given nothing before.
LEMMA SessionStep ==
    ASSUME MemoryInv, SessionInv, NEW v \in Visitors, phase[v] # "done",
           people' \in Seq(Account), Len(people) <= Len(people'),
           \A i \in 1 .. Len(people) : people'[i] = people[i],
           \A u \in Visitors \ {v} :
               asked'[u] = asked[u] /\ phase'[u] = phase[u] /\ signedIn'[u] = signedIn[u],
           signedIn' \in [Visitors -> Visitors \union {NoVisitor}],
           phase'[v] = "verifying" => Known(asked'[v]) /\ people' = people,
           signedIn'[v] # NoVisitor =>
               /\ phase'[v] = "done"
               /\ \E i \in 1 .. Len(people') :
                     /\ people'[i].by = signedIn'[v] /\ people'[i].email = asked'[v]
                     /\ \/ signedIn'[v] = v
                        \/ \A j \in 1 .. (i - 1) : people'[j].email # asked'[v]
    PROVE  SessionInv'
<1>1. Len(people) \in Nat /\ Len(people') \in Nat
    BY LenProperties DEF MemoryInv, PeopleTyped
<1>2. ASSUME NEW u \in Visitors, phase'[u] = "verifying" PROVE Known(asked[u])'
    <2>1. CASE u = v
        BY <1>2, <2>1 DEF Known
    <2>2. CASE u # v
        <3>1. PICK i \in 1 .. Len(people) : people[i].email = asked[u]
            BY <1>2, <2>2 DEF SessionInv, Known
        <3>2. i \in 1 .. Len(people')
            BY <1>1
        <3> QED BY <2>2, <3>1, <3>2 DEF Known
    <2> QED BY <2>1, <2>2
<1>3. ASSUME NEW u \in Visitors, signedIn'[u] # NoVisitor PROVE phase'[u] = "done"
    BY <1>3 DEF SessionInv
<1>4. ASSUME NEW u \in Visitors, signedIn'[u] # NoVisitor
      PROVE  \E i \in 1 .. Len(people') :
                /\ people'[i].by = signedIn'[u] /\ people'[i].email = asked'[u]
                /\ \/ signedIn'[u] = u
                   \/ \A j \in 1 .. (i - 1) : people'[j].email # asked'[u]
    <2>1. CASE u = v
        BY <1>4, <2>1
    <2>2. CASE u # v
        <3>1. /\ asked'[u] = asked[u] /\ signedIn'[u] = signedIn[u]
              /\ signedIn[u] # NoVisitor
            BY <1>4, <2>2
        <3>2. PICK i \in 1 .. Len(people) :
                /\ people[i].by = signedIn[u] /\ people[i].email = asked[u]
                /\ \/ signedIn[u] = u
                   \/ \A j \in 1 .. (i - 1) : people[j].email # asked[u]
            BY <3>1 DEF SessionInv, SessionsOfAddress
        <3>3. i \in 1 .. Len(people') /\ people'[i] = people[i]
              /\ \A j \in 1 .. (i - 1) : people'[j] = people[j]
            BY <1>1
        <3> QED BY <3>1, <3>2, <3>3
    <2> QED BY <2>1, <2>2
<1> QED BY <1>2, <1>3, <1>4 DEF SessionInv, SessionsOfAddress

LEMMA SessionInitInv == MemoryInit => SessionInv
    BY VisitorAssumption DEF MemoryInit, SessionInv, SessionsOfAddress

\* The request that adds an account is signed in to that one.
LEMMA OwnAccount ==
    ASSUME MemoryInv, MemoryInv', SessionInv, NEW v \in Visitors, phase[v] # "done",
           NEW e, NEW h,
           people' = Append(people, [email |-> e, by |-> v, hash |-> h]),
           signedIn' = [signedIn EXCEPT ![v] = v], asked'[v] = e,
           phase' = [phase EXCEPT ![v] = "done"],
           \A u \in Visitors \ {v} : asked'[u] = asked[u]
    PROVE  SessionInv'
<1> DEFINE one == [email |-> e, by |-> v, hash |-> h]
<1>1. people \in Seq(Account) /\ people' \in Seq(Account)
    BY DEF MemoryInv, PeopleTyped
<1>2. Len(people) \in Nat
    BY <1>1, LenProperties
<1>3. /\ Len(people') = Len(people) + 1 /\ people'[Len(people) + 1] = one
      /\ \A i \in 1 .. Len(people) : people'[i] = people[i]
    <2>1. people \in Seq(Account \union {one})
        BY <1>1, <1>2, LenProperties, SeqDef
    <2> QED BY <2>1, AppendProperties
<1>4. signedIn' \in [Visitors -> Visitors \union {NoVisitor}] /\ signedIn'[v] = v
      /\ \A u \in Visitors \ {v} : signedIn'[u] = signedIn[u]
    BY DEF SessionInv
<1>5. phase'[v] = "done" /\ \A u \in Visitors \ {v} : phase'[u] = phase[u]
    BY DEF MemoryInv, PeopleTyped
<1>6. one.by = v /\ one.email = e
    OBVIOUS
<1> HIDE DEF one
<1>7. \E i \in 1 .. Len(people') : people'[i].by = v /\ people'[i].email = asked'[v]
    BY <1>2, <1>3, <1>6
<1>8. \E i \in 1 .. Len(people') :
        /\ people'[i].by = signedIn'[v] /\ people'[i].email = asked'[v]
        /\ \/ signedIn'[v] = v
           \/ \A j \in 1 .. (i - 1) : people'[j].email # asked'[v]
    BY <1>4, <1>7
<1>9. Len(people) <= Len(people')
    BY <1>2, <1>3
<1> QED BY <1>1, <1>3, <1>4, <1>5, <1>8, <1>9, SessionStep

\* A request is signed in to the first account of its address, or to none.
LEMMA FirstAccount ==
    ASSUME MemoryInv, SessionInv, NEW v \in Visitors, phase[v] # "done", UNCHANGED people,
           \A u \in Visitors \ {v} : asked'[u] = asked[u], Known(asked'[v]),
           phase' = [phase EXCEPT ![v] = "done"],
           \/ signedIn' = [signedIn EXCEPT ![v] = FirstWith(asked'[v]).by]
           \/ UNCHANGED signedIn
    PROVE  SessionInv'
<1>1. people \in Seq(Account) /\ phase \in [Visitors -> {"new", "hashing", "verifying", "done"}]
      /\ \A i \in 1 .. Len(people) : people[i] \in Account
    BY ElementOfSeq DEF MemoryInv, PeopleTyped
<1>2. PICK i \in 1 .. Len(people) :
        /\ people[i] = FirstWith(asked'[v]) /\ people[i].email = asked'[v]
        /\ \A j \in 1 .. (i - 1) : people[j].email # asked'[v]
    BY <1>1, FirstIsFound
<1>3. people[i].by \in Visitors
    BY <1>1 DEF Account
<1>4. signedIn[v] = NoVisitor /\ Len(people) \in Nat
    BY <1>1, LenProperties DEF SessionInv
<1>5. phase'[v] = "done" /\ \A u \in Visitors \ {v} : phase'[u] = phase[u]
    BY <1>1
<1>6. CASE signedIn' = [signedIn EXCEPT ![v] = FirstWith(asked'[v]).by]
    <2>1. signedIn' = [signedIn EXCEPT ![v] = people[i].by]
        BY <1>2, <1>6
    <2>2. signedIn' \in [Visitors -> Visitors \union {NoVisitor}] /\ signedIn'[v] = people[i].by
          /\ \A u \in Visitors \ {v} : signedIn'[u] = signedIn[u]
        BY <1>3, <2>1 DEF SessionInv
    <2> HIDE <2>1
    <2> QED BY <1>1, <1>2, <1>4, <1>5, <2>2, SessionStep
<1>7. CASE UNCHANGED signedIn
    BY <1>1, <1>4, <1>5, <1>7, SessionStep DEF SessionInv
<1> QED BY <1>6, <1>7

LEMMA SessionInvInductive ==
    MemoryInv /\ MemoryInv' /\ SessionInv /\ [MemoryNext]_memoryVars => SessionInv'
<1> SUFFICES ASSUME MemoryInv, MemoryInv', SessionInv, [MemoryNext]_memoryVars
             PROVE  SessionInv'
    OBVIOUS
<1>0. /\ people \in Seq(Account) /\ Len(people) \in Nat
      /\ phase \in [Visitors -> {"new", "hashing", "verifying", "done"}]
      /\ asked \in [Visitors -> Addresses \union {"none"}]
    BY LenProperties DEF MemoryInv, PeopleTyped
<1>1. ASSUME NEW v \in Visitors, NEW e \in Addresses, NEW next \in {"done", "hashing", "verifying"},
             Look(v, e, next), next = "verifying" => Known(e),
             UNCHANGED <<people, signedIn>>
      PROVE  SessionInv'
    <2>1. /\ phase[v] # "done" /\ phase'[v] = next /\ asked'[v] = e
          /\ \A u \in Visitors \ {v} : asked'[u] = asked[u] /\ phase'[u] = phase[u]
        BY <1>0, <1>1 DEF Look
    <2>2. signedIn'[v] = NoVisitor
        BY <1>1, <2>1 DEF SessionInv
    <2>3. signedIn' \in [Visitors -> Visitors \union {NoVisitor}]
        BY <1>1 DEF SessionInv
    <2> QED BY <1>0, <1>1, <2>1, <2>2, <2>3, SessionStep
<1>2. ASSUME NEW v \in Visitors, NEW e \in Addresses, AskForAccount(v, e) PROVE SessionInv'
    BY <1>1, <1>2 DEF AskForAccount
<1>3. ASSUME NEW v \in Visitors, NEW e \in Addresses, AskForSession(v, e) PROVE SessionInv'
    <2>1. CASE Known(e) /\ FirstWith(e).hash = "password"
        BY <1>1, <1>3, <2>1 DEF AskForSession
    <2>2. CASE ~(Known(e) /\ FirstWith(e).hash = "password")
        BY <1>1, <1>3, <2>2 DEF AskForSession
    <2> QED BY <2>1, <2>2
<1>4. ASSUME NEW v \in Visitors, NEW e \in Addresses, FindOrCreate(v, e) PROVE SessionInv'
    <2>1. /\ phase[v] # "done" /\ phase' = [phase EXCEPT ![v] = "done"] /\ asked'[v] = e
          /\ \A u \in Visitors \ {v} : asked'[u] = asked[u]
        BY <1>0, <1>4 DEF FindOrCreate, Look
    <2>2. CASE Known(e)
        <3>1. UNCHANGED people /\ signedIn' = [signedIn EXCEPT ![v] = FirstWith(asked'[v]).by]
            BY <1>4, <2>1, <2>2 DEF FindOrCreate
        <3> QED BY <2>1, <2>2, <3>1, FirstAccount
    <2>3. CASE ~Known(e)
        <3>1. /\ people' = Append(people, [email |-> e, by |-> v, hash |-> "oidc"])
              /\ signedIn' = [signedIn EXCEPT ![v] = v]
            BY <1>4, <2>3 DEF FindOrCreate
        <3> QED BY <2>1, <3>1, OwnAccount
    <2> QED BY <2>2, <2>3
<1>5. ASSUME NEW v \in Visitors, InsertAccount(v) PROVE SessionInv'
    <2>1. /\ phase[v] # "done" /\ phase' = [phase EXCEPT ![v] = "done"] /\ UNCHANGED asked
          /\ people' = Append(people, [email |-> asked[v], by |-> v, hash |-> "password"])
          /\ signedIn' = [signedIn EXCEPT ![v] = v]
        BY <1>5 DEF InsertAccount
    <2> QED BY <2>1, OwnAccount
<1>6. ASSUME NEW v \in Visitors, Verified(v) PROVE SessionInv'
    <2>1. /\ phase[v] = "verifying" /\ phase' = [phase EXCEPT ![v] = "done"]
          /\ UNCHANGED <<people, asked>>
          /\ \/ signedIn' = [signedIn EXCEPT ![v] = FirstWith(asked[v]).by]
             \/ UNCHANGED signedIn
        BY <1>6 DEF Verified
    <2>2. Known(asked[v])
        BY <2>1 DEF SessionInv
    <2> QED BY <2>1, <2>2, FirstAccount
<1>7. CASE UNCHANGED memoryVars
    BY <1>7 DEF memoryVars, SessionInv, SessionsOfAddress, Known
<1> QED BY <1>2, <1>3, <1>4, <1>5, <1>6, <1>7 DEF MemoryNext

\* authenticateUser and findOrCreateOidcUser of the memory store: for any number
\* of requests, a session is for an account of the address asked for, and the
\* later of two accounts of one address only ever serves the registration that
\* made it.
THEOREM SessionsNameTheirAddress == MemorySpec => []SessionsOfAddress
<1>1. SessionInv => SessionsOfAddress
    BY DEF SessionInv
<1> QED BY <1>1, MemoryInitInv, MemoryInvInductive, SessionInitInv, SessionInvInductive, PTL
        DEF MemorySpec

-----------------------------------------------------------------------------
\* A request that works at a hook has an attempt left to make, or is at its last.
AttemptsInv ==
    \A d \in Dispatches :
        dispatchAt[d] \in {"post", "delivered", "bill", "retrying"} => attempt[d] < InlineTries

LEMMA InlineTypeInit == InlineInit => InlineTypeOK /\ AttemptsInv
    BY DEF InlineInit, InlineTypeOK, AttemptsInv, InlineTries, Rows

LEMMA InlineTypeInductive ==
    InlineTypeOK /\ AttemptsInv /\ [InlineNext]_inlineVars => (InlineTypeOK /\ AttemptsInv)'
<1> SUFFICES ASSUME InlineTypeOK, AttemptsInv, [InlineNext]_inlineVars
             PROVE  (InlineTypeOK /\ AttemptsInv)'
    OBVIOUS
<1> DEFINE places == {"idle", "hook", "post", "delivered", "bill", "retrying", "over"}
           states == {"absent", "pending", "retrying", "delivered"}
           tally == 0 .. 3
           allRows == Rows
<1>0. /\ dispatchAt \in [Dispatches -> places] /\ target \in [Dispatches -> Nat \ {0}]
      /\ attempt \in [Dispatches -> tally] /\ row \in [allRows -> states]
      /\ tries \in [allRows -> tally] /\ posted \in [allRows -> Nat]
      /\ taken \in [allRows -> Nat] /\ billed \in Nat /\ cut \subseteq Dispatches
    BY DEF InlineTypeOK, InlineTries
<1>00. ASSUME /\ dispatchAt' \in [Dispatches -> places] /\ target' \in [Dispatches -> Nat \ {0}]
              /\ attempt' \in [Dispatches -> tally] /\ row' \in [allRows -> states]
              /\ tries' \in [allRows -> tally] /\ posted' \in [allRows -> Nat]
              /\ taken' \in [allRows -> Nat] /\ billed' \in Nat /\ cut' \subseteq Dispatches
       PROVE  InlineTypeOK'
    BY <1>00 DEF InlineTypeOK, InlineTries
<1> HIDE DEF allRows
<1>1. ASSUME NEW d \in Dispatches, Announce(d) PROVE (InlineTypeOK /\ AttemptsInv)'
    BY <1>0, <1>00, <1>1 DEF Announce, MoveOn, AttemptsInv, InlineTries
<1>2. ASSUME NEW d \in Dispatches, PassOver(d) PROVE (InlineTypeOK /\ AttemptsInv)'
    BY <1>0, <1>00, <1>2 DEF PassOver, MoveOn, NextTarget, AttemptsInv, InlineTries
<1>3. ASSUME NEW d \in Dispatches, EndDispatch(d) PROVE (InlineTypeOK /\ AttemptsInv)'
    BY <1>0, <1>00, <1>3 DEF EndDispatch, MoveOn, AttemptsInv, InlineTries
<1>4. ASSUME NEW d \in Dispatches, InsertRow(d) PROVE (InlineTypeOK /\ AttemptsInv)'
    <2> DEFINE here == RowOf(d)
    <2>1. /\ dispatchAt' = [dispatchAt EXCEPT ![d] = "post"]
          /\ row' = [row EXCEPT ![here] = "pending"] /\ attempt' = [attempt EXCEPT ![d] = 0]
          /\ UNCHANGED <<target, tries, posted, taken, billed, cut>>
        BY <1>4 DEF InsertRow, MoveOn
    <2> HIDE DEF here
    <2>2. row' \in [allRows -> states]
        BY <1>0, <2>1
    <2>3. /\ dispatchAt' \in [Dispatches -> places] /\ attempt' \in [Dispatches -> tally]
          /\ AttemptsInv'
        BY <1>0, <2>1 DEF AttemptsInv, InlineTries
    <2> QED BY <1>0, <1>00, <2>1, <2>2, <2>3
<1>5. ASSUME NEW d \in Dispatches, PostTo(d) PROVE (InlineTypeOK /\ AttemptsInv)'
    <2> DEFINE here == RowOf(d)
    <2>1. PICK arrived, confirmed \in BOOLEAN :
            /\ dispatchAt[d] = "post"
            /\ dispatchAt' = [dispatchAt EXCEPT
                                ![d] = IF confirmed THEN "delivered" ELSE "retrying"]
            /\ posted' = [posted EXCEPT ![here] = @ + 1]
            /\ taken' = [taken EXCEPT ![here] = @ + IF arrived THEN 1 ELSE 0]
            /\ UNCHANGED <<target, attempt, row, tries, billed, cut>>
        BY <1>5 DEF PostTo, MoveOn
    <2> HIDE DEF here
    <2>2. posted' \in [allRows -> Nat] /\ taken' \in [allRows -> Nat]
        <3>1. ASSUME NEW r \in allRows PROVE posted'[r] \in Nat /\ taken'[r] \in Nat
            BY <1>0, <2>1
        <3>2. DOMAIN posted' = allRows /\ DOMAIN taken' = allRows
            BY <1>0, <2>1
        <3> QED BY <1>0, <2>1, <3>1, <3>2
    <2>3. dispatchAt' \in [Dispatches -> places] /\ AttemptsInv'
        BY <1>0, <2>1 DEF AttemptsInv, InlineTries
    <2> QED BY <1>0, <1>00, <2>1, <2>2, <2>3
<1>6. ASSUME NEW d \in Dispatches, UpdateDelivered(d) PROVE (InlineTypeOK /\ AttemptsInv)'
    <2> DEFINE here == RowOf(d)
    <2>1. /\ dispatchAt[d] = "delivered" /\ dispatchAt' = [dispatchAt EXCEPT ![d] = "bill"]
          /\ row' = [row EXCEPT ![here] = "delivered"]
          /\ tries' = [tries EXCEPT ![here] = attempt[d] + 1]
          /\ UNCHANGED <<target, attempt, posted, taken, billed, cut>>
        BY <1>6 DEF UpdateDelivered, UpdateRow, MoveOn
    <2> HIDE DEF here
    <2>2. attempt[d] + 1 \in tally
        BY <1>0, <2>1 DEF AttemptsInv, InlineTries
    <2> QED BY <1>0, <1>00, <2>1, <2>2 DEF AttemptsInv, InlineTries
<1>7. ASSUME NEW d \in Dispatches, Bill(d) PROVE (InlineTypeOK /\ AttemptsInv)'
    BY <1>0, <1>00, <1>7 DEF Bill, MoveOn, NextTarget, AttemptsInv, InlineTries
<1>8. ASSUME NEW d \in Dispatches, UpdateRetrying(d) PROVE (InlineTypeOK /\ AttemptsInv)'
    <2> DEFINE here == RowOf(d)
    <2>1. /\ dispatchAt[d] = "retrying" /\ row' = [row EXCEPT ![here] = "retrying"]
          /\ tries' = [tries EXCEPT ![here] = attempt[d] + 1]
          /\ attempt' = [attempt EXCEPT ![d] = @ + 1]
          /\ UNCHANGED <<posted, taken, billed, cut>>
          /\ \/ /\ TriesLeft(d) /\ UNCHANGED target
                /\ dispatchAt' = [dispatchAt EXCEPT ![d] = "post"]
             \/ /\ target' = [target EXCEPT ![d] = @ + 1]
                /\ dispatchAt' = [dispatchAt EXCEPT ![d] = "hook"]
        BY <1>8 DEF UpdateRetrying, UpdateRow, MoveOn, NextTarget
    <2> HIDE DEF here
    <2>2. attempt[d] + 1 \in tally
        BY <1>0, <2>1 DEF AttemptsInv, InlineTries
    <2>3. row' \in [allRows -> states] /\ tries' \in [allRows -> tally]
          /\ attempt' \in [Dispatches -> tally] /\ target' \in [Dispatches -> Nat \ {0}]
          /\ dispatchAt' \in [Dispatches -> places]
        <3>1. row' \in [allRows -> states]
            BY <1>0, <2>1
        <3>2. tries' \in [allRows -> tally]
            BY <1>0, <2>1, <2>2
        <3>3. attempt' \in [Dispatches -> tally]
            BY <1>0, <2>1, <2>2
        <3>4. target' \in [Dispatches -> Nat \ {0}] /\ dispatchAt' \in [Dispatches -> places]
            BY <1>0, <2>1
        <3> QED BY <3>1, <3>2, <3>3, <3>4
    <2>4. AttemptsInv'
        BY <1>0, <2>1 DEF AttemptsInv, InlineTries, TriesLeft
    <2> QED BY <1>0, <1>00, <2>1, <2>3, <2>4
<1>9. ASSUME NEW d \in Dispatches, StoreRejects(d) PROVE (InlineTypeOK /\ AttemptsInv)'
    BY <1>0, <1>00, <1>9 DEF StoreRejects, MoveOn, AttemptsInv, InlineTries
<1>10. CASE Restart
    BY <1>0, <1>00, <1>10 DEF Restart, Working, AttemptsInv, InlineTries
<1>11. CASE UNCHANGED inlineVars
    BY <1>0, <1>00, <1>11 DEF inlineVars, AttemptsInv
<1> QED BY <1>1, <1>2, <1>3, <1>4, <1>5, <1>6, <1>7, <1>8, <1>9, <1>10, <1>11 DEF InlineNext

\* The state of the four stays within its types, however many requests, processes
\* and hooks there are; in particular a hook gets three attempts at most, and the
\* accounts that sessions name are those of visitors.
THEOREM AccountsTyped == SignInSpec /\ MemorySpec /\ BootSpec /\ InlineSpec => []AccountsTypeOK
<1>1. SignInInv => SignInTypeOK
    BY DEF SignInInv
<1>2. MemoryInv /\ SessionInv => MemoryTypeOK
    BY DEF MemoryInv, PeopleTyped, SessionInv, MemoryTypeOK
<1>3. BootInv => BootTypeOK
    BY DEF BootInv
<1>4. SignInTypeOK /\ MemoryTypeOK /\ BootTypeOK /\ InlineTypeOK => AccountsTypeOK
    BY DEF AccountsTypeOK
<1> QED BY <1>1, <1>2, <1>3, <1>4, SignInInvHolds, BootInvHolds,
           MemoryInitInv, MemoryInvInductive, SessionInitInv, SessionInvInductive,
           InlineTypeInit, InlineTypeInductive, PTL DEF MemorySpec, InlineSpec

=============================================================================

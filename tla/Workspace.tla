----------------------------- MODULE Workspace -----------------------------
(***************************************************************************)
(* What the members of a workspace do to it over Postgres: roles           *)
(* (/v1/admin/members), the public url (/v1/admin/settings), API keys, and *)
(* new organizations, with the statements of PostgresStore they await.     *)
(*                                                                         *)
(* setMemberRole reads the actor, the target and the number of owners, and *)
(* writes, in separate statements outside any transaction, so that several *)
(* requests interleave between them.  No route adds a member to an         *)
(* organization: a second member is a row an operator inserts.             *)
(***************************************************************************)
EXTENDS Naturals, FiniteSets

CONSTANTS
    Callers,      \* requests, each sent once
    Users,        \* users, each with one membership
    Actors,       \* the users who send requests
    Org,          \* the organization of each user
    Founders,     \* users who are owners from the start
    ApiProcesses, \* API processes, each with a public url in its memory
    MaxFailures,  \* bound: statements that fail
    NoUser

ASSUME UserAssumption ==
    /\ Actors \subseteq Users /\ Founders \subseteq Users
    /\ NoUser \notin Users
ASSUME FailureAssumption == MaxFailures \in Nat

Roles == {"owner", "admin", "member"}
Steps == {"new", "actor", "target", "count", "update", "settings", "key",
          "organization", "billing", "audit", "done"}
Results == {"nothing", "ok", "forbidden", "user_not_found", "last_owner", "error"}

VARIABLES
    role,       \* memberships.role_id of each user
    apiKeys,    \* api_keys: the requests whose key is stored
    orgs,       \* organizations rows that requests have inserted ...
    billed,     \* ... and billing_accounts rows
    publicUrl,  \* each API process: the request that set its url last
    step, actor, target, wanted,  \* each request: next statement, user, input
    result,     \* what it was answered
    unseated,   \* history: users answered for as no owner, until made one
    tooLate,    \* history: requests such a user has sent
    applied,    \* history: PUT members requests that wrote a role
    overtaken,  \* history: those that read before another of them wrote
    failures    \* statements that have failed

callVars == <<actor, target, wanted>>
otherRows == <<apiKeys, orgs, billed, publicUrl>>
historyOfRoles == <<unseated, tooLate, applied, overtaken>>
workspaceVars ==
    <<role, otherRows, step, callVars, result, historyOfRoles, failures>>

WorkspaceTypeOK ==
    /\ role \in [Users -> Roles]
    /\ apiKeys \subseteq Callers /\ orgs \subseteq Callers /\ billed \subseteq Callers
    /\ publicUrl \in [ApiProcesses -> Callers \union {"environment"}]
    /\ step \in [Callers -> Steps] /\ result \in [Callers -> Results]
    /\ actor \in [Callers -> Users \union {NoUser}]
    /\ target \in [Callers -> Users \union {NoUser}]
    /\ wanted \in [Callers -> Roles \union {"none"}]
    /\ unseated \subseteq Users
    /\ tooLate \subseteq Callers /\ applied \subseteq Callers /\ overtaken \subseteq Callers
    /\ failures \in 0 .. MaxFailures

\* Founders own their workspace from sign-up; operators add members and owners.
WorkspaceInit ==
    /\ role \in [Users -> {"owner", "member"}]
    /\ \A u \in Founders : role[u] = "owner"
    /\ apiKeys = {} /\ orgs = {} /\ billed = {}
    /\ publicUrl = [p \in ApiProcesses |-> "environment"]
    /\ step = [c \in Callers |-> "new"]
    /\ result = [c \in Callers |-> "nothing"]
    /\ actor = [c \in Callers |-> NoUser]
    /\ target = [c \in Callers |-> NoUser]
    /\ wanted = [c \in Callers |-> "none"]
    /\ unseated = {} /\ tooLate = {} /\ applied = {} /\ overtaken = {}
    /\ failures = 0

-----------------------------------------------------------------------------
Continue(c, s) == step' = [step EXCEPT ![c] = s]
Respond(c, what) == Continue(c, "done") /\ result' = [result EXCEPT ![c] = what]

\* The statements only read: the request goes on, or is refused.
ReadOnly ==
    UNCHANGED <<role, otherRows, callVars, historyOfRoles, failures>>
Silent == UNCHANGED <<callVars, historyOfRoles, failures, result>>

\* A request of user u; resolveProject has found the session.
Call(c, u, first) ==
    /\ step[c] = "new"
    /\ actor' = [actor EXCEPT ![c] = u]
    /\ tooLate' = IF u \in unseated THEN tooLate \union {c} ELSE tooLate
    /\ Continue(c, first)
    /\ UNCHANGED <<role, otherRows, result, unseated, applied, overtaken, failures>>

AskForRole(c, u, v, new) ==
    /\ Call(c, u, "actor")
    /\ target' = [target EXCEPT ![c] = v]
    /\ wanted' = [wanted EXCEPT ![c] = new]

\* PUT settings; POST api-keys and api-keys/rotate; POST organizations.
AskForOther(c, u, first) ==
    /\ first \in {"settings", "key", "organization"}
    /\ Call(c, u, first)
    /\ UNCHANGED <<target, wanted>>

-----------------------------------------------------------------------------
\* A bug to try: the role is the one the session was opened with.
ReadActorAtSignIn(c) ==
    /\ step[c] = "actor"
    /\ IF role[actor[c]] = "owner" \/ actor[c] \in unseated
       THEN Continue(c, "target") /\ UNCHANGED result
       ELSE Respond(c, "forbidden")
    /\ ReadOnly

\* The actor's role, as the database has it now.
ReadActor(c) ==
    /\ step[c] = "actor"
    /\ IF role[actor[c]] = "owner"
       THEN Continue(c, "target") /\ UNCHANGED result
       ELSE Respond(c, "forbidden")
    /\ ReadOnly

\* The target, with its organization and role.
ReadTarget(c) ==
    /\ step[c] = "target"
    /\ IF Org[target[c]] # Org[actor[c]]
       THEN Respond(c, "user_not_found")
       ELSE /\ Continue(c, IF role[target[c]] = "owner" /\ wanted[c] # "owner"
                           THEN "count" ELSE "update")
            /\ UNCHANGED result
    /\ ReadOnly

Owners(o) == {u \in Users : Org[u] = o /\ role[u] = "owner"}

\* A bug to try: one owner is enough to go on.
CountOwnersLoosely(c) ==
    /\ step[c] = "count"
    /\ IF Cardinality(Owners(Org[actor[c]])) < 1
       THEN Respond(c, "last_owner")
       ELSE Continue(c, "update") /\ UNCHANGED result
    /\ ReadOnly

\* An owner who is to become less must leave another behind.
CountOwners(c) ==
    /\ step[c] = "count"
    /\ IF Cardinality(Owners(Org[actor[c]])) < 2
       THEN Respond(c, "last_owner")
       ELSE Continue(c, "update") /\ UNCHANGED result
    /\ ReadOnly

\* Requests whose decision rests on rows this write may change.
Deciding == {c \in Callers : step[c] \in {"target", "count", "update"}}

UpdateRole(c) ==
    /\ step[c] = "update"
    /\ role' = [role EXCEPT ![target[c]] = wanted[c]]
    /\ applied' = applied \union {c}
    /\ overtaken' = overtaken \union (Deciding \ {c})
    /\ IF wanted[c] = "owner"
       THEN /\ unseated' = unseated \ {target[c]}
            /\ tooLate' = {d \in tooLate : actor[d] # target[c]}
       ELSE UNCHANGED <<unseated, tooLate>>
    /\ Continue(c, "audit")
    /\ UNCHANGED <<otherRows, callVars, result, failures>>

\* setPublicUrl of the process the request has reached; members are refused.
SetPublicUrl(c, p) ==
    /\ step[c] = "settings"
    /\ IF role[actor[c]] = "member"
       THEN Respond(c, "forbidden") /\ UNCHANGED publicUrl
       ELSE /\ publicUrl' = [publicUrl EXCEPT ![p] = c]
            /\ Continue(c, "audit") /\ UNCHANGED result
    /\ UNCHANGED <<role, apiKeys, orgs, billed, callVars, historyOfRoles, failures>>

\* createApiKey; a rotation leaves the keys there are as they are.
InsertApiKey(c) ==
    /\ step[c] = "key"
    /\ apiKeys' = apiKeys \union {c}
    /\ Continue(c, "audit")
    /\ UNCHANGED <<role, orgs, billed, publicUrl>> /\ Silent

\* createOrg: two statements, no transaction.
InsertOrganization(c) ==
    /\ step[c] = "organization"
    /\ orgs' = orgs \union {c}
    /\ Continue(c, "billing")
    /\ UNCHANGED <<role, apiKeys, billed, publicUrl>> /\ Silent

InsertBilling(c) ==
    /\ step[c] = "billing"
    /\ billed' = billed \union {c}
    /\ Respond(c, "ok")
    /\ UNCHANGED <<role, apiKeys, orgs, publicUrl, callVars, historyOfRoles, failures>>

\* addAudit, and the answer.
WriteAudit(c) ==
    /\ step[c] = "audit"
    /\ Respond(c, "ok")
    /\ unseated' = IF c \in applied /\ role[target[c]] # "owner"
                   THEN unseated \union {target[c]} ELSE unseated
    /\ UNCHANGED <<role, otherRows, callVars, tooLate, applied, overtaken, failures>>

\* A statement fails: what the earlier ones wrote stays.
QueryFails(c) ==
    /\ step[c] \notin {"new", "done"} /\ failures < MaxFailures
    /\ failures' = failures + 1
    /\ Respond(c, "error")
    /\ UNCHANGED <<role, otherRows, callVars, historyOfRoles>>

ChangeRole(c) == ReadActor(c) \/ ReadTarget(c) \/ CountOwners(c) \/ UpdateRole(c)

WorkspaceNext ==
    \E c \in Callers :
        \/ \E u \in Actors, v \in Users, new \in {"owner", "member"} : AskForRole(c, u, v, new)
        \/ \E u \in Actors, first \in {"settings", "key", "organization"} : AskForOther(c, u, first)
        \/ ChangeRole(c)
        \/ \E p \in ApiProcesses : SetPublicUrl(c, p)
        \/ InsertApiKey(c) \/ InsertOrganization(c) \/ InsertBilling(c)
        \/ WriteAudit(c) \/ QueryFails(c)

WorkspaceSpec == WorkspaceInit /\ [][WorkspaceNext]_workspaceVars

-----------------------------------------------------------------------------
\* A workspace that had an owner loses its last one only if a change of role
\* was applied on reads that another had overtaken: requests that do not
\* overlap always leave one.
OwnerlessNeedsOverlap ==
    \A u \in Founders : Owners(Org[u]) = {} => applied \intersect overtaken # {}

\* "Cannot demote the last owner": a workspace that had an owner has one.
AlwaysAnOwner == \A u \in Founders : Owners(Org[u]) # {}

\* A user whose loss of ownership has been answered changes no role with a
\* request sent later, though the session is the one it always had.
UnseatedChangesNothing == tooLate \intersect applied = {}

=============================================================================

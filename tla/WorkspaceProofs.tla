--------------------------- MODULE WorkspaceProofs ---------------------------
(***************************************************************************)
(* Safety of the roles of a workspace (Workspace), for any number of       *)
(* requests, users, organizations and API processes.  Two facts carry it:  *)
(* a user who has been told of the loss of ownership has no request on its *)
(* way to a write, and a request that nobody has overtaken still rests on  *)
(* the rows it has read.                                                   *)
(***************************************************************************)
EXTENDS Workspace, FiniteSetTheorems, TLAPS

\* The organization's rows that no property here is about, and the step.
RequestStep(c) ==
    \/ \E u \in Actors, v \in Users, new \in {"owner", "member"} : AskForRole(c, u, v, new)
    \/ \E u \in Actors, first \in {"settings", "key", "organization"} : AskForOther(c, u, first)
    \/ ReadActor(c) \/ ReadTarget(c) \/ CountOwners(c) \/ UpdateRole(c)
    \/ \E p \in ApiProcesses : SetPublicUrl(c, p)
    \/ InsertApiKey(c) \/ InsertOrganization(c) \/ InsertBilling(c)
    \/ WriteAudit(c) \/ QueryFails(c)

LEMMA NextIsARequestStep == WorkspaceNext <=> \E c \in Callers : RequestStep(c)
    BY DEF WorkspaceNext, RequestStep, ChangeRole

Changing == {"actor", "target", "count", "update"}

\* What a request that may write a role was sent with.
RequestInv ==
    \A c \in Callers :
        /\ step[c] = "new" => c \notin tooLate /\ c \notin applied
        /\ step[c] \in Changing => wanted[c] \in {"owner", "member"} /\ actor[c] \in Users
        /\ step[c] \in Changing \/ c \in applied => target[c] \in Users

\* Who has been told of the loss owns nothing, and no later request of theirs
\* gets past the first statement.
UnseatedInv ==
    /\ \A u \in unseated : role[u] # "owner"
    /\ \A c \in tooLate :
          actor[c] \in unseated /\ step[c] \notin Changing \ {"actor"} /\ c \notin applied

\* The write of c leaves its organization an owner.
LeavesAnOwner(c) ==
    role[target[c]] = "owner" /\ wanted[c] # "owner" =>
        Owners(Org[target[c]]) \ {target[c]} # {}

\* Until a write rests on overtaken reads, founders' organizations have owners
\* and a request nobody has overtaken is about to leave one.
OverlapInv ==
    \/ applied \intersect overtaken # {}
    \/ /\ AlwaysAnOwner
       /\ \A c \in Callers \ overtaken :
            /\ step[c] = "count" => Org[target[c]] = Org[actor[c]]
            /\ step[c] = "update" => LeavesAnOwner(c)

WorkspaceInv == WorkspaceTypeOK /\ RequestInv /\ UnseatedInv /\ OverlapInv

-----------------------------------------------------------------------------
LEMMA InitTyped == WorkspaceInit => WorkspaceTypeOK
<1> SUFFICES ASSUME WorkspaceInit PROVE WorkspaceTypeOK
    OBVIOUS
<1>1. failures \in 0 .. MaxFailures
    BY FailureAssumption DEF WorkspaceInit
<1> QED BY <1>1 DEF WorkspaceInit, WorkspaceTypeOK, Roles, Steps, Results

LEMMA CallTyped ==
    ASSUME WorkspaceTypeOK, NEW c \in Callers, NEW u \in Actors, NEW first \in Steps,
           Call(c, u, first),
           target' \in [Callers -> Users \union {NoUser}],
           wanted' \in [Callers -> Roles \union {"none"}]
    PROVE  WorkspaceTypeOK'
    BY UserAssumption DEF WorkspaceTypeOK, Call, Continue, otherRows

LEMMA StepTyped ==
    ASSUME WorkspaceTypeOK, RequestInv, NEW c \in Callers, RequestStep(c)
    PROVE  WorkspaceTypeOK'
<1> USE DEF Continue, Respond, ReadOnly, Silent, otherRows, callVars, historyOfRoles
<1>1. ASSUME NEW u \in Actors, NEW v \in Users, NEW new \in {"owner", "member"},
             AskForRole(c, u, v, new)
      PROVE  WorkspaceTypeOK'
    BY <1>1, CallTyped DEF AskForRole, WorkspaceTypeOK, Steps, Roles
<1>2. ASSUME NEW u \in Actors, NEW first \in {"settings", "key", "organization"},
             AskForOther(c, u, first)
      PROVE  WorkspaceTypeOK'
    BY <1>2, CallTyped DEF AskForOther, WorkspaceTypeOK, Steps
<1>3. CASE ReadActor(c)
    BY <1>3 DEF ReadActor, WorkspaceTypeOK, Steps, Results
<1>4. CASE ReadTarget(c)
    BY <1>4 DEF ReadTarget, WorkspaceTypeOK, Steps, Results
<1>5. CASE CountOwners(c)
    BY <1>5 DEF CountOwners, WorkspaceTypeOK, Steps, Results
<1>6. CASE UpdateRole(c)
    BY <1>6 DEF UpdateRole, Deciding, WorkspaceTypeOK, Steps, Roles, RequestInv, Changing
<1>7. ASSUME NEW p \in ApiProcesses, SetPublicUrl(c, p) PROVE WorkspaceTypeOK'
    BY <1>7 DEF SetPublicUrl, WorkspaceTypeOK, Steps, Results
<1>8. CASE InsertApiKey(c) \/ InsertOrganization(c) \/ InsertBilling(c)
    BY <1>8 DEF InsertApiKey, InsertOrganization, InsertBilling, WorkspaceTypeOK, Steps, Results
<1>9. CASE WriteAudit(c)
    BY <1>9 DEF WriteAudit, WorkspaceTypeOK, Steps, Results, RequestInv
<1>10. CASE QueryFails(c)
    <2>1. failures' \in 0 .. MaxFailures
        BY <1>10, FailureAssumption DEF QueryFails, WorkspaceTypeOK
    <2> QED BY <1>10, <2>1 DEF QueryFails, WorkspaceTypeOK, Steps, Results
<1> QED BY <1>1, <1>2, <1>3, <1>4, <1>5, <1>6, <1>7, <1>8, <1>9, <1>10 DEF RequestStep

\* A request keeps what it was sent with.
LEMMA StepKeepsRequests ==
    ASSUME WorkspaceTypeOK, RequestInv, NEW c \in Callers, RequestStep(c)
    PROVE  RequestInv'
<1> USE DEF Continue, Respond, ReadOnly, Silent, otherRows, callVars, historyOfRoles, Changing
<1>1. ASSUME NEW u \in Actors, NEW v \in Users, NEW new \in {"owner", "member"},
             AskForRole(c, u, v, new)
      PROVE  RequestInv'
    BY <1>1, UserAssumption DEF AskForRole, Call, WorkspaceTypeOK, RequestInv
<1>2. ASSUME NEW u \in Actors, NEW first \in {"settings", "key", "organization"},
             AskForOther(c, u, first)
      PROVE  RequestInv'
    BY <1>2, UserAssumption DEF AskForOther, Call, WorkspaceTypeOK, RequestInv
<1>3. CASE ReadActor(c)
    BY <1>3 DEF ReadActor, WorkspaceTypeOK, RequestInv
<1>4. CASE ReadTarget(c)
    BY <1>4 DEF ReadTarget, WorkspaceTypeOK, RequestInv
<1>5. CASE CountOwners(c)
    BY <1>5 DEF CountOwners, WorkspaceTypeOK, RequestInv
<1>6. CASE UpdateRole(c)
    BY <1>6 DEF UpdateRole, WorkspaceTypeOK, RequestInv
<1>7. ASSUME NEW p \in ApiProcesses, SetPublicUrl(c, p) PROVE RequestInv'
    BY <1>7 DEF SetPublicUrl, WorkspaceTypeOK, RequestInv
<1>8. CASE InsertApiKey(c) \/ InsertOrganization(c) \/ InsertBilling(c)
    BY <1>8 DEF InsertApiKey, InsertOrganization, InsertBilling, WorkspaceTypeOK, RequestInv
<1>9. CASE WriteAudit(c)
    BY <1>9 DEF WriteAudit, WorkspaceTypeOK, RequestInv
<1>10. CASE QueryFails(c)
    BY <1>10 DEF QueryFails, WorkspaceTypeOK, RequestInv
<1> QED BY <1>1, <1>2, <1>3, <1>4, <1>5, <1>6, <1>7, <1>8, <1>9, <1>10 DEF RequestStep

\* The actor's role is read after the request is sent: one sent too late is
\* refused there.
LEMMA StepKeepsUnseated ==
    ASSUME WorkspaceTypeOK, RequestInv, UnseatedInv, NEW c \in Callers, RequestStep(c)
    PROVE  UnseatedInv'
<1> USE DEF Continue, Respond, ReadOnly, Silent, otherRows, callVars, historyOfRoles, Changing
<1>1. ASSUME NEW u \in Actors, NEW v \in Users, NEW new \in {"owner", "member"},
             AskForRole(c, u, v, new)
      PROVE  UnseatedInv'
    BY <1>1 DEF AskForRole, Call, WorkspaceTypeOK, RequestInv, UnseatedInv
<1>2. ASSUME NEW u \in Actors, NEW first \in {"settings", "key", "organization"},
             AskForOther(c, u, first)
      PROVE  UnseatedInv'
    BY <1>2 DEF AskForOther, Call, WorkspaceTypeOK, RequestInv, UnseatedInv
<1>3. CASE ReadActor(c)
    BY <1>3 DEF ReadActor, WorkspaceTypeOK, UnseatedInv
<1>4. CASE ReadTarget(c)
    BY <1>4 DEF ReadTarget, WorkspaceTypeOK, UnseatedInv
<1>5. CASE CountOwners(c)
    BY <1>5 DEF CountOwners, WorkspaceTypeOK, UnseatedInv
<1>6. CASE UpdateRole(c)
    <2>1. c \notin tooLate
        BY <1>6 DEF UpdateRole, UnseatedInv
    <2>2. CASE wanted[c] = "owner"
        BY <1>6, <2>1, <2>2 DEF UpdateRole, WorkspaceTypeOK, UnseatedInv
    <2>3. CASE wanted[c] # "owner"
        BY <1>6, <2>1, <2>3 DEF UpdateRole, WorkspaceTypeOK, UnseatedInv
    <2> QED BY <2>2, <2>3
<1>7. ASSUME NEW p \in ApiProcesses, SetPublicUrl(c, p) PROVE UnseatedInv'
    BY <1>7 DEF SetPublicUrl, WorkspaceTypeOK, UnseatedInv
<1>8. CASE InsertApiKey(c) \/ InsertOrganization(c) \/ InsertBilling(c)
    BY <1>8 DEF InsertApiKey, InsertOrganization, InsertBilling, WorkspaceTypeOK, UnseatedInv
<1>9. CASE WriteAudit(c)
    BY <1>9 DEF WriteAudit, WorkspaceTypeOK, UnseatedInv
<1>10. CASE QueryFails(c)
    BY <1>10 DEF QueryFails, WorkspaceTypeOK, UnseatedInv
<1> QED BY <1>1, <1>2, <1>3, <1>4, <1>5, <1>6, <1>7, <1>8, <1>9, <1>10 DEF RequestStep

\* Two owners are one more than the target.
LEMMA AnotherOwner ==
    ASSUME NEW o, NEW t, ~(Cardinality(Owners(o)) < 2)
    PROVE  Owners(o) \ {t} # {}
<1>1. Cardinality({}) = 0 /\ Cardinality({t}) = 1
    BY FS_EmptySet, FS_Singleton
<1>2. Owners(o) # {} /\ Owners(o) # {t}
    BY <1>1
<1> QED BY <1>2

\* A step that writes no role, and does not decide for c, changes nothing that
\* the invariant says of the others.
LEMMA NoWriteKeepsOverlap ==
    ASSUME OverlapInv, NEW c \in Callers,
           UNCHANGED <<role, applied, overtaken>>,
           \A d \in Callers \ {c} : /\ step'[d] = step[d] /\ target'[d] = target[d]
                                   /\ actor'[d] = actor[d] /\ wanted'[d] = wanted[d],
           applied \intersect overtaken = {} /\ c \notin overtaken =>
                /\ step'[c] = "count" => Org[target'[c]] = Org[actor'[c]]
                /\ step'[c] = "update" => LeavesAnOwner(c)'
    PROVE  OverlapInv'
<1>1. CASE applied \intersect overtaken # {}
    BY <1>1 DEF OverlapInv
<1>2. CASE applied \intersect overtaken = {}
    <2>1. AlwaysAnOwner'
        BY <1>2 DEF OverlapInv, AlwaysAnOwner, Owners
    <2>2. ASSUME NEW d \in Callers \ overtaken, d # c, step'[d] = "update"
          PROVE  LeavesAnOwner(d)'
        BY <1>2, <2>2 DEF OverlapInv, LeavesAnOwner, Owners
    <2>3. ASSUME NEW d \in Callers \ overtaken, d # c, step'[d] = "count"
          PROVE  Org[target'[d]] = Org[actor'[d]]
        BY <1>2, <2>3 DEF OverlapInv
    <2> QED BY <1>2, <2>1, <2>2, <2>3 DEF OverlapInv
<1> QED BY <1>1, <1>2

\* The one write: what its own reads said still holds, or it was overtaken.
LEMMA WriteKeepsOverlap ==
    ASSUME WorkspaceTypeOK, RequestInv, OverlapInv, NEW c \in Callers, UpdateRole(c)
    PROVE  OverlapInv'
<1>1. CASE c \in overtaken \/ applied \intersect overtaken # {}
    BY <1>1 DEF UpdateRole, OverlapInv
<1>2. CASE c \notin overtaken /\ applied \intersect overtaken = {}
    <2>1. target[c] \in Users /\ step[c] = "update" /\ LeavesAnOwner(c) /\ AlwaysAnOwner
        BY <1>2 DEF UpdateRole, RequestInv, OverlapInv, Changing
    <2>2. role' = [role EXCEPT ![target[c]] = wanted[c]] /\ role \in [Users -> Roles]
        BY DEF UpdateRole, WorkspaceTypeOK
    <2>3. ASSUME NEW u \in Founders PROVE Owners(Org[u])' # {}
        <3>1. PICK v \in Users : Org[v] = Org[u] /\ role[v] = "owner"
            BY <2>1 DEF AlwaysAnOwner, Owners
        <3>2. CASE wanted[c] = "owner" \/ v # target[c]
            <4>1. role'[v] = "owner"
                BY <2>2, <3>1, <3>2
            <4> QED BY <3>1, <4>1 DEF Owners
        <3>3. CASE wanted[c] # "owner" /\ v = target[c]
            <4>1. PICK w \in Owners(Org[u]) : w # target[c]
                BY <2>1, <3>1, <3>3 DEF LeavesAnOwner
            <4>2. w \in Users /\ Org[w] = Org[u] /\ role'[w] = "owner"
                BY <2>2, <4>1 DEF Owners
            <4> QED BY <4>2 DEF Owners
        <3> QED BY <3>2, <3>3
    <2>4. ASSUME NEW d \in Callers \ overtaken'
          PROVE  step'[d] \notin {"count", "update"}
        BY <2>1 DEF UpdateRole, Deciding, Continue, WorkspaceTypeOK
    <2> QED BY <2>3, <2>4 DEF OverlapInv, AlwaysAnOwner
<1> QED BY <1>1, <1>2

LEMMA StepKeepsOverlap ==
    ASSUME WorkspaceTypeOK, RequestInv, OverlapInv, NEW c \in Callers, RequestStep(c)
    PROVE  OverlapInv'
<1> USE DEF Continue, Respond, ReadOnly, Silent, otherRows, callVars, historyOfRoles
<1>1. ASSUME NEW u \in Actors, NEW v \in Users, NEW new \in {"owner", "member"},
             AskForRole(c, u, v, new)
      PROVE  OverlapInv'
    BY <1>1, NoWriteKeepsOverlap DEF AskForRole, Call, WorkspaceTypeOK
<1>2. ASSUME NEW u \in Actors, NEW first \in {"settings", "key", "organization"},
             AskForOther(c, u, first)
      PROVE  OverlapInv'
    BY <1>2, NoWriteKeepsOverlap DEF AskForOther, Call, WorkspaceTypeOK
<1>3. CASE ReadActor(c)
    BY <1>3, NoWriteKeepsOverlap DEF ReadActor, WorkspaceTypeOK
<1>4. CASE ReadTarget(c)
    <2>1. /\ step'[c] = "count" => Org[target'[c]] = Org[actor'[c]]
          /\ step'[c] = "update" => LeavesAnOwner(c)'
        BY <1>4 DEF ReadTarget, WorkspaceTypeOK, LeavesAnOwner
    <2> QED BY <1>4, <2>1, NoWriteKeepsOverlap DEF ReadTarget, WorkspaceTypeOK
<1>5. CASE CountOwners(c)
    <2>1. ASSUME applied \intersect overtaken = {}, c \notin overtaken, step'[c] = "update"
          PROVE  LeavesAnOwner(c)'
        <3>1. Org[target[c]] = Org[actor[c]]
            BY <1>5, <2>1 DEF CountOwners, OverlapInv
        <3>2. ~(Cardinality(Owners(Org[actor[c]])) < 2)
            BY <1>5, <2>1 DEF CountOwners, WorkspaceTypeOK
        <3>3. Owners(Org[target[c]]) \ {target[c]} # {}
            BY <3>1, <3>2, AnotherOwner
        <3> QED BY <1>5, <3>3 DEF CountOwners, LeavesAnOwner, Owners
    <2>2. step'[c] # "count"
        BY <1>5 DEF CountOwners, WorkspaceTypeOK
    <2> QED BY <1>5, <2>1, <2>2, NoWriteKeepsOverlap DEF CountOwners, WorkspaceTypeOK
<1>6. CASE UpdateRole(c)
    BY <1>6, WriteKeepsOverlap
<1>7. ASSUME NEW p \in ApiProcesses, SetPublicUrl(c, p) PROVE OverlapInv'
    BY <1>7, NoWriteKeepsOverlap DEF SetPublicUrl, WorkspaceTypeOK
<1>8. CASE InsertApiKey(c) \/ InsertOrganization(c) \/ InsertBilling(c)
    BY <1>8, NoWriteKeepsOverlap
       DEF InsertApiKey, InsertOrganization, InsertBilling, WorkspaceTypeOK
<1>9. CASE WriteAudit(c)
    BY <1>9, NoWriteKeepsOverlap DEF WriteAudit, WorkspaceTypeOK
<1>10. CASE QueryFails(c)
    BY <1>10, NoWriteKeepsOverlap DEF QueryFails, WorkspaceTypeOK
<1> QED BY <1>1, <1>2, <1>3, <1>4, <1>5, <1>6, <1>7, <1>8, <1>9, <1>10 DEF RequestStep

-----------------------------------------------------------------------------
LEMMA WorkspaceInitInv == WorkspaceInit => WorkspaceInv
<1> SUFFICES ASSUME WorkspaceInit PROVE WorkspaceInv
    OBVIOUS
<1>1. WorkspaceTypeOK
    BY InitTyped
<1>2. RequestInv /\ UnseatedInv
    BY DEF WorkspaceInit, RequestInv, UnseatedInv, Changing
<1>3. OverlapInv
    BY UserAssumption DEF WorkspaceInit, OverlapInv, AlwaysAnOwner, Owners
<1> QED BY <1>1, <1>2, <1>3 DEF WorkspaceInv

LEMMA WorkspaceInvInductive ==
    WorkspaceInv /\ [WorkspaceNext]_workspaceVars => WorkspaceInv'
<1> SUFFICES ASSUME WorkspaceInv, [WorkspaceNext]_workspaceVars PROVE WorkspaceInv'
    OBVIOUS
<1>1. CASE WorkspaceNext
    BY <1>1, NextIsARequestStep, StepTyped, StepKeepsRequests, StepKeepsUnseated,
       StepKeepsOverlap DEF WorkspaceInv
<1>2. CASE UNCHANGED workspaceVars
    <2> USE <1>2 DEF workspaceVars, otherRows, callVars, historyOfRoles
    <2>1. WorkspaceTypeOK' /\ RequestInv' /\ UnseatedInv'
        BY DEF WorkspaceInv, WorkspaceTypeOK, RequestInv, UnseatedInv
    <2>2. OverlapInv'
        BY DEF WorkspaceInv, OverlapInv, AlwaysAnOwner, Owners, LeavesAnOwner
    <2> QED BY <2>1, <2>2 DEF WorkspaceInv
<1> QED BY <1>1, <1>2

THEOREM WorkspaceInvHolds == WorkspaceSpec => []WorkspaceInv
    BY WorkspaceInitInv, WorkspaceInvInductive, PTL DEF WorkspaceSpec

\* setMemberRole reads the actor's role in every request: an owner who has been
\* told that they are none any more changes no role with a session they kept.
THEOREM LostOwnershipIsFelt == WorkspaceSpec => []UnseatedChangesNothing
<1>1. WorkspaceInv => UnseatedChangesNothing
    BY DEF WorkspaceInv, UnseatedInv, UnseatedChangesNothing
<1> QED BY <1>1, WorkspaceInvHolds, PTL

\* The test for the last owner fails only between requests that overlap: with
\* any number of users, requests and failed statements, a founder's organization
\* without an owner has seen a write that rested on overtaken reads.
THEOREM LastOwnerFallsToARace == WorkspaceSpec => []OwnerlessNeedsOverlap
<1>1. WorkspaceInv => OwnerlessNeedsOverlap
    BY DEF WorkspaceInv, OverlapInv, AlwaysAnOwner, OwnerlessNeedsOverlap
<1> QED BY <1>1, WorkspaceInvHolds, PTL

=============================================================================

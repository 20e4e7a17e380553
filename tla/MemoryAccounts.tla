--------------------------- MODULE MemoryAccounts ---------------------------
(***************************************************************************)
(* Accounts without DATABASE_URL: MemoryStore of services/api/src/lib/     *)
(* store.ts, a set of Maps in one process.  A function runs undisturbed    *)
(* until it awaits something that takes time: hashing and verifying a      *)
(* password do, the other awaited calls are done at once.                  *)
(***************************************************************************)
EXTENDS Naturals, Sequences

CONSTANTS
    Visitors,     \* requests, each sent once
    Addresses,    \* e-mail addresses, as toLowerCase() leaves them
    NoVisitor

ASSUME VisitorAssumption == NoVisitor \notin Visitors

VARIABLES
    people,    \* users, in order of insertion
    phase,     \* each request
    asked,     \* its e-mail address
    seen,      \* how many accounts there were when it looked
    signedIn   \* the account a request has been given a session for

memoryVars == <<people, phase, asked, seen, signedIn>>

Account == [email : Addresses, by : Visitors, hash : {"password", "oidc"}]

MemoryTypeOK ==
    /\ people \in Seq(Account)
    /\ phase \in [Visitors -> {"new", "hashing", "verifying", "done"}]
    /\ asked \in [Visitors -> Addresses \union {"none"}]
    /\ seen \in [Visitors -> Nat]
    /\ signedIn \in [Visitors -> Visitors \union {NoVisitor}]

MemoryInit ==
    /\ people = <<>>
    /\ phase = [v \in Visitors |-> "new"]
    /\ asked = [v \in Visitors |-> "none"]
    /\ seen = [v \in Visitors |-> 0]
    /\ signedIn = [v \in Visitors |-> NoVisitor]

-----------------------------------------------------------------------------
Known(e) == \E i \in 1 .. Len(people) : people[i].email = e

\* The first in the order of insertion, as Array.find and the loops find it.
FirstWith(e) ==
    people[CHOOSE i \in 1 .. Len(people) :
             /\ people[i].email = e
             /\ \A j \in 1 .. (i - 1) : people[j].email # e]

Look(v, e, next) ==
    /\ phase[v] = "new"
    /\ asked' = [asked EXCEPT ![v] = e]
    /\ seen' = [seen EXCEPT ![v] = Len(people)]
    /\ phase' = [phase EXCEPT ![v] = next]

\* A bug to try: nobody asks whether the address has an account.
AskNothing(v, e) ==
    /\ Look(v, e, "hashing")
    /\ UNCHANGED <<people, signedIn>>

\* createUser up to hashPassword: the address is free, or email_taken.
AskForAccount(v, e) ==
    /\ Look(v, e, IF Known(e) THEN "done" ELSE "hashing")
    /\ UNCHANGED <<people, signedIn>>

\* createUser from there: the account and its workspace, then the session.
InsertAccount(v) ==
    /\ phase[v] = "hashing"
    /\ people' = Append(people, [email |-> asked[v], by |-> v, hash |-> "password"])
    /\ signedIn' = [signedIn EXCEPT ![v] = v]
    /\ phase' = [phase EXCEPT ![v] = "done"]
    /\ UNCHANGED <<asked, seen>>

\* findOrCreateOidcUser: nothing runs between the look and the insertion.
FindOrCreate(v, e) ==
    /\ Look(v, e, "done")
    /\ people' = IF Known(e) THEN people
                 ELSE Append(people, [email |-> e, by |-> v, hash |-> "oidc"])
    /\ signedIn' = [signedIn EXCEPT ![v] = IF Known(e) THEN FirstWith(e).by ELSE v]

\* authenticateUser: the first account of the address, if it has a password.
AskForSession(v, e) ==
    /\ Look(v, e, IF Known(e) /\ FirstWith(e).hash = "password"
                  THEN "verifying" ELSE "done")
    /\ UNCHANGED <<people, signedIn>>

Verified(v) ==
    /\ phase[v] = "verifying"
    /\ phase' = [phase EXCEPT ![v] = "done"]
    /\ \/ signedIn' = [signedIn EXCEPT ![v] = FirstWith(asked[v]).by]
       \/ UNCHANGED signedIn
    /\ UNCHANGED <<people, asked, seen>>

MemoryNext ==
    \E v \in Visitors :
        \/ \E e \in Addresses : AskForAccount(v, e) \/ FindOrCreate(v, e) \/ AskForSession(v, e)
        \/ InsertAccount(v) \/ Verified(v)

MemorySpec == MemoryInit /\ [][MemoryNext]_memoryVars

-----------------------------------------------------------------------------
\* Two accounts share an address only when the later registration had looked
\* before the earlier account was there, and spent the time between hashing
\* its password: one that starts after another has ended is refused.
DuplicateNeedsOverlap ==
    \A i, j \in 1 .. Len(people) :
        i < j /\ people[i].email = people[j].email =>
            /\ seen[people[j].by] < i
            /\ people[j].hash = "password"

=============================================================================

-------------------------- MODULE AccountRegistry --------------------------
(***************************************************************************)
(* What the API promises of accounts, whatever store is behind it: an      *)
(* e-mail address has at most one account, the request that is told it     *)
(* created an account is the one that did, and an account is never taken   *)
(* away.  SignIn implements it over Postgres; MemoryAccounts only while    *)
(* registrations do not overlap.                                           *)
(***************************************************************************)
CONSTANTS
    Requests,   \* requests that register
    Emails,     \* e-mail addresses
    Nobody      \* no request

VARIABLES
    creator,    \* the request that made the account of each address
    told        \* what each request has been answered about creating one

registryVars == <<creator, told>>

RegistryInit ==
    /\ creator = [e \in Emails |-> Nobody]
    /\ told = [r \in Requests |-> "nothing"]

\* An account comes to be.
Open(r, e) ==
    /\ creator[e] = Nobody
    /\ creator' = [creator EXCEPT ![e] = r]
    /\ UNCHANGED told

\* The one that made it hears so ...
Confirm(r, e) ==
    /\ creator[e] = r
    /\ told[r] = "nothing"
    /\ told' = [told EXCEPT ![r] = "created"]
    /\ UNCHANGED creator

\* ... and another hears that the address is taken.
Refuse(r, e) ==
    /\ creator[e] \notin {Nobody, r}
    /\ told[r] = "nothing"
    /\ told' = [told EXCEPT ![r] = "taken"]
    /\ UNCHANGED creator

RegistryNext == \E r \in Requests, e \in Emails : Open(r, e) \/ Confirm(r, e) \/ Refuse(r, e)

RegistrySpec == RegistryInit /\ [][RegistryNext]_registryVars

=============================================================================

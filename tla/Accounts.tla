------------------------------ MODULE Accounts ------------------------------
(***************************************************************************)
(* Accounts over Postgres and over memory, the start of the processes that *)
(* keep them, and a delivery within the request: what is stated of them    *)
(* all.                                                                    *)
(***************************************************************************)
EXTENDS SignIn, MemoryAccounts, Boot, InlineDelivery

\* Requests and connections, the memory store, the processes that start and the
\* rows of a delivery without Redis only ever hold what their code gives them.
AccountsTypeOK == SignInTypeOK /\ MemoryTypeOK /\ BootTypeOK /\ InlineTypeOK

=============================================================================

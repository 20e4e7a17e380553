---------------------------- MODULE Verification ----------------------------
(***************************************************************************)
(* What the verification of a payment reads and answers: the pipeline over *)
(* the EVM adapter, the reads of the other adapters, the balances of the   *)
(* wallet, and what the projects are shown of it.  They share no variable. *)
(***************************************************************************)
EXTENDS IncomingVerification, ForeignChains, BalanceReads, ProjectRecords

\* Every variable of the four keeps its type, whatever the chain does.
AllTypesOK == TypeOK /\ ForeignTypeOK /\ BalanceReadsTypeOK /\ ProjectTypeOK

=============================================================================

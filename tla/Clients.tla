------------------------------ MODULE Clients ------------------------------
(***************************************************************************)
(* What clients do to a workspace (Workspace) and the web application's    *)
(* own state: the wallet (WalletLink, WalletBalances, WalletSend), the     *)
(* console (BrowserSession, DashboardReads, AdminLists), the public pages  *)
(* (VerdictPage, ClaimForm, VerificationLab), and what stands between a    *)
(* person and a session: SingleSignOn, and the LinkedSigner of open-trust. *)
(***************************************************************************)
EXTENDS Workspace, WalletLink, WalletBalances, WalletSend, BrowserSession,
        DashboardReads, AdminLists, VerdictPage, ClaimForm, VerificationLab,
        SingleSignOn, LinkedSigner

ClientsTypeOK ==
    /\ WorkspaceTypeOK /\ LinkTypeOK /\ BalancesTypeOK /\ SendTypeOK /\ BrowserTypeOK
    /\ ReadsTypeOK /\ ListsTypeOK /\ PageTypeOK /\ FormTypeOK /\ LabTypeOK
    /\ SsoTypeOK /\ SignerTypeOK

\* A session is what it looks like: a reload finds the one on screen, single
\* sign-on refuses nobody without a cause, and the wallet that signs is the one
\* shown, selected and linked.
SessionsHold == ReloadKeepsSession /\ SignOnStands /\ SignerStands

\* The console shows the answer asked for last, and its lists keep what was
\* saved in them.
ConsoleIsCurrent == LastAskedIsShown /\ ListsKeepWhatWasSaved

\* What the public pages put side by side belongs together: a verdict and the
\* check of its signature, a claim's network and its contract, a scenario and
\* its outcome.
PublicPagesAgree == SignatureIsOfVerdict /\ ClaimNamesItsContract /\ LabShowsItsScenario

=============================================================================

---------------------------- MODULE WorkspaceMC ----------------------------
(***************************************************************************)
(* Instances of Workspace for TLC: two organizations, one with a member    *)
(* besides its founder, and two requests.                                  *)
(***************************************************************************)
EXTENDS Workspace, TLC

CONSTANTS c1, c2, ua, ub, uc, p1, p2

TwoCallers   == {c1, c2}
ThreeUsers   == {ua, ub, uc}
TwoActors    == {ua, ub}
UserOrgs     == ua :> "o1" @@ ub :> "o1" @@ uc :> "o2"
TwoFounders  == {ua, uc}
TwoProcesses == {p1, p2}

=============================================================================

\* Two owners of one workspace, and two requests.
SPECIFICATION WorkspaceSpec
CONSTANTS
    c1 = c1  c2 = c2  ua = ua  ub = ub  uc = uc  p1 = p1  p2 = p2
    Callers <- TwoCallers
    Users <- ThreeUsers
    Actors <- TwoActors
    Org <- UserOrgs
    Founders <- TwoFounders
    ApiProcesses <- TwoProcesses
    MaxFailures = 0
    NoUser = NoUser
INVARIANT AlwaysAnOwner
CHECK_DEADLOCK FALSE

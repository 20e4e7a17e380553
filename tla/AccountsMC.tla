----------------------------- MODULE AccountsMC -----------------------------
(***************************************************************************)
(* An instance of SignIn, MemoryAccounts, Boot and InlineDelivery for TLC. *)
(* The four share no variable, so a behaviour moves one of them while the  *)
(* others have nothing left to do.                                         *)
(***************************************************************************)
EXTENDS Accounts, TLC

CONSTANTS r1, r2, r3, e1, e2, v1, v2, v3, api1, api2, worker, k1

ThreeRequests == {r1, r2, r3}
OneEmail      == {e1}
TwoEmails     == {e1, e2}
ThreeVisitors == {v1, v2, v3}
TwoApis       == {api1, api2}
OneWorker     == {worker}
OneDispatch   == {k1}

signInIdle ==
    /\ accounts = [e \in Emails |-> "none"] /\ rows = [e \in Emails |-> {}]
    /\ sessions = {} /\ expired = {} /\ held = {} /\ closed = {} /\ late = {} /\ faults = 0
    /\ pc = [r \in Requests |-> "done"]
    /\ op = [r \in Requests |-> "none"] /\ email = [r \in Requests |-> "none"]
    /\ token = [r \in Requests |-> Nobody] /\ staged = [r \in Requests |-> {}]
    /\ reply = [r \in Requests |-> "nothing"] /\ creator = [e \in Emails |-> Nobody]

memoryIdle ==
    /\ people = <<>> /\ phase = [v \in Visitors |-> "done"]
    /\ asked = [v \in Visitors |-> "none"] /\ seen = [v \in Visitors |-> 0]
    /\ signedIn = [v \in Visitors |-> NoVisitor]

bootOver ==
    /\ at = [p \in Processes |-> "serving"] /\ file = [p \in Processes |-> LastFile + 1]
    /\ recorded = 1 .. LastFile /\ schema = 1 .. LastFile /\ demoKey = TRUE
    /\ dekFile = 1 /\ keyFile = 1 /\ dek = [p \in Processes |-> 1]
    /\ generated = 1 /\ raced = FALSE /\ kills = MaxKills

inlineOver ==
    /\ dispatchAt = [d \in Dispatches |-> "over"] /\ target = [d \in Dispatches |-> 1]
    /\ attempt = [d \in Dispatches |-> 0]
    /\ row = [r \in Rows |-> "absent"] /\ tries = [r \in Rows |-> 0]
    /\ posted = [r \in Rows |-> 0] /\ taken = [r \in Rows |-> 0]
    /\ billed = 0 /\ cut = Dispatches

Init ==
    \/ SignInInit /\ memoryIdle /\ bootOver /\ inlineOver
    \/ MemoryInit /\ signInIdle /\ bootOver /\ inlineOver
    \/ BootInit /\ signInIdle /\ memoryIdle /\ inlineOver
    \/ InlineInit /\ signInIdle /\ memoryIdle /\ bootOver

Next ==
    \/ SignInNext /\ UNCHANGED <<memoryVars, bootVars, inlineVars>>
    \/ MemoryNext /\ UNCHANGED <<signInVars, bootVars, inlineVars>>
    \/ BootNext /\ UNCHANGED <<signInVars, memoryVars, inlineVars>>
    \/ InlineNext /\ UNCHANGED <<signInVars, memoryVars, bootVars>>

allVars == <<signInVars, memoryVars, bootVars, inlineVars>>

Spec ==
    /\ Init /\ [][Next]_allVars
    /\ SignInFairness
    /\ \A p \in Processes : WF_bootVars(BootStep(p))

=============================================================================

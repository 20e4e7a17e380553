-------------------------- MODULE VerificationLab --------------------------
(***************************************************************************)
(* The simulation of the landing page (components/VerificationLab.tsx over *)
(* wallet-core's demo.ts): a scenario is asked of the API, or evaluated in  *)
(* the browser when the API does not answer, and its steps are uncovered   *)
(* by a timer.  Its buttons stay enabled while a run is under way.         *)
(***************************************************************************)
EXTENDS Naturals, FiniteSets, PaymentRules

CONSTANTS NoScenario,
          MaxStarts    \* bound: scenarios started

ScenarioIds == {"phantom_event", "balance_mismatch", "valid_payment", "pending_payment"}

ASSUME LabAssumption == NoScenario \notin ScenarioIds /\ MaxStarts \in Nat

VARIABLES
    scenarioId, \* the button that is marked
    labRuns,      \* runs not answered
    starts,
    scenario,   \* the scenario on screen
    source,     \* who evaluated it
    visible,    \* steps uncovered
    running, ticking, \* "Checking...", and the timer
    calm,       \* prefers-reduced-motion
    startedOver \* history: one scenario was started while another was asked for

labVars == <<scenarioId, labRuns, starts, scenario, source, visible, running, ticking,
             calm, startedOver>>

LabTypeOK ==
    /\ scenarioId \in ScenarioIds /\ scenario \in ScenarioIds \union {NoScenario}
    /\ labRuns \subseteq [n : 1 .. MaxStarts, id : ScenarioIds] /\ starts \in 0 .. MaxStarts
    /\ source \in {"api", "browser", "none"} /\ visible \in 0 .. Cardinality(StepNames)
    /\ running \in BOOLEAN /\ ticking \in BOOLEAN /\ calm \in BOOLEAN
    /\ startedOver \in BOOLEAN

\* The amounts of the scenarios, in units of 100 USDT.
ScenarioFacts(id) ==
    LET mined == id # "phantom_event"
    IN  [eventDetected |-> TRUE, transactionExists |-> mined, receiptOk |-> mined,
         recipientMatches |-> mined, tokenContractMatches |-> mined, amountMatches |-> mined,
         confirmations |-> CASE id = "phantom_event"    -> 0
                             [] id = "balance_mismatch" -> 20
                             [] id = "valid_payment"    -> 32
                             [] id = "pending_payment"  -> 2,
         requiredConfirmations |-> 12,
         balanceBefore |-> 5,
         balanceAfter |-> IF id \in {"valid_payment", "pending_payment"} THEN 6 ELSE 5,
         expectedDelta |-> 1]

LabInit ==
    /\ scenarioId = "phantom_event" /\ labRuns = {} /\ starts = 0
    /\ scenario = NoScenario /\ source = "none" /\ visible = 0
    /\ running = FALSE /\ ticking = FALSE /\ calm \in BOOLEAN /\ startedOver = FALSE

-----------------------------------------------------------------------------
\* The scenario on screen goes, and its timer with it.
Start(id) ==
    /\ starts < MaxStarts /\ starts' = starts + 1
    /\ scenarioId' = id /\ scenario' = NoScenario
    /\ visible' = 0 /\ running' = TRUE /\ ticking' = FALSE
    /\ labRuns' = labRuns \union {[n |-> starts + 1, id |-> id]}
    /\ startedOver' = (startedOver \/ \E x \in labRuns : x.id # id)
    /\ UNCHANGED <<source, calm>>

\* loadScenario never fails: without the API's answer the browser evaluates.
RunAnswered(x, from) ==
    /\ labRuns' = labRuns \ {x}
    /\ scenario' = x.id /\ source' = from
    /\ visible' = IF calm THEN Cardinality(StepNames) ELSE 0
    /\ running' = ~calm /\ ticking' = ~calm
    /\ UNCHANGED <<scenarioId, starts, calm, startedOver>>

Uncover ==
    /\ ticking
    /\ IF visible >= Cardinality(StepNames)
       THEN ticking' = FALSE /\ running' = FALSE /\ UNCHANGED visible
       ELSE visible' = visible + 1 /\ UNCHANGED <<running, ticking>>
    /\ UNCHANGED <<scenarioId, labRuns, starts, scenario, source, calm, startedOver>>

\* A run that is asked for goes on, and is shown when it answers.
Reset ==
    /\ scenario # NoScenario
    /\ scenario' = NoScenario /\ source' = "none" /\ visible' = 0
    /\ running' = FALSE /\ ticking' = FALSE
    /\ UNCHANGED <<scenarioId, labRuns, starts, calm, startedOver>>

LabNext ==
    \/ Uncover \/ Reset
    \/ \E id \in ScenarioIds : Start(id)
    \/ \E x \in labRuns, from \in {"api", "browser"} : RunAnswered(x, from)

LabSpec == LabInit /\ [][LabNext]_labVars

-----------------------------------------------------------------------------
\* What the line under the buttons says of a scenario (BLURB).
Promised(id) ==
    CASE id = "phantom_event"    -> "rejected"
      [] id = "balance_mismatch" -> "mismatch"
      [] id = "valid_payment"    -> "verified"
      [] id = "pending_payment"  -> "pending"

\* The outcome on screen is the one announced under the button that is marked,
\* unless two scenarios were asked for at once, and what the lab says it is still
\* checking is still being asked for or uncovered.
LabShowsItsScenario ==
    /\ scenario # NoScenario /\ ~startedOver =>
           Decision(ScenarioFacts(scenario)) = Promised(scenarioId)
    /\ running => ticking \/ labRuns # {}

=============================================================================

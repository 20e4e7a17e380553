---------------------------- MODULE PaymentRules ----------------------------
(***************************************************************************)
(* evaluatePayment of packages/wallet-core: what may be released on facts  *)
(* read from a chain, with the steps it reports.  Amounts are naturals; a  *)
(* balance that could not be read is Unread and never zero.                *)
(***************************************************************************)
EXTENDS Integers

CONSTANT Unread
ASSUME UnreadAssumption == Unread \notin Nat

Facts ==
    [eventDetected : BOOLEAN, transactionExists : BOOLEAN, receiptOk : BOOLEAN,
     recipientMatches : BOOLEAN, tokenContractMatches : BOOLEAN, amountMatches : BOOLEAN,
     confirmations : Nat, requiredConfirmations : Nat,
     balanceBefore : Nat, balanceAfter : Nat \union {Unread}, expectedDelta : Nat]

Depending == {"receipt", "recipient", "token", "amount", "confirmations"}
StepNames == {"event_detected", "payment_intent", "transaction_lookup",
              "balance", "final_decision"} \union Depending

\* subBaseUnits: no difference below zero.
SubBaseUnits(left, right) == IF left < right THEN Unread ELSE left - right

Checked(ok) == IF ok THEN "success" ELSE "failed"

\* The steps that a missing transaction skips.
DependingState(f, step) ==
    CASE step = "receipt"       -> Checked(f.receiptOk)
      [] step = "recipient"     -> Checked(f.recipientMatches)
      [] step = "token"         -> Checked(f.tokenContractMatches)
      [] step = "amount"        -> Checked(f.amountMatches)
      [] step = "confirmations" ->
            IF f.confirmations >= f.requiredConfirmations THEN "success" ELSE "pending"

BalanceMoved(f) ==
    /\ f.balanceAfter # Unread
    /\ SubBaseUnits(f.balanceAfter, f.balanceBefore) = f.expectedDelta

HardFail(f) ==
    \/ ~f.transactionExists
    \/ \E step \in Depending : DependingState(f, step) = "failed"

Decision(f) ==
    IF f.balanceAfter = Unread THEN "unavailable"
    ELSE IF HardFail(f) THEN "rejected"
    ELSE IF ~BalanceMoved(f) THEN "mismatch"
    ELSE IF DependingState(f, "confirmations") = "pending" THEN "pending"
    ELSE "verified"

StepState(f, step) ==
    CASE step = "event_detected"     -> IF f.eventDetected THEN "success" ELSE "skipped"
      [] step = "payment_intent"     -> "success"
      [] step = "transaction_lookup" -> Checked(f.transactionExists)
      [] step \in Depending ->
            IF f.transactionExists THEN DependingState(f, step) ELSE "skipped"
      [] step = "balance"            -> Checked(BalanceMoved(f))
      [] step = "final_decision" ->
            IF Decision(f) = "verified" THEN "success"
            ELSE IF Decision(f) = "pending" THEN "pending" ELSE "failed"

-----------------------------------------------------------------------------
\* Everything that the chain must say for a payment to be released.
Earned(f) ==
    /\ f.transactionExists /\ f.receiptOk
    /\ f.recipientMatches /\ f.tokenContractMatches /\ f.amountMatches
    /\ f.confirmations >= f.requiredConfirmations
    /\ f.balanceAfter \in Nat /\ f.balanceAfter = f.balanceBefore + f.expectedDelta

=============================================================================

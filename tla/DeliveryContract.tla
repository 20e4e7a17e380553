-------------------------- MODULE DeliveryContract --------------------------
(***************************************************************************)
(* What a row of webhook_deliveries promises to whoever reads it, with no  *)
(* queue, worker or receiver in sight: it is created "pending", each       *)
(* attempt that fails moves it to "retrying" and adds one to attempts, it  *)
(* ends "delivered" after at most MaxAttempts attempts or "failed" after   *)
(* exactly MaxAttempts, it never leaves those two, and it does not stay    *)
(* open for ever.  docs/webhooks/DELIVERY.md states the contract; the      *)
(* status values are WebhookDelivery.status of services/api/src/lib.       *)
(* WebhookDelivery.tla is checked against this module.                     *)
(***************************************************************************)
EXTENDS Naturals

CONSTANTS Deliveries,   \* the rows that may come to exist
          MaxAttempts   \* BACKOFF_MS.length

VARIABLES status, attempts

vars == <<status, attempts>>

Open     == {"pending", "retrying"}
Terminal == {"delivered", "failed"}
Status   == {"absent"} \union Open \union Terminal

Init ==
    /\ status = [d \in Deliveries |-> "absent"]
    /\ attempts = [d \in Deliveries |-> 0]

Create(d) ==
    /\ status[d] = "absent"
    /\ status' = [status EXCEPT ![d] = "pending"]
    /\ UNCHANGED attempts

Attempt(d, outcome) ==
    /\ status[d] \in Open
    /\ status' = [status EXCEPT ![d] = outcome]
    /\ attempts' = [attempts EXCEPT ![d] = @ + 1]

Deliver(d) == attempts[d] < MaxAttempts /\ Attempt(d, "delivered")
Retry(d)   == attempts[d] + 1 < MaxAttempts /\ Attempt(d, "retrying")
GiveUp(d)  == attempts[d] + 1 = MaxAttempts /\ Attempt(d, "failed")

Settle(d) == Deliver(d) \/ Retry(d) \/ GiveUp(d)

Next == \E d \in Deliveries : Create(d) \/ Settle(d)

Spec == Init /\ [][Next]_vars /\ \A d \in Deliveries : WF_vars(Settle(d))

=============================================================================

-------------------------- MODULE WebhookDeliveryMC --------------------------
(***************************************************************************)
(* Instances of WebhookDelivery for TLC.                                   *)
(***************************************************************************)
EXTENDS WebhookDelivery, TLC

CONSTANTS v1, v2, h1, h2, hb, hu, w1, w2

OneVerdict  == {v1}
TwoVerdicts == {v1, v2}

\* h1 and h2 want the event; hb wants it but its url is refused; hu does not.
AllKinds     == {h1, h2, hb, hu}
BlockedHooks == {hb}
Wanted       == Verdicts \X (Hooks \ {hu})
OneHook      == {h1}

OneWorker  == {w1}
TwoWorkers == {w1, w2}

=============================================================================

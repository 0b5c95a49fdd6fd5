-------------------------- MODULE MCWebhookDelivery --------------------------
(* Instance of WebhookDelivery: the receiver's clock is behind, in step or *)
(* ahead; three seconds are enough for a nonce and a timestamp to age out. *)
EXTENDS WebhookDelivery

MCOffsets == {-1, 0, 1}

=============================================================================

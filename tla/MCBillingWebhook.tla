--------------------------- MODULE MCBillingWebhook ---------------------------
(* Instances of BillingWebhook for TLC.                                      *)
EXTENDS BillingWebhook, TLC

\* Subscriptions and plans are interchangeable where no liveness is checked.
Interchangeable == Permutations(Subs) \cup Permutations(PaidPlans)
=============================================================================

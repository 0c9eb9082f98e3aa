--------------------------- MODULE MCSubscriptions ---------------------------
(* Instances of Subscriptions for TLC.                                      *)
EXTENDS SubscriptionsProps

CONSTANTS one, two

\* A month is a unit of time, a year is two.
MCDays == [p \in Plans |-> CASE p = "monthly" -> 1 [] p = "yearly" -> 2 [] OTHER -> 0]
=============================================================================

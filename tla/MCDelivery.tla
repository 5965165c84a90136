---------------------------- MODULE MCDelivery ----------------------------
(* Delivery for TLC: two workers and the budgets of core/settings.py, under *)
(* which the task may outlive the attempts of the delivery.                 *)
EXTENDS Delivery
===========================================================================

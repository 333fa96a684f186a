---- MODULE MCPaymentFlow ----
(* One payment that moves two units, one that moves one. *)
EXTENDS PaymentFlow
Amounts == [e \in Events |-> IF e = "e1" THEN 2 ELSE 1]
====

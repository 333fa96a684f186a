--------------------------- MODULE EventLifecycle ---------------------------
(***************************************************************************)
(* What GuardManager promises about XRPL payments: each is bound at most   *)
(* once to a rule, a value and a price, and then concluded at most once:   *)
(* released by a decision that did not trigger, or protected with what the *)
(* decided USD amount is worth at the bound price.  One transaction may    *)
(* advance several payments, each by one step.                             *)
(***************************************************************************)
EXTENDS Integers

CONSTANTS Event, Rule, Unit

VARIABLES
  now,
  event   \* per payment: its stage and what has been fixed about it

Unseen == [stage |-> "unseen"]

\* The records an event bound now may hold.
BoundNow ==
  [stage : {"bound"}, rule : Rule, value : Nat, price : Nat \ {0}, preparedAt : {now}]

\* `amount' is worth `usd' at price p, rounded down.
Worth(amount, usd, p) == amount * p <= usd * Unit /\ usd * Unit < (amount + 1) * p

Init ==
  /\ now = 0
  /\ event = [e \in Event |-> Unseen]

Bind(old, new) == old = Unseen /\ new \in BoundNow

Release(old, new) ==
  old.stage = "bound" /\ new = [stage |-> "released", binding |-> old]

Protect(old, new) ==
  /\ old.stage = "bound"
  /\ new.stage = "protected" /\ new.binding = old
  /\ new.amount > 0 /\ Worth(new.amount, new.usd, old.price)

Transact ==
  /\ now' = now
  /\ \A e \in Event :
       \/ event'[e] = event[e]
       \/ Bind(event[e], event'[e])
       \/ Release(event[e], event'[e])
       \/ Protect(event[e], event'[e])

Tick == now' = now + 1 /\ event' = event

Next == Transact \/ Tick

Spec == Init /\ [][Next]_<<now, event>>
=============================================================================

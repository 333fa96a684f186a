--------------------------- MODULE MCGuardManager ---------------------------
(* Finite instances of GuardManager. *)
EXTENDS GuardManager, TLC

CONSTANTS o1, o2, r1, r2, n1, n2, a1, a2, t1, rcA, m1, m2

MCProof(id, drops) ==
  [transaction |-> id, receiver |-> rcA, drops |-> drops, paidAt |-> 0,
   genuine |-> TRUE, succeeded |-> TRUE, proofOwner |-> None]

\* One genuine payment per id, and presentations that must be refused: one the
\* FDC did not attest, one of a failed transaction, one bound to a stranger.
MCTwoPayments ==
  {MCProof(m1, 1), MCProof(m2, 2),
   [MCProof(m1, 1) EXCEPT !.genuine = FALSE], [MCProof(m1, 1) EXCEPT !.succeeded = FALSE],
   [MCProof(m2, 2) EXCEPT !.proofOwner = Vault]}

\* 2, 3 from one decimal more, and a price out of the reader's range.
MCPrices == {[raw |-> 2, decimals |-> 0], [raw |-> 30, decimals |-> 1], [raw |-> 1, decimals |-> -3]}

MCDecision(r, e, v, trig, usd, at, n, exp) ==
  [domain |-> "V2", rule |-> r, event |-> e, triggered |-> trig, protected |-> usd,
   schedule |-> 1, value |-> v, evaluatedAt |-> at, nonce |-> n, expiry |-> exp]

MCResult(a, d) == [action |-> a, status |-> 1, signer |-> t1, decision |-> d]

MCOf(r, a, drops, price, trig, at, n) ==
  LET v == EventValue(drops, price)
  IN MCResult(a, MCDecision(r, EventOf(MCProof(IF drops = 1 THEN m1 ELSE m2, drops)), v, trig,
                            v, at, n, at + 1))

\* The first payment protected under either price, or released by another
\* result that shares the id of the second's; the second's result shares the
\* nonce of the first's; and the second's once more, decided later for the rule
\* of another guard on the same receiver.
MCResults ==
  {MCOf(r1, a1, 1, 2, TRUE, 0, n1), MCOf(r1, a1, 1, 3, TRUE, 0, n1),
   MCOf(r1, a2, 1, 2, FALSE, 0, n2), MCOf(r1, a2, 2, 2, TRUE, 0, n1),
   MCOf(r2, a1, 2, 3, TRUE, 1, n2)}

\* Nothing names an owner but what the owners do.
MCOwners == Permutations({o1, o2})
=============================================================================

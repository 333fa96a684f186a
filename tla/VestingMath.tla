---------------------------- MODULE VestingMath ----------------------------
(***************************************************************************)
(* The linear release curve of packages/contracts/src/ProtectionVault.sol. *)
(* Times are block timestamps and amounts are token units, both naturals.  *)
(* uint256 arithmetic does not wrap here: Math.mulDiv computes the         *)
(* 512-bit product before it divides, and Solidity 0.8 reverts on overflow *)
(* elsewhere.                                                              *)
(***************************************************************************)
EXTENDS Integers

\* The stored terms and progress of one position.  `id' is the index in the
\* sequence that holds it; `createdAt' is read by nobody and left out.
Position(Asset, Account) ==
  [asset : Asset, beneficiary : Account, total : Nat \ {0}, claimed : Nat,
   start : Nat, end : Nat]

\* _vestedAmount: nothing up to the start, everything from the end on, and a
\* linear share rounded down in between.
VestedOf(total, start, end, t) ==
  IF t <= start THEN 0
  ELSE IF t >= end THEN total
  ELSE (total * (t - start)) \div (end - start)

Vested(p, t) == VestedOf(p.total, p.start, p.end, t)

=============================================================================

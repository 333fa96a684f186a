--------------------------- MODULE LinearVesting ---------------------------
(***************************************************************************)
(* What the vault promises, with no calls, tokens or locks in sight:       *)
(* positions are opened, never changed and never cancelled; the only thing *)
(* that ever happens to one is that its beneficiary takes everything       *)
(* vested so far.  ProtectionVault implements this specification.          *)
(***************************************************************************)
EXTENDS VestingMath, Sequences

CONSTANTS Asset, Account

VARIABLES now, positions

vars == <<now, positions>>

Init ==
  /\ now = 0
  /\ positions = << >>

Tick ==
  /\ now' > now
  /\ UNCHANGED positions

\* A position is born unclaimed, funded, and with some vesting still ahead.
Open ==
  /\ Len(positions') = Len(positions) + 1
  /\ LET p == positions'[Len(positions')] IN
       /\ positions' = Append(positions, p)
       /\ p.asset \in Asset /\ p.beneficiary \in Account
       /\ p.total > 0 /\ p.claimed = 0
       /\ p.start < p.end /\ now < p.end
  /\ UNCHANGED now

\* A release takes the whole vested remainder, never a part of it.
Release(i) ==
  /\ positions[i].claimed < Vested(positions[i], now)
  /\ positions' = [positions EXCEPT ![i].claimed = Vested(positions[i], now)]
  /\ UNCHANGED now

Next ==
  \/ Tick
  \/ Open
  \/ \E i \in DOMAIN positions : Release(i)

Spec == Init /\ [][Next]_vars

=============================================================================

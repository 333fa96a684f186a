-------------------------- MODULE ProtectionVault --------------------------
(***************************************************************************)
(* packages/contracts/src/ProtectionVault.sol: custody of ERC-20 tokens    *)
(* released linearly to one beneficiary.                                   *)
(*                                                                         *)
(* A call to createPosition or claim runs the token's own code in the      *)
(* middle (safeTransferFrom, safeTransfer), and that code may call back    *)
(* into anything.  A call is therefore several steps: the checks and       *)
(* effects before the token call, the movement of tokens, and what follows *)
(* it.  `stack' holds the calls in progress, innermost last; with          *)
(* nonReentrant in force it never holds more than one.  A revert restores  *)
(* what the state was at the entry of the call (`saved').                  *)
(***************************************************************************)
EXTENDS VestingMath, Sequences, Functions

CONSTANTS
  Asset,        \* ERC-20 tokens
  FeeAsset,     \* tokens whose transfers may deliver less than was sent
  HookAsset,    \* tokens that call other contracts while they transfer
  GiftAsset,    \* tokens that accounts also send to the vault directly
  Account,      \* callers, payers and beneficiaries
  Vault,        \* the contract's own address
  Supply,       \* units of every asset each account starts with
  MaxAmount,    \* bound: largest amount asked for
  MaxTime,      \* bound: last block timestamp
  MaxPositions, \* bound: positions ever opened
  MaxDepth      \* bound: calls nested through token hooks

ASSUME VaultAssumption ==
  /\ Vault \notin Account
  /\ FeeAsset \subseteq Asset /\ HookAsset \subseteq Asset /\ GiftAsset \subseteq Asset
  /\ {Supply, MaxAmount, MaxTime, MaxPositions, MaxDepth} \subseteq Nat

VARIABLES
  now,        \* block.timestamp
  positions,  \* _positions[1 .. _nextPositionId - 1]
  bal,        \* token balances
  stack       \* calls of the vault in progress

vars == <<now, positions, bal, stack>>

Holder == Account \cup {Vault}

\* One call in progress: the position it creates or claims from, the units it
\* moves, the vault's balance before the movement, whether the movement took
\* place, and the state a revert returns to.
Frame ==
  [op : {"create", "claim"}, caller : Account, pos : Position(Asset, Account),
   amount : Nat, before : Nat, moved : BOOLEAN,
   saved : [positions : Seq(Position(Asset, Account)), bal : [Asset -> [Holder -> Nat]]]]

TypeOK ==
  /\ now \in Nat
  /\ positions \in Seq(Position(Asset, Account))
  /\ bal \in [Asset -> [Holder -> Nat]]
  /\ stack \in Seq(Frame)

Init ==
  /\ now = 0
  /\ positions = << >>
  /\ bal = [a \in Asset |-> [h \in Holder |-> IF h = Vault THEN 0 ELSE Supply]]
  /\ stack = << >>

-----------------------------------------------------------------------------
(* Calls *)

Top == stack[Len(stack)]
Pop == SubSeq(stack, 1, Len(stack) - 1)

\* Code other than the vault's runs between transactions, and inside a token
\* transfer when the token calls out.
OthersRun ==
  \/ stack = << >>
  \/ stack # << >> /\ Len(stack) < MaxDepth /\ Top.pos.asset \in HookAsset

\* Broken variant: createPosition and claim without nonReentrant.
NoGuard == TRUE

\* nonReentrant: ReentrancyGuard._status is not ENTERED.
NotEntered == stack = << >>

Enter(op, caller, pos, amount) ==
  stack' = Append(stack,
    [op |-> op, caller |-> caller, pos |-> pos, amount |-> amount,
     before |-> bal[pos.asset][Vault], moved |-> FALSE,
     saved |-> [positions |-> positions, bal |-> bal]])

MarkMoved == stack' = [stack EXCEPT ![Len(stack)].moved = TRUE]

Debit(b, asset, h, n) == [b EXCEPT ![asset][h] = @ - n]
Credit(b, asset, h, n) == [b EXCEPT ![asset][h] = @ + n]

\* The token debits the sender in full and credits what the fee leaves.
Move(asset, from, to, amount) ==
  \E delivered \in (IF asset \in FeeAsset THEN 0..amount ELSE {amount}) :
    /\ bal[asset][from] >= amount
    /\ bal' = Credit(Debit(bal, asset, from, amount), asset, to, delivered)
    /\ MarkMoved

-----------------------------------------------------------------------------
(* createPosition *)

\* InvalidSchedule is not raised.
ScheduleOpen(start, end) == start < end /\ now < end

CreateBegin(caller, asset, beneficiary, amount, start, end) ==
  /\ OthersRun /\ NotEntered
  /\ Len(positions) < MaxPositions
  /\ amount # 0
  /\ ScheduleOpen(start, end)
  /\ Enter("create", caller,
           [asset |-> asset, beneficiary |-> beneficiary, total |-> amount,
            claimed |-> 0, start |-> start, end |-> end], amount)
  /\ UNCHANGED <<now, positions, bal>>

CreatePull ==
  /\ stack # << >> /\ Top.op = "create" /\ ~Top.moved
  /\ Move(Top.pos.asset, Top.caller, Vault, Top.amount)
  /\ UNCHANGED <<now, positions>>

\* Broken variant: the amount asked for is taken as received.
ReceivedAsAsked(f) == f.amount

\* received == balanceAfter - balanceBefore, floored at zero.
Received(f) ==
  LET after == bal[f.pos.asset][Vault]
  IN IF after >= f.before THEN after - f.before ELSE 0

CreateEnd ==
  /\ stack # << >> /\ Top.op = "create" /\ Top.moved
  /\ Received(Top) = Top.amount
  /\ positions' = Append(positions, Top.pos)
  /\ stack' = Pop
  /\ UNCHANGED <<now, bal>>

-----------------------------------------------------------------------------
(* claim *)

\* Broken variant: what was claimed before is not subtracted.
ClaimableAgain(i) == Vested(positions[i], now)

Claimable(i) == Vested(positions[i], now) - positions[i].claimed

\* Broken variants: the progress is overwritten (= for +=), and claims close
\* with the schedule.
ClaimOverwrites(caller, i) ==
  /\ OthersRun /\ NotEntered
  /\ caller = positions[i].beneficiary
  /\ Claimable(i) # 0
  /\ positions' = [positions EXCEPT ![i].claimed = Claimable(i)]
  /\ Enter("claim", caller, positions[i], Claimable(i))
  /\ UNCHANGED <<now, bal>>

ClaimWhileOpen(caller, i) ==
  /\ OthersRun /\ NotEntered
  /\ caller = positions[i].beneficiary
  /\ Claimable(i) # 0 /\ now < positions[i].end
  /\ positions' = [positions EXCEPT ![i].claimed = @ + Claimable(i)]
  /\ Enter("claim", caller, positions[i], Claimable(i))
  /\ UNCHANGED <<now, bal>>

\* `position.claimed += amount' precedes the transfer.
ClaimBegin(caller, i) ==
  /\ OthersRun /\ NotEntered
  /\ caller = positions[i].beneficiary
  /\ Claimable(i) # 0
  /\ positions' = [positions EXCEPT ![i].claimed = @ + Claimable(i)]
  /\ Enter("claim", caller, positions[i], Claimable(i))
  /\ UNCHANGED <<now, bal>>

ClaimPay ==
  /\ stack # << >> /\ Top.op = "claim" /\ ~Top.moved
  /\ Move(Top.pos.asset, Vault, Top.pos.beneficiary, Top.amount)
  /\ UNCHANGED <<now, positions>>

ClaimEnd ==
  /\ stack # << >> /\ Top.op = "claim" /\ Top.moved
  /\ stack' = Pop
  /\ UNCHANGED <<now, positions, bal>>

-----------------------------------------------------------------------------
(* Reverts and the rest of the chain *)

\* The innermost call reverts: the deposit was not exact, a token with hooks
\* refuses at any point, or a plain token refuses to move (no allowance is
\* needed to pay a claim, so there only a lack of funds can stop it).
Reverts(f) ==
  \/ f.op = "create" /\ f.moved /\ Received(f) # f.amount
  \/ f.pos.asset \in HookAsset
  \/ f.op = "create" /\ ~f.moved
  \/ f.op = "claim" /\ ~f.moved /\ bal[f.pos.asset][Vault] < f.amount

Revert ==
  /\ stack # << >> /\ Reverts(Top)
  /\ positions' = Top.saved.positions
  /\ bal' = Top.saved.bal
  /\ stack' = Pop
  /\ UNCHANGED now

\* An account transfers tokens straight to the vault's address.
Gift(from, asset) ==
  /\ OthersRun
  /\ bal[asset][from] > 0
  /\ bal' = Credit(Debit(bal, asset, from, 1), asset, Vault, 1)
  /\ UNCHANGED <<now, positions, stack>>

\* Time passes between transactions only.
Tick ==
  /\ stack = << >> /\ now < MaxTime
  /\ now' = now + 1
  /\ UNCHANGED <<positions, bal, stack>>

Next ==
  \/ \E c, b \in Account, a \in Asset, n \in 0..MaxAmount, s, e \in 0..MaxTime :
       CreateBegin(c, a, b, n, s, e)
  \/ CreatePull
  \/ CreateEnd
  \/ \E c \in Account, i \in DOMAIN positions : ClaimBegin(c, i)
  \/ ClaimPay
  \/ ClaimEnd
  \/ Revert
  \/ \E f \in Account, a \in GiftAsset : Gift(f, a)
  \/ Tick

Spec == Init /\ [][Next]_vars

\* A transaction that started is executed to its end, a block holds finitely
\* many transactions so that time passes whatever they do (SF: Tick waits for
\* the call in progress), and every beneficiary keeps asking for what has
\* vested: the contract does not pay on its own.
Fairness ==
  /\ WF_vars(CreatePull \/ CreateEnd \/ ClaimPay \/ ClaimEnd \/ Revert)
  /\ SF_vars(Tick)
  /\ \A i \in 1..MaxPositions :
       SF_vars(i \in DOMAIN positions /\ \E c \in Account : ClaimBegin(c, i))

FairSpec == Spec /\ Fairness

-----------------------------------------------------------------------------
(* Properties *)

\* What the vault still owes in one asset.
Owed(ps) == [i \in DOMAIN ps |-> ps[i].total - ps[i].claimed]
Outstanding(ps, a) == SumFunctionOnSet(Owed(ps), {i \in DOMAIN ps : ps[i].asset = a})

\* Units that a claim has booked as paid and not sent yet.
Leaving(a) ==
  SumFunctionOnSet([k \in DOMAIN stack |-> stack[k].amount],
                   {k \in DOMAIN stack : /\ stack[k].op = "claim" /\ ~stack[k].moved
                                         /\ stack[k].pos.asset = a})

\* At every moment, inside a token's callback too, the vault holds at least
\* what it owes in each asset plus what it is about to send, whatever the
\* token withholds or calls back into (createPosition's exact-receipt check,
\* nonReentrant, and claim's effect before its interaction).
Solvent == \A a \in Asset : bal[a][Vault] >= Outstanding(positions, a) + Leaving(a)

\* No position has paid out more than has vested by now, nor vested more than
\* it was given (_vestedAmount and the subtraction in claim, which would
\* underflow otherwise).
ClaimsWithinVested ==
  \A i \in DOMAIN positions :
    /\ positions[i].claimed <= Vested(positions[i], now)
    /\ Vested(positions[i], now) <= positions[i].total

\* The strengthening of ClaimsWithinVested that every step preserves: in the
\* stored positions, in those a revert would bring back, and how the two differ
\* while a call is in progress.  nonReentrant is what makes it one call.
WithinTerms(ps) ==
  \A i \in DOMAIN ps : ps[i].start < ps[i].end /\ ps[i].claimed <= Vested(ps[i], now)

CallInProgress(f) ==
  /\ WithinTerms(f.saved.positions)
  /\ f.op = "create" => /\ positions = f.saved.positions
                        /\ f.pos.claimed = 0
                        /\ f.pos.start < f.pos.end /\ now < f.pos.end
  /\ f.op = "claim" =>
       \E i \in DOMAIN f.saved.positions :
         /\ f.saved.positions[i].claimed < Vested(f.saved.positions[i], now)
         /\ positions = [f.saved.positions EXCEPT
                           ![i].claimed = Vested(f.saved.positions[i], now)]

IInv ==
  /\ TypeOK
  /\ WithinTerms(positions)
  /\ Len(stack) <= 1
  /\ stack # << >> => CallInProgress(stack[1])

\* Between transactions nothing is stranded: of a token without fees, hooks
\* or direct transfers the vault holds exactly what it still owes, so the last
\* claims drain it (rounding leaves no dust).
NothingStranded ==
  stack = << >> =>
    \A a \in Asset \ (FeeAsset \cup HookAsset \cup GiftAsset) :
      bal[a][Vault] = Outstanding(positions, a)

\* The strengthening of both: what the vault holds beyond its debts is the units
\* of the call in progress, received and not yet owed or booked and not yet sent,
\* and the state a revert restores was funded too.  A deposit is measured from
\* the balance at its entry, which covered the debts there were.
PlainAsset == Asset \ (FeeAsset \cup HookAsset \cup GiftAsset)

Funded(ps, b) ==
  /\ \A a \in Asset : b[a][Vault] >= Outstanding(ps, a)
  /\ \A a \in PlainAsset : b[a][Vault] = Outstanding(ps, a)

InTransit(f, a) ==
  IF f.pos.asset = a /\ f.moved = (f.op = "create") THEN f.amount ELSE 0

CallFunded(f) ==
  /\ Funded(f.saved.positions, f.saved.bal)
  /\ f.op = "create" => /\ f.amount = f.pos.total
                        /\ f.before = f.saved.bal[f.pos.asset][Vault]
  /\ \A a \in Asset : bal[a][Vault] >=
       Outstanding(positions, a) + (IF f.op = "claim" THEN InTransit(f, a) ELSE 0)
  /\ \A a \in PlainAsset : bal[a][Vault] = Outstanding(positions, a) + InTransit(f, a)

FInv == IF stack = << >> THEN Funded(positions, bal) ELSE CallFunded(stack[1])

\* The state of the ledger as of the last completed transaction.
Committed == IF stack = << >> THEN positions ELSE stack[1].saved.positions

Vesting == INSTANCE LinearVesting WITH positions <- Committed

\* Every execution, with its hooks, nested calls and reverts, is one of the
\* abstract vesting ledger: terms never change, nothing is cancelled, and each
\* claim pays the whole vested remainder once.
RefinesLinearVesting == Vesting!Spec

\* A position in a plain token is eventually paid out in full: no rounding,
\* no other position and no failed call can keep a unit from its beneficiary.
FullyReleased ==
  \A i \in 1..MaxPositions :
    (i \in DOMAIN Committed /\ Committed[i].asset \notin FeeAsset \cup HookAsset)
      ~> (i \in DOMAIN Committed /\ Committed[i].claimed = Committed[i].total)

=============================================================================

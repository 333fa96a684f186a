----------------------- MODULE ProtectionVaultProofs -----------------------
(***************************************************************************)
(* For every set of tokens, however they behave, every set of accounts and *)
(* every bound: the vault's state is well typed, nobody claims more than   *)
(* has vested, and the vault with its hooks and reverts implements         *)
(* LinearVesting.                                                          *)
(***************************************************************************)
EXTENDS ProtectionVault, ArithmeticProofs, SequenceTheorems

-----------------------------------------------------------------------------
(* The release curve *)

\* _vestedAmount never exceeds the deposit and is never negative.
LEMMA VestedBounds ==
  ASSUME NEW total \in Nat, NEW start \in Nat, NEW end \in Nat, start < end,
         NEW t \in Nat
  PROVE  VestedOf(total, start, end, t) \in 0..total
<1>1. CASE t <= start \/ t >= end
  BY <1>1 DEF VestedOf
<1>2. CASE start < t /\ t < end
  <2>1. /\ t - start \in Nat /\ end - start \in Nat \ {0}
        /\ t - start <= end - start
        /\ total * (t - start) \in Nat
    BY <1>2
  <2>2. (total * (t - start)) \div (end - start) \in 0..total
    BY <2>1, ShareAtMostWhole, QuotientBounds
  <2> QED
    BY <1>2, <2>2 DEF VestedOf
<1> QED
  BY <1>1, <1>2

\* What has vested stays vested: later is never less.  It is what keeps the
\* subtraction in claim from underflowing.
LEMMA VestedMonotone ==
  ASSUME NEW total \in Nat, NEW start \in Nat, NEW end \in Nat, start < end,
         NEW t \in Nat, NEW u \in Nat, t <= u
  PROVE  VestedOf(total, start, end, t) <= VestedOf(total, start, end, u)
<1>1. CASE t <= start \/ u >= end
  <2>1. /\ VestedOf(total, start, end, t) \in 0..total
        /\ VestedOf(total, start, end, u) \in 0..total
    BY VestedBounds
  <2> QED
    BY <1>1, <2>1 DEF VestedOf
<1>2. CASE start < t /\ u < end
  <2> DEFINE d == end - start
             x == total * (t - start)
             y == total * (u - start)
  <2>1. d \in Nat \ {0} /\ x \in Nat /\ y \in Nat
    BY <1>2
  <2>2. x <= y
    BY <1>2
  <2>3. x \div d <= y \div d
    BY <2>1, <2>2, QuotientMonotone
  <2> QED
    BY <1>2, <2>3 DEF VestedOf
<1> QED
  BY <1>1, <1>2

-----------------------------------------------------------------------------
(* The stack of calls *)

\* A sequence of at most one element is empty, or its first element is its
\* last and removing it leaves nothing.
LEMMA OneCall ==
  ASSUME NEW S, NEW s \in Seq(S), Len(s) <= 1, s # << >>
  PROVE  /\ Len(s) = 1 /\ s[1] \in S
         /\ SubSeq(s, 1, Len(s) - 1) = << >>
<1>1. Len(s) = 1
  <2>1. Len(s) \in Nat \ {0}
    BY EmptySeq
  <2> QED
    BY <2>1
<1>2. SubSeq(s, 1, 0) = << >>
  BY <1>1, SubSeqProperties, EmptySeq
<1> QED
  BY <1>1, <1>2, ElementOfSeq

\* Entering a call when none is in progress.
LEMMA FirstCall ==
  ASSUME NEW S, NEW x \in S, NEW s, s = << >>
  PROVE  /\ Append(s, x) \in Seq(S) /\ Append(s, x) # << >>
         /\ Len(Append(s, x)) = 1 /\ Append(s, x)[1] = x
<1>1. s \in Seq(S) /\ Len(s) = 0
  BY EmptySeq
<1>2. Append(s, x) \in Seq(S) /\ Len(Append(s, x)) = 1 /\ Append(s, x)[1] = x
  BY <1>1, AppendProperties
<1> QED
  BY <1>2, EmptySeq

Balances == [Asset -> [Holder -> Nat]]

LEMMA DebitCredit ==
  ASSUME NEW b \in Balances, NEW a \in Asset, NEW h \in Holder, NEW n \in Nat
  PROVE  /\ b[a][h] >= n => Debit(b, a, h, n) \in Balances
         /\ Credit(b, a, h, n) \in Balances
  BY DEF Balances, Debit, Credit

\* A token's movement keeps balances natural numbers.
LEMMA MoveType ==
  ASSUME bal \in Balances,
         NEW asset \in Asset, NEW from \in Holder, NEW to \in Holder,
         NEW amount \in Nat, Move(asset, from, to, amount)
  PROVE  bal' \in Balances
<1>1. PICK delivered \in (IF asset \in FeeAsset THEN 0..amount ELSE {amount}) :
        /\ bal[asset][from] >= amount
        /\ bal' = Credit(Debit(bal, asset, from, amount), asset, to, delivered)
  BY DEF Move
<1>2. delivered \in Nat
  OBVIOUS
<1> QED
  BY <1>1, <1>2, DebitCredit

-----------------------------------------------------------------------------
(* The stack of calls *)

\* The call in progress is the only one, and returning from it leaves none.
LEMMA TopIsFirst ==
  ASSUME IInv, stack # << >>
  PROVE  /\ Top = stack[1] /\ Top \in Frame
         /\ Len(stack) = 1 /\ Pop = << >>
  BY OneCall DEF IInv, TypeOK, Top, Pop

LEMMA EnterStack ==
  ASSUME IInv, NotEntered, NEW op \in {"create", "claim"}, NEW caller \in Account,
         NEW pos \in Position(Asset, Account), NEW amount \in Nat,
         Enter(op, caller, pos, amount)
  PROVE  /\ stack = << >>
         /\ stack' \in Seq(Frame) /\ Len(stack') = 1 /\ stack' # << >>
         /\ stack'[1].op = op /\ stack'[1].pos = pos /\ stack'[1].amount = amount
         /\ stack'[1].before = bal[pos.asset][Vault] /\ stack'[1].moved = FALSE
         /\ stack'[1].saved = [positions |-> positions, bal |-> bal]
<1> DEFINE f == [op |-> op, caller |-> caller, pos |-> pos, amount |-> amount,
                 before |-> bal[pos.asset][Vault], moved |-> FALSE,
                 saved |-> [positions |-> positions, bal |-> bal]]
<1>1. pos.asset \in Asset /\ Vault \in Holder
  BY DEF Position, Holder
<1>2. f \in Frame
  BY <1>1 DEF IInv, TypeOK, Frame
<1>3. stack = << >> /\ stack' = Append(stack, f)
  BY DEF NotEntered, Enter
<1>4. /\ f.op = op /\ f.pos = pos /\ f.amount = amount
      /\ f.before = bal[pos.asset][Vault] /\ f.moved = FALSE
      /\ f.saved = [positions |-> positions, bal |-> bal]
  OBVIOUS
<1> HIDE DEF f
<1> QED
  BY <1>2, <1>3, <1>4, FirstCall

LEMMA MarkMovedStack ==
  ASSUME IInv, stack # << >>, MarkMoved
  PROVE  /\ stack' \in Seq(Frame) /\ Len(stack') = 1 /\ stack' # << >>
         /\ stack'[1].op = stack[1].op /\ stack'[1].pos = stack[1].pos
         /\ stack'[1].amount = stack[1].amount /\ stack'[1].before = stack[1].before
         /\ stack'[1].moved = TRUE /\ stack'[1].saved = stack[1].saved
<1> DEFINE f == [stack[1] EXCEPT !.moved = TRUE]
<1>1. stack \in Seq(Frame) /\ Len(stack) = 1 /\ stack[1] \in Frame
  BY TopIsFirst DEF IInv, TypeOK
<1>2. /\ f \in Frame /\ f.op = stack[1].op /\ f.pos = stack[1].pos
      /\ f.amount = stack[1].amount /\ f.before = stack[1].before
      /\ f.moved = TRUE /\ f.saved = stack[1].saved
  BY <1>1 DEF Frame
<1>3. stack' = [stack EXCEPT ![1] = f]
  BY <1>1 DEF MarkMoved
<1> HIDE DEF f
<1>4. stack' \in Seq(Frame) /\ Len(stack') = 1 /\ stack'[1] = f
  BY <1>1, <1>2, <1>3, ExceptSeq
<1>5. stack' # << >>
  BY <1>4, EmptySeq
<1> QED
  BY <1>2, <1>4, <1>5

-----------------------------------------------------------------------------
(* Every action preserves the invariant *)

LEMMA VestedInRange ==
  ASSUME NEW p \in Position(Asset, Account), p.start < p.end, NEW t \in Nat
  PROVE  Vested(p, t) \in 0..p.total
  BY VestedBounds DEF Vested, Position

LEMMA CreateBeginIInv ==
  ASSUME IInv, NEW c \in Account, NEW a \in Asset, NEW b \in Account,
         NEW n \in 0..MaxAmount, NEW s \in 0..MaxTime, NEW e \in 0..MaxTime,
         CreateBegin(c, a, b, n, s, e)
  PROVE  IInv'
<1> DEFINE pos == [asset |-> a, beneficiary |-> b, total |-> n,
                   claimed |-> 0, start |-> s, end |-> e]
<1>1. /\ n # 0 /\ ScheduleOpen(s, e) /\ NotEntered
      /\ Enter("create", c, pos, n)
      /\ UNCHANGED <<now, positions, bal>>
  BY DEF CreateBegin
<1>2. n \in Nat \ {0} /\ s \in Nat /\ e \in Nat
  BY <1>1, VaultAssumption
<1>3. pos \in Position(Asset, Account)
  BY <1>2 DEF Position
<1>4. /\ pos.claimed = 0 /\ pos.start < pos.end /\ now < pos.end
  BY <1>1 DEF ScheduleOpen
<1> HIDE DEF pos
<1>5. /\ stack' \in Seq(Frame) /\ Len(stack') = 1
      /\ stack'[1].op = "create" /\ stack'[1].pos = pos
      /\ stack'[1].saved = [positions |-> positions, bal |-> bal]
  BY <1>1, <1>2, <1>3, EnterStack
<1>6. CallInProgress(stack[1])'
  BY <1>1, <1>4, <1>5 DEF CallInProgress, WithinTerms, IInv
<1> QED
  BY <1>1, <1>5, <1>6 DEF IInv, TypeOK, WithinTerms

LEMMA MovementIInv ==
  ASSUME IInv, stack # << >>, NEW from \in Holder, NEW to \in Holder,
         Move(Top.pos.asset, from, to, Top.amount),
         UNCHANGED <<now, positions>>
  PROVE  IInv'
<1>1. Top = stack[1] /\ Top.pos.asset \in Asset /\ Top.amount \in Nat
  BY TopIsFirst DEF Frame, Position
<1>2. bal' \in [Asset -> [Holder -> Nat]]
  BY <1>1, MoveType DEF IInv, TypeOK, Balances
<1>3. MarkMoved
  BY DEF Move
<1>4. /\ stack' \in Seq(Frame) /\ Len(stack') = 1
      /\ stack'[1].op = stack[1].op /\ stack'[1].pos = stack[1].pos
      /\ stack'[1].saved = stack[1].saved
  BY <1>3, MarkMovedStack
<1>5. CallInProgress(stack[1])'
  BY <1>4 DEF IInv, CallInProgress, WithinTerms
<1> QED
  BY <1>2, <1>4, <1>5 DEF IInv, TypeOK, WithinTerms

LEMMA CreateEndIInv ==
  ASSUME IInv, CreateEnd
  PROVE  IInv'
<1>1. /\ stack # << >> /\ Top.op = "create"
      /\ positions' = Append(positions, Top.pos) /\ stack' = Pop
      /\ UNCHANGED <<now, bal>>
  BY DEF CreateEnd
<1>2. /\ Top = stack[1] /\ Top.pos \in Position(Asset, Account) /\ stack' = << >>
  BY <1>1, TopIsFirst DEF Frame
<1>3. Top.pos.claimed = 0 /\ Top.pos.start < Top.pos.end
  BY <1>1, <1>2 DEF IInv, CallInProgress
<1>4. Top.pos.claimed <= Vested(Top.pos, now)
  <2>1. Vested(Top.pos, now) \in 0..Top.pos.total
    BY <1>2, <1>3, VestedInRange DEF IInv, TypeOK
  <2>2. Top.pos.total \in Nat
    BY <1>2 DEF Position
  <2> QED
    BY <1>3, <2>1, <2>2
<1>5. /\ positions' \in Seq(Position(Asset, Account))
      /\ Len(positions') = Len(positions) + 1
      /\ \A i \in 1..Len(positions) : positions'[i] = positions[i]
      /\ positions'[Len(positions) + 1] = Top.pos
  BY <1>1, <1>2, AppendProperties DEF IInv, TypeOK
<1>6. WithinTerms(positions)'
  BY <1>1, <1>3, <1>4, <1>5 DEF WithinTerms, IInv, TypeOK
<1>7. stack' \in Seq(Frame) /\ Len(stack') = 0
  BY <1>2, EmptySeq
<1> QED
  BY <1>1, <1>2, <1>5, <1>6, <1>7 DEF IInv, TypeOK

\* What claim books: everything vested so far, in the position claimed from.
LEMMA ClaimEffect ==
  ASSUME IInv, NEW c \in Account, NEW i \in DOMAIN positions, ClaimBegin(c, i)
  PROVE  /\ positions[i].claimed < Vested(positions[i], now)
         /\ positions' = [positions EXCEPT ![i].claimed = Vested(positions[i], now)]
         /\ Claimable(i) \in Nat
         /\ positions' \in Seq(Position(Asset, Account))
         /\ WithinTerms(positions)'
<1> DEFINE v == Vested(positions[i], now)
<1>1. /\ Claimable(i) # 0 /\ now' = now
      /\ positions' = [positions EXCEPT ![i].claimed = @ + Claimable(i)]
  BY DEF ClaimBegin
<1>2. positions[i] \in Position(Asset, Account) /\ i \in 1..Len(positions)
  BY ElementOfSeq, LenProperties DEF IInv, TypeOK
<1>3. /\ positions[i].claimed \in Nat /\ positions[i].total \in Nat
      /\ positions[i].claimed <= v /\ positions[i].start < positions[i].end
  BY <1>2 DEF IInv, WithinTerms, Position
<1>4. v \in 0..positions[i].total
  BY <1>2, <1>3, VestedInRange DEF IInv, TypeOK
<1>5. /\ positions[i].claimed < v /\ Claimable(i) \in Nat
      /\ positions[i].claimed + Claimable(i) = v
  BY <1>1, <1>3, <1>4 DEF Claimable
<1> DEFINE p == [positions[i] EXCEPT !.claimed = v]
<1>6. positions' = [positions EXCEPT ![i] = p]
  BY <1>1, <1>2, <1>5
<1>7. /\ p \in Position(Asset, Account) /\ p.claimed = v
      /\ p.start = positions[i].start /\ p.end = positions[i].end
      /\ p.total = positions[i].total
  BY <1>2, <1>4 DEF Position
<1>8. Vested(p, now) = v
  BY <1>7 DEF Vested
<1> HIDE DEF p
<1>9. /\ positions' \in Seq(Position(Asset, Account))
      /\ Len(positions') = Len(positions)
      /\ \A j \in 1..Len(positions) : positions'[j] = IF j = i THEN p ELSE positions[j]
  BY <1>2, <1>6, <1>7, ExceptSeq DEF IInv, TypeOK
<1>10. WithinTerms(positions)'
  <2> SUFFICES ASSUME NEW j \in DOMAIN positions'
               PROVE  /\ positions'[j].start < positions'[j].end
                      /\ positions'[j].claimed <= Vested(positions'[j], now)
    BY <1>1 DEF WithinTerms
  <2>1. j \in 1..Len(positions) /\ j \in DOMAIN positions
    BY <1>9, LenProperties DEF IInv, TypeOK
  <2>2. CASE j = i
    BY <2>1, <2>2, <1>3, <1>4, <1>7, <1>8, <1>9
  <2>3. CASE j # i
    BY <2>1, <2>3, <1>9 DEF IInv, WithinTerms
  <2> QED
    BY <2>2, <2>3
<1>11. positions' = [positions EXCEPT ![i].claimed = v]
  BY <1>6 DEF p
<1> QED
  BY <1>5, <1>9, <1>10, <1>11

LEMMA ClaimBeginIInv ==
  ASSUME IInv, NEW c \in Account, NEW i \in DOMAIN positions, ClaimBegin(c, i)
  PROVE  IInv'
<1>1. /\ NotEntered /\ Enter("claim", c, positions[i], Claimable(i))
      /\ UNCHANGED <<now, bal>>
  BY DEF ClaimBegin
<1>2. positions[i] \in Position(Asset, Account)
  BY ElementOfSeq, LenProperties DEF IInv, TypeOK
<1>3. Claimable(i) \in Nat
  BY ClaimEffect
<1>4. /\ stack' \in Seq(Frame) /\ Len(stack') = 1
      /\ stack'[1].op = "claim"
      /\ stack'[1].saved = [positions |-> positions, bal |-> bal]
  BY <1>1, <1>2, <1>3, EnterStack
<1>5. stack'[1].saved.positions = positions /\ stack'[1].op # "create"
  BY <1>4
<1>6. CallInProgress(stack[1])'
  BY <1>1, <1>5, ClaimEffect DEF CallInProgress, WithinTerms, IInv
<1> QED
  BY <1>1, <1>4, <1>6, ClaimEffect DEF IInv, TypeOK

LEMMA RevertIInv ==
  ASSUME IInv, Revert
  PROVE  IInv'
<1>1. /\ stack # << >> /\ positions' = Top.saved.positions
      /\ bal' = Top.saved.bal /\ stack' = Pop /\ now' = now
  BY DEF Revert
<1>2. Top = stack[1] /\ Top \in Frame /\ stack' = << >>
  BY <1>1, TopIsFirst
<1>3. /\ positions' \in Seq(Position(Asset, Account))
      /\ bal' \in [Asset -> [Holder -> Nat]]
  BY <1>1, <1>2 DEF Frame
<1>4. WithinTerms(positions)'
  BY <1>1, <1>2 DEF IInv, CallInProgress, WithinTerms
<1>5. stack' \in Seq(Frame) /\ Len(stack') = 0
  BY <1>2, EmptySeq
<1> QED
  BY <1>1, <1>2, <1>3, <1>4, <1>5 DEF IInv, TypeOK

LEMMA TickIInv ==
  ASSUME IInv, Tick
  PROVE  IInv'
<1>1. stack = << >> /\ now' = now + 1 /\ UNCHANGED <<positions, bal, stack>>
  BY DEF Tick
<1>2. WithinTerms(positions)'
  <2> SUFFICES ASSUME NEW i \in DOMAIN positions
               PROVE  /\ positions[i].start < positions[i].end
                      /\ positions[i].claimed <= Vested(positions[i], now + 1)
    BY <1>1 DEF WithinTerms
  <2>1. positions[i] \in Position(Asset, Account)
    BY ElementOfSeq, LenProperties DEF IInv, TypeOK
  <2>2. /\ positions[i].start < positions[i].end
        /\ positions[i].claimed <= Vested(positions[i], now)
    BY DEF IInv, WithinTerms
  <2>3. Vested(positions[i], now) <= Vested(positions[i], now + 1)
    BY <2>1, <2>2, VestedMonotone DEF Vested, Position, IInv, TypeOK
  <2>4. now \in Nat /\ now + 1 \in Nat
    BY DEF IInv, TypeOK
  <2>5. /\ Vested(positions[i], now) \in 0..positions[i].total
        /\ Vested(positions[i], now + 1) \in 0..positions[i].total
    BY <2>1, <2>2, <2>4, VestedInRange
  <2>6. positions[i].claimed \in Nat /\ positions[i].total \in Nat
    BY <2>1 DEF Position
  <2> QED
    BY <2>2, <2>3, <2>5, <2>6
<1> QED
  BY <1>1, <1>2 DEF IInv, TypeOK

LEMMA NextIInv == IInv /\ [Next]_vars => IInv'
<1> SUFFICES ASSUME IInv, [Next]_vars PROVE IInv'
  OBVIOUS
<1>1. ASSUME NEW c \in Account, NEW b \in Account, NEW a \in Asset,
             NEW n \in 0..MaxAmount, NEW s \in 0..MaxTime, NEW e \in 0..MaxTime,
             CreateBegin(c, a, b, n, s, e)
      PROVE  IInv'
  BY <1>1, CreateBeginIInv
<1>2. CASE CreatePull
  <2>1. Top \in Frame /\ stack # << >>
    BY <1>2, TopIsFirst DEF CreatePull
  <2>2. Top.caller \in Holder /\ Vault \in Holder
    BY <2>1 DEF Frame, Holder
  <2> QED
    BY <1>2, <2>1, <2>2, MovementIInv DEF CreatePull
<1>3. CASE CreateEnd
  BY <1>3, CreateEndIInv
<1>4. ASSUME NEW c \in Account, NEW i \in DOMAIN positions, ClaimBegin(c, i)
      PROVE  IInv'
  BY <1>4, ClaimBeginIInv
<1>5. CASE ClaimPay
  <2>1. Top \in Frame /\ stack # << >>
    BY <1>5, TopIsFirst DEF ClaimPay
  <2>2. Top.pos.beneficiary \in Holder /\ Vault \in Holder
    BY <2>1 DEF Frame, Holder, Position
  <2> QED
    BY <1>5, <2>1, <2>2, MovementIInv DEF ClaimPay
<1>6. CASE ClaimEnd
  <2>1. /\ stack # << >> /\ stack' = Pop /\ UNCHANGED <<now, positions, bal>>
    BY <1>6 DEF ClaimEnd
  <2>2. stack' = << >>
    BY <2>1, TopIsFirst
  <2>3. stack' \in Seq(Frame) /\ Len(stack') = 0
    BY <2>2, EmptySeq
  <2> QED
    BY <2>1, <2>2, <2>3 DEF IInv, TypeOK, WithinTerms
<1>7. CASE Revert
  BY <1>7, RevertIInv
<1>8. ASSUME NEW f \in Account, NEW a \in GiftAsset, Gift(f, a)
      PROVE  IInv'
  <2>1. f \in Holder /\ Vault \in Holder /\ a \in Asset
    BY VaultAssumption DEF Holder
  <2>2. /\ bal[a][f] > 0
        /\ bal' = Credit(Debit(bal, a, f, 1), a, Vault, 1)
        /\ UNCHANGED <<now, positions, stack>>
    BY <1>8 DEF Gift
  <2>3. bal \in Balances /\ bal[a][f] >= 1
    BY <2>1, <2>2 DEF IInv, TypeOK, Balances
  <2>4. bal' \in [Asset -> [Holder -> Nat]]
    BY <2>1, <2>2, <2>3, DebitCredit DEF Balances
  <2> QED
    BY <2>2, <2>4 DEF IInv, TypeOK, WithinTerms, CallInProgress
<1>9. CASE Tick
  BY <1>9, TickIInv
<1>10. CASE UNCHANGED vars
  BY <1>10 DEF vars, IInv, TypeOK, WithinTerms, CallInProgress
<1> QED
  BY <1>1, <1>2, <1>3, <1>4, <1>5, <1>6, <1>7, <1>8, <1>9, <1>10 DEF Next

-----------------------------------------------------------------------------
(* Theorems *)

LEMMA InitIInv == Init => IInv
<1> SUFFICES ASSUME Init PROVE IInv
  OBVIOUS
<1>1. /\ positions = << >> /\ positions \in Seq(Position(Asset, Account))
      /\ stack = << >> /\ stack \in Seq(Frame) /\ Len(stack) = 0
      /\ Len(positions) = 0
  BY EmptySeq DEF Init
<1>2. DOMAIN positions = {}
  BY <1>1, LenProperties
<1>3. bal \in [Asset -> [Holder -> Nat]]
  BY VaultAssumption DEF Init
<1> QED
  BY <1>1, <1>2, <1>3 DEF Init, IInv, TypeOK, WithinTerms

\* The strengthened invariant holds of every reachable state: at most one call
\* of the vault is ever in progress, and every position, in storage and in the
\* state a revert restores, is within its terms.
THEOREM InductiveInvariant == Spec => []IInv
<1>1. IInv /\ [Next]_vars => IInv'
  BY NextIInv
<1> QED
  BY <1>1, InitIInv, PTL DEF Spec

\* Every variable keeps its type; balances in particular never go negative.
THEOREM TypeCorrect == Spec => []TypeOK
<1>1. IInv => TypeOK
  BY DEF IInv
<1> QED
  BY <1>1, InductiveInvariant, PTL

\* Whatever tokens do in the middle of a call, no position pays out more than
\* has vested, and none vests more than was deposited.
THEOREM ClaimsStayWithinVested == Spec => []ClaimsWithinVested
<1>1. IInv => ClaimsWithinVested
  <2> SUFFICES ASSUME IInv, NEW i \in DOMAIN positions
               PROVE  /\ positions[i].claimed <= Vested(positions[i], now)
                      /\ Vested(positions[i], now) <= positions[i].total
    BY DEF ClaimsWithinVested
  <2>1. positions[i] \in Position(Asset, Account)
    BY ElementOfSeq, LenProperties DEF IInv, TypeOK
  <2>2. /\ positions[i].start < positions[i].end
        /\ positions[i].claimed <= Vested(positions[i], now)
    BY DEF IInv, WithinTerms
  <2>3. now \in Nat
    BY DEF IInv, TypeOK
  <2>4. Vested(positions[i], now) \in 0..positions[i].total
    BY <2>1, <2>2, <2>3, VestedInRange
  <2>5. positions[i].total \in Nat
    BY <2>1 DEF Position
  <2> QED
    BY <2>2, <2>4, <2>5
<1> QED
  BY <1>1, InductiveInvariant, PTL

-----------------------------------------------------------------------------
(* What the vault owes *)

LEMMA Of ==
  ASSUME NEW ps \in Seq(Position(Asset, Account)), NEW a
  PROVE  /\ IsFiniteSet({i \in DOMAIN ps : ps[i].asset = a})
         /\ DOMAIN ps = 1..Len(ps) /\ Len(ps) \in Nat
<1>1. DOMAIN ps = 1..Len(ps) /\ Len(ps) \in Nat
  BY LenProperties
<1>2. IsFiniteSet(1..Len(ps))
  BY <1>1, FS_Interval
<1> QED
  BY <1>1, <1>2, FS_Subset

\* A position within its terms owes a natural number of units, and so do the
\* positions of one asset together.
LEMMA OutstandingNat ==
  ASSUME NEW ps \in Seq(Position(Asset, Account)), now \in Nat, WithinTerms(ps), NEW a
  PROVE  /\ \A i \in DOMAIN ps : Owed(ps)[i] \in Nat
         /\ Outstanding(ps, a) \in Nat
<1>1. ASSUME NEW i \in DOMAIN ps
      PROVE  Owed(ps)[i] \in Nat
  <2>1. ps[i] \in Position(Asset, Account)
    BY ElementOfSeq, LenProperties
  <2>2. Vested(ps[i], now) \in 0..ps[i].total /\ ps[i].claimed <= Vested(ps[i], now)
    BY <2>1, VestedInRange DEF WithinTerms
  <2>3. ps[i].claimed \in Nat /\ ps[i].total \in Nat
    BY <2>1 DEF Position
  <2>4. ps[i].total - ps[i].claimed \in Nat
    BY <2>2, <2>3
  <2> QED
    BY <2>4 DEF Owed
<1> QED
  BY <1>1, Of, SumNat DEF Outstanding

\* A new position adds its total to the debt in its asset.
LEMMA OutstandingAppend ==
  ASSUME NEW ps \in Seq(Position(Asset, Account)), now \in Nat, WithinTerms(ps),
         NEW p \in Position(Asset, Account), p.claimed = 0, NEW a
  PROVE  Outstanding(Append(ps, p), a)
           = Outstanding(ps, a) + (IF p.asset = a THEN p.total ELSE 0)
<1> DEFINE qs == Append(ps, p)
           n == Len(ps) + 1
           S == {i \in DOMAIN ps : ps[i].asset = a}
           T == {i \in DOMAIN qs : qs[i].asset = a}
<1>1. /\ qs \in Seq(Position(Asset, Account)) /\ Len(qs) = n
      /\ \A i \in 1..Len(ps) : qs[i] = ps[i]
      /\ qs[n] = p
  BY AppendProperties
<1>2. /\ DOMAIN ps = 1..Len(ps) /\ Len(ps) \in Nat /\ DOMAIN qs = 1..n
      /\ IsFiniteSet(S)
  BY <1>1, Of
<1>3. \A i \in DOMAIN ps : Owed(ps)[i] \in Nat /\ Outstanding(ps, a) \in Nat
  BY OutstandingNat
<1> HIDE DEF qs
<1>4. \A i \in DOMAIN ps : Owed(qs)[i] = Owed(ps)[i]
  BY <1>1, <1>2 DEF Owed
<1>5. p.total \in Nat /\ Owed(qs)[n] = p.total
  <2>1. p.total \in Nat /\ p.total - 0 = p.total
    BY DEF Position
  <2> QED
    BY <1>1, <1>2, <2>1 DEF Owed
<1>6. n \notin S
  BY <1>2
<1>7. T = IF p.asset = a THEN S \cup {n} ELSE S
  BY <1>1, <1>2
<1>8. SumFunctionOnSet(Owed(qs), S) = SumFunctionOnSet(Owed(ps), S)
  BY <1>2, <1>4, SumSame
<1>9. Outstanding(ps, a) = SumFunctionOnSet(Owed(ps), S) /\ Outstanding(ps, a) \in Nat
  BY OutstandingNat DEF Outstanding
<1>10. Outstanding(qs, a) = SumFunctionOnSet(Owed(qs), T)
  BY DEF Outstanding
<1>11. IsFiniteSet(S) /\ \A i \in S \cup {n} : Owed(qs)[i] \in Nat
  BY <1>2, <1>3, <1>4, <1>5
<1> HIDE DEF n, S, T
<1>12. SumFunctionOnSet(Owed(qs), S \cup {n}) = SumFunctionOnSet(Owed(qs), S) + Owed(qs)[n]
  BY <1>6, <1>11, SumAdd
<1> QED
  BY <1>5, <1>7, <1>8, <1>9, <1>10, <1>12 DEF qs

\* Progress of one position lowers the debt in its asset by as much.
LEMMA OutstandingClaim ==
  ASSUME NEW ps \in Seq(Position(Asset, Account)), now \in Nat, WithinTerms(ps),
         NEW i \in DOMAIN ps, NEW v \in Nat,
         ps[i].claimed <= v, v <= ps[i].total, NEW a
  PROVE  Outstanding([ps EXCEPT ![i].claimed = v], a)
           + (IF ps[i].asset = a THEN v - ps[i].claimed ELSE 0) = Outstanding(ps, a)
<1> DEFINE qs == [ps EXCEPT ![i].claimed = v]
           S == {j \in DOMAIN ps : ps[j].asset = a}
<1>1. IsFiniteSet(S) /\ DOMAIN ps = 1..Len(ps)
  BY Of
<1>2. ps[i] \in Position(Asset, Account)
  BY ElementOfSeq, LenProperties
<1>3. /\ DOMAIN qs = DOMAIN ps
      /\ \A j \in DOMAIN ps : j # i => qs[j] = ps[j]
      /\ qs[i] = [ps[i] EXCEPT !.claimed = v]
  BY <1>1
<1>4. qs[i].claimed = v /\ qs[i].total = ps[i].total /\ qs[i].asset = ps[i].asset
  BY <1>2, <1>3 DEF Position
<1> HIDE DEF qs
<1>5. {j \in DOMAIN qs : qs[j].asset = a} = S
  BY <1>3, <1>4
<1>6. \A j \in DOMAIN ps : Owed(ps)[j] \in Nat
  BY OutstandingNat
<1>7. \A j \in DOMAIN ps : j # i => Owed(qs)[j] = Owed(ps)[j]
  BY <1>3 DEF Owed
<1>8. /\ Owed(qs)[i] = ps[i].total - v
      /\ Owed(ps)[i] = ps[i].total - ps[i].claimed
      /\ ps[i].total \in Nat /\ ps[i].claimed \in Nat
  BY <1>2, <1>3, <1>4 DEF Owed, Position
<1>9. Owed(qs)[i] \in Nat /\ Owed(ps)[i] = Owed(qs)[i] + (v - ps[i].claimed)
  BY <1>8
<1>10. /\ Outstanding(ps, a) = SumFunctionOnSet(Owed(ps), S)
       /\ Outstanding(qs, a) = SumFunctionOnSet(Owed(qs), S)
  BY <1>5 DEF Outstanding
<1>11. \A j \in S : j \in DOMAIN ps /\ Owed(qs)[j] \in Nat /\ Owed(ps)[j] \in Nat
  BY <1>6, <1>7, <1>9
<1>12. SumFunctionOnSet(Owed(qs), S) \in Nat /\ SumFunctionOnSet(Owed(ps), S) \in Nat
  BY <1>1, <1>11, SumNat
<1>13. i \in S <=> ps[i].asset = a
  OBVIOUS
<1> HIDE DEF S
<1>14. CASE i \in S
  <2>1. \A j \in S \ {i} : Owed(qs)[j] = Owed(ps)[j]
    BY <1>7, <1>11
  <2> DEFINE x == SumFunctionOnSet(Owed(qs), S)
             y == SumFunctionOnSet(Owed(ps), S)
             k == Owed(qs)[i]
             l == Owed(ps)[i]
             d == v - ps[i].claimed
  <2>2. x + l = y + k
    BY <1>1, <1>11, <1>14, <2>1, SumChange
  <2>3. x \in Nat /\ y \in Nat /\ k \in Nat /\ d \in Int /\ l = k + d
    BY <1>8, <1>9, <1>12
  <2> HIDE DEF x, y, k, l, d
  <2>4. x + d = y
    BY <2>2, <2>3
  <2> QED
    BY <1>10, <1>13, <1>14, <2>4 DEF qs, x, y, d
<1>15. CASE i \notin S
  <2>1. \A j \in S : Owed(qs)[j] = Owed(ps)[j]
    BY <1>7, <1>11, <1>15
  <2>2. SumFunctionOnSet(Owed(qs), S) = SumFunctionOnSet(Owed(ps), S)
    BY <1>1, <2>1, SumSame
  <2> QED
    BY <1>10, <1>12, <1>13, <1>15, <2>2 DEF qs
<1> QED
  BY <1>14, <1>15

\* Tokens pulled into the vault, and tokens it pays out: the other assets stay,
\* and only a token with fees may deliver less than was sent.
LEMMA Pulled ==
  ASSUME bal \in Balances, NEW asset \in Asset, NEW from \in Account,
         NEW amount \in Nat, Move(asset, from, Vault, amount)
  PROVE  /\ \A a \in Asset : a # asset => bal'[a][Vault] = bal[a][Vault]
         /\ bal'[asset][Vault] >= bal[asset][Vault]
         /\ asset \notin FeeAsset => bal'[asset][Vault] = bal[asset][Vault] + amount
<1>1. PICK delivered \in (IF asset \in FeeAsset THEN 0..amount ELSE {amount}) :
        /\ bal[asset][from] >= amount
        /\ bal' = Credit(Debit(bal, asset, from, amount), asset, Vault, delivered)
  BY DEF Move
<1>2. delivered \in Nat /\ (asset \notin FeeAsset => delivered = amount)
  OBVIOUS
<1>3. from \in Holder /\ Vault \in Holder /\ from # Vault
  BY VaultAssumption DEF Holder
<1>4. bal[asset][Vault] \in Nat
  BY <1>3 DEF Balances
<1>5. bal'[asset][Vault] = bal[asset][Vault] + delivered
  BY <1>1, <1>2, <1>3 DEF Credit, Debit, Balances
<1>6. \A a \in Asset : a # asset => bal'[a][Vault] = bal[a][Vault]
  BY <1>1, <1>2, <1>3 DEF Credit, Debit, Balances
<1> QED
  BY <1>2, <1>4, <1>5, <1>6

LEMMA Paid ==
  ASSUME bal \in Balances, NEW asset \in Asset, NEW to \in Account,
         NEW amount \in Nat, Move(asset, Vault, to, amount)
  PROVE  /\ \A a \in Asset : a # asset => bal'[a][Vault] = bal[a][Vault]
         /\ bal'[asset][Vault] = bal[asset][Vault] - amount
<1>1. PICK delivered \in (IF asset \in FeeAsset THEN 0..amount ELSE {amount}) :
        bal' = Credit(Debit(bal, asset, Vault, amount), asset, to, delivered)
  BY DEF Move
<1>2. to \in Holder /\ Vault \in Holder /\ to # Vault
  BY VaultAssumption DEF Holder
<1>3. bal'[asset][Vault] = bal[asset][Vault] - amount
  BY <1>1, <1>2 DEF Credit, Debit, Balances
<1>4. \A a \in Asset : a # asset => bal'[a][Vault] = bal[a][Vault]
  BY <1>1, <1>2 DEF Credit, Debit, Balances
<1> QED
  BY <1>3, <1>4

\* The debts are natural numbers, and so is every balance of the vault.
LEMMA Numbers ==
  ASSUME IInv
  PROVE  /\ bal \in Balances /\ positions \in Seq(Position(Asset, Account))
         /\ now \in Nat /\ WithinTerms(positions)
         /\ \A a \in Asset : /\ bal[a][Vault] \in Nat
                             /\ Outstanding(positions, a) \in Nat
<1>1. bal \in Balances /\ Vault \in Holder
  BY DEF IInv, TypeOK, Balances, Holder
<1>2. \A a \in Asset : bal[a][Vault] \in Nat
  BY <1>1 DEF Balances
<1>3. \A a \in Asset : Outstanding(positions, a) \in Nat
  BY OutstandingNat DEF IInv, TypeOK
<1> QED
  BY <1>1, <1>2, <1>3 DEF IInv, TypeOK

\* The call in progress: its frame, and what FInv says of it.
LEMMA InCall ==
  ASSUME IInv, FInv, stack # << >>
  PROVE  /\ Top = stack[1] /\ Pop = << >> /\ stack[1] \in Frame
         /\ CallInProgress(stack[1]) /\ CallFunded(stack[1])
         /\ stack[1].pos \in Position(Asset, Account)
         /\ stack[1].pos.asset \in Asset /\ stack[1].amount \in Nat
<1>1. Top = stack[1] /\ Pop = << >> /\ stack[1] \in Frame
  BY TopIsFirst
<1>2. CallInProgress(stack[1]) /\ CallFunded(stack[1])
  BY DEF IInv, FInv
<1> QED
  BY <1>1, <1>2 DEF Frame, Position

-----------------------------------------------------------------------------
(* Every action keeps the vault funded *)

LEMMA CreateBeginFInv ==
  ASSUME IInv, FInv, NEW c \in Account, NEW a \in Asset, NEW b \in Account,
         NEW n \in 0..MaxAmount, NEW s \in 0..MaxTime, NEW e \in 0..MaxTime,
         CreateBegin(c, a, b, n, s, e)
  PROVE  FInv'
<1> DEFINE pos == [asset |-> a, beneficiary |-> b, total |-> n,
                   claimed |-> 0, start |-> s, end |-> e]
<1>1. /\ n # 0 /\ NotEntered /\ Enter("create", c, pos, n)
      /\ UNCHANGED <<now, positions, bal>>
  BY DEF CreateBegin
<1>2. n \in Nat \ {0} /\ s \in Nat /\ e \in Nat
  BY <1>1, VaultAssumption
<1>3. pos \in Position(Asset, Account) /\ pos.total = n /\ pos.asset = a
  BY <1>2 DEF Position
<1> HIDE DEF pos
<1>4. /\ stack = << >> /\ stack' # << >>
      /\ stack'[1].op = "create" /\ stack'[1].pos = pos /\ stack'[1].amount = n
      /\ stack'[1].before = bal[a][Vault] /\ stack'[1].moved = FALSE
      /\ stack'[1].saved = [positions |-> positions, bal |-> bal]
  BY <1>1, <1>2, <1>3, EnterStack
<1>5. Funded(positions, bal)
  BY <1>4 DEF FInv
<1>6. \A x \in Asset : InTransit(stack'[1], x) = 0
  BY <1>4 DEF InTransit
<1>7. CallFunded(stack[1])'
  BY <1>1, <1>3, <1>4, <1>5, <1>6, Numbers DEF CallFunded, Funded, PlainAsset
<1> QED
  BY <1>4, <1>7 DEF FInv

LEMMA CreatePullFInv ==
  ASSUME IInv, FInv, CreatePull
  PROVE  FInv'
<1> DEFINE f == stack[1]
           g == stack'[1]
<1>1. /\ stack # << >> /\ f.op = "create" /\ f.moved = FALSE
      /\ Move(f.pos.asset, f.caller, Vault, f.amount)
      /\ UNCHANGED <<now, positions>>
  BY InCall DEF CreatePull, Frame
<1>2. /\ f.pos.asset \in Asset /\ f.amount \in Nat /\ f.caller \in Account
      /\ CallFunded(f)
  BY <1>1, InCall DEF Frame
<1>3. /\ stack' # << >> /\ g.op = f.op /\ g.pos = f.pos /\ g.amount = f.amount
      /\ g.before = f.before /\ g.moved = TRUE /\ g.saved = f.saved
  BY <1>1, MarkMovedStack DEF Move
<1>4. /\ \A a \in Asset : a # f.pos.asset => bal'[a][Vault] = bal[a][Vault]
      /\ bal'[f.pos.asset][Vault] >= bal[f.pos.asset][Vault]
      /\ f.pos.asset \notin FeeAsset =>
           bal'[f.pos.asset][Vault] = bal[f.pos.asset][Vault] + f.amount
  BY <1>1, <1>2, Numbers, Pulled
<1>5. \A a \in Asset : InTransit(f, a) = 0
  BY <1>1 DEF InTransit
<1>6. \A a \in Asset : InTransit(g, a) = IF a = f.pos.asset THEN f.amount ELSE 0
  BY <1>1, <1>3 DEF InTransit
<1>7. /\ Funded(f.saved.positions, f.saved.bal)
      /\ f.amount = f.pos.total /\ f.before = f.saved.bal[f.pos.asset][Vault]
  BY <1>1, <1>2 DEF CallFunded
<1>8. \A a \in Asset : bal[a][Vault] >= Outstanding(positions, a)
  BY <1>1, <1>2, <1>5, Numbers DEF CallFunded
<1>9. \A a \in PlainAsset : a \in Asset /\ a \notin FeeAsset
                            /\ bal[a][Vault] = Outstanding(positions, a)
  BY <1>2, <1>5, Numbers DEF CallFunded, PlainAsset
<1> HIDE DEF f, g
<1>10. \A a \in Asset : bal'[a][Vault] >= Outstanding(positions, a) /\ bal'[a][Vault] \in Int
  <2> SUFFICES ASSUME NEW a \in Asset
               PROVE  bal'[a][Vault] >= Outstanding(positions, a) /\ bal'[a][Vault] \in Int
    OBVIOUS
  <2>1. bal[a][Vault] \in Nat /\ bal[a][Vault] >= Outstanding(positions, a)
        /\ Outstanding(positions, a) \in Nat
    BY <1>8, Numbers
  <2>2. bal' \in Balances /\ Vault \in Holder
    BY <1>1, <1>2, MoveType, Numbers DEF Holder
  <2>3. bal'[a][Vault] \in Nat
    BY <2>2 DEF Balances
  <2> QED
    BY <1>4, <2>1, <2>3
<1>11. \A a \in PlainAsset : bal'[a][Vault] = Outstanding(positions, a) + InTransit(g, a)
  BY <1>2, <1>4, <1>6, <1>9, Numbers
<1>12. /\ g.op = "create"
       /\ \A a \in Asset : Outstanding(positions, a) + 0 = Outstanding(positions, a)
  BY <1>1, <1>3, Numbers
<1>13. CallFunded(stack[1])'
  BY <1>1, <1>3, <1>7, <1>10, <1>11, <1>12 DEF CallFunded, g
<1> QED
  BY <1>3, <1>13 DEF FInv

LEMMA CreateEndFInv ==
  ASSUME IInv, FInv, CreateEnd
  PROVE  FInv'
<1> DEFINE f == stack[1]
           asset == f.pos.asset
<1>1. /\ stack # << >> /\ f.op = "create" /\ f.moved = TRUE
      /\ Received(f) = f.amount /\ positions' = Append(positions, f.pos)
      /\ stack' = << >> /\ UNCHANGED <<now, bal>>
  BY InCall DEF CreateEnd, Frame
<1>2. /\ f \in Frame /\ f.pos \in Position(Asset, Account) /\ asset \in Asset
      /\ f.amount \in Nat /\ CallFunded(f) /\ CallInProgress(f)
  BY <1>1, InCall
<1>3. /\ positions = f.saved.positions /\ f.pos.claimed = 0
      /\ Funded(positions, f.saved.bal)
      /\ f.amount = f.pos.total /\ f.before = f.saved.bal[asset][Vault]
  BY <1>1, <1>2 DEF CallFunded, CallInProgress
<1>4. \A a \in Asset : bal[a][Vault] >= Outstanding(positions, a)
  BY <1>1, <1>2, Numbers DEF CallFunded
<1>5. f.before >= Outstanding(positions, asset) /\ f.before \in Nat
  BY <1>2, <1>3 DEF Funded, Frame
<1>6. \A a \in PlainAsset :
        a \in Asset
        /\ bal[a][Vault] = Outstanding(positions, a) + (IF asset = a THEN f.amount ELSE 0)
  BY <1>1, <1>2 DEF CallFunded, InTransit, PlainAsset
<1>7. \A a \in Asset : Outstanding(positions', a)
        = Outstanding(positions, a) + (IF asset = a THEN f.amount ELSE 0)
  BY <1>1, <1>2, <1>3, Numbers, OutstandingAppend
<1>8. bal[asset][Vault] >= Outstanding(positions, asset) + f.amount
  <2> DEFINE after == bal[asset][Vault]
             owed == Outstanding(positions, asset)
  <2>1. after \in Nat /\ owed \in Nat /\ after >= owed
    BY <1>2, <1>4, Numbers
  <2>2. f.amount = IF after >= f.before THEN after - f.before ELSE 0
    BY <1>1 DEF Received
  <2> HIDE DEF after, owed, asset, f
  <2> QED
    BY <1>5, <2>1, <2>2, <1>2 DEF after, owed
<1> HIDE DEF f, asset
<1>9. \A a \in Asset : bal[a][Vault] >= Outstanding(positions', a)
  BY <1>2, <1>4, <1>7, <1>8, Numbers
<1>10. \A a \in PlainAsset : bal[a][Vault] = Outstanding(positions', a)
  BY <1>6, <1>7
<1> QED
  BY <1>1, <1>9, <1>10 DEF FInv, Funded, PlainAsset

LEMMA ClaimBeginFInv ==
  ASSUME IInv, FInv, NEW c \in Account, NEW i \in DOMAIN positions, ClaimBegin(c, i)
  PROVE  FInv'
<1> DEFINE p == positions[i]
           v == Vested(p, now)
           n == Claimable(i)
<1>1. /\ NotEntered /\ Enter("claim", c, p, n) /\ UNCHANGED <<now, bal>>
  BY DEF ClaimBegin
<1>2. p \in Position(Asset, Account) /\ p.total \in Nat /\ p.claimed \in Nat
  <2>1. p \in Position(Asset, Account)
    BY ElementOfSeq, LenProperties DEF IInv, TypeOK
  <2> QED
    BY <2>1 DEF Position
<1>3. /\ p.claimed < v /\ n \in Nat
      /\ positions' = [positions EXCEPT ![i].claimed = v]
  BY ClaimEffect
<1>4. v \in 0..p.total /\ n = v - p.claimed
  BY <1>2, VestedInRange DEF IInv, TypeOK, WithinTerms, Claimable
<1>5. /\ stack = << >> /\ stack' # << >>
      /\ stack'[1].op = "claim" /\ stack'[1].pos = p /\ stack'[1].amount = n
      /\ stack'[1].moved = FALSE
      /\ stack'[1].saved = [positions |-> positions, bal |-> bal]
  BY <1>1, <1>2, <1>3, EnterStack
<1>6. Funded(positions, bal)
  BY <1>5 DEF FInv
<1>7. \A a : InTransit(stack'[1], a) = IF p.asset = a THEN n ELSE 0
  BY <1>5 DEF InTransit
<1>8. \A a \in Asset : Outstanding(positions', a) + (IF p.asset = a THEN n ELSE 0)
                         = Outstanding(positions, a)
  <2>1. v \in Nat /\ p.claimed <= v /\ v <= p.total
    BY <1>2, <1>3, <1>4
  <2>2. i \in DOMAIN positions
    OBVIOUS
  <2> HIDE DEF v, n
  <2>3. \A a \in Asset :
          Outstanding([positions EXCEPT ![i].claimed = v], a)
            + (IF p.asset = a THEN v - p.claimed ELSE 0) = Outstanding(positions, a)
    BY <2>1, <2>2, Numbers, OutstandingClaim
  <2> QED
    BY <1>3, <1>4, <2>3
<1> HIDE DEF p, v, n
<1>9. \A a \in Asset : bal[a][Vault] >= Outstanding(positions', a) + InTransit(stack'[1], a)
  BY <1>6, <1>7, <1>8 DEF Funded
<1>10. \A a \in PlainAsset : bal[a][Vault] = Outstanding(positions', a) + InTransit(stack'[1], a)
  BY <1>6, <1>7, <1>8 DEF Funded, PlainAsset
<1>11. CallFunded(stack[1])'
  BY <1>1, <1>5, <1>6, <1>9, <1>10 DEF CallFunded, Funded, PlainAsset, InTransit
<1> QED
  BY <1>5, <1>11 DEF FInv

LEMMA ClaimPayFInv ==
  ASSUME IInv, FInv, ClaimPay
  PROVE  FInv'
<1> DEFINE f == stack[1]
           g == stack'[1]
<1>1. /\ stack # << >> /\ f.op = "claim" /\ f.moved = FALSE
      /\ Move(f.pos.asset, Vault, f.pos.beneficiary, f.amount)
      /\ UNCHANGED <<now, positions>>
  BY InCall DEF ClaimPay, Frame
<1>2. /\ f.pos.asset \in Asset /\ f.amount \in Nat /\ f.pos.beneficiary \in Account
      /\ CallFunded(f)
  BY <1>1, InCall DEF Position
<1>3. /\ stack' # << >> /\ g.op = f.op /\ g.pos = f.pos /\ g.amount = f.amount
      /\ g.before = f.before /\ g.moved = TRUE /\ g.saved = f.saved
  BY <1>1, MarkMovedStack DEF Move
<1>4. /\ \A a \in Asset : a # f.pos.asset => bal'[a][Vault] = bal[a][Vault]
      /\ bal'[f.pos.asset][Vault] = bal[f.pos.asset][Vault] - f.amount
  BY <1>1, <1>2, Numbers, Paid
<1>5. \A a \in Asset : InTransit(f, a) = IF a = f.pos.asset THEN f.amount ELSE 0
  BY <1>1 DEF InTransit
<1>6. \A a \in Asset : InTransit(g, a) = 0
  BY <1>1, <1>3 DEF InTransit
<1>7. \A a \in Asset : bal[a][Vault] >= Outstanding(positions, a) + InTransit(f, a)
  BY <1>1, <1>2 DEF CallFunded
<1>8. \A a \in PlainAsset :
        a \in Asset /\ bal[a][Vault] = Outstanding(positions, a) + InTransit(f, a)
  BY <1>2 DEF CallFunded, PlainAsset
<1>9. Funded(f.saved.positions, f.saved.bal)
  BY <1>2 DEF CallFunded
<1> HIDE DEF f, g
<1>10. \A a \in Asset : bal'[a][Vault] >= Outstanding(positions, a) + InTransit(g, a)
  BY <1>2, <1>4, <1>5, <1>6, <1>7, Numbers
<1>11. ASSUME NEW a \in PlainAsset
       PROVE  bal'[a][Vault] = Outstanding(positions, a) + InTransit(g, a)
  <2>1. /\ a \in Asset /\ Outstanding(positions, a) \in Nat
        /\ bal[a][Vault] = Outstanding(positions, a) + InTransit(f, a)
    BY <1>8, Numbers
  <2>2. CASE a = f.pos.asset
    BY <1>2, <1>4, <1>5, <1>6, <2>1, <2>2
  <2>3. CASE a # f.pos.asset
    BY <1>4, <1>5, <1>6, <2>1, <2>3
  <2> QED
    BY <2>2, <2>3
<1>12. g.op = "claim"
  BY <1>1, <1>3
<1>13. CallFunded(stack[1])'
  BY <1>1, <1>3, <1>9, <1>10, <1>11, <1>12 DEF CallFunded, g
<1> QED
  BY <1>3, <1>13 DEF FInv

LEMMA ClaimEndFInv ==
  ASSUME IInv, FInv, ClaimEnd
  PROVE  FInv'
<1>1. /\ stack # << >> /\ stack[1].op = "claim" /\ stack[1].moved = TRUE
      /\ stack' = << >> /\ UNCHANGED <<now, positions, bal>>
  BY InCall DEF ClaimEnd, Frame
<1>2. \A a : InTransit(stack[1], a) = 0
  BY <1>1 DEF InTransit
<1>3. \A a \in Asset : bal[a][Vault] >= Outstanding(positions, a)
  BY <1>1, <1>2, InCall, Numbers DEF CallFunded
<1>4. \A a \in PlainAsset : bal[a][Vault] = Outstanding(positions, a)
  BY <1>1, <1>2, InCall, Numbers DEF CallFunded, PlainAsset
<1> QED
  BY <1>1, <1>3, <1>4 DEF FInv, Funded, PlainAsset

LEMMA GiftFInv ==
  ASSUME IInv, FInv, NEW from \in Account, NEW asset \in GiftAsset, Gift(from, asset)
  PROVE  FInv'
<1>1. /\ bal[asset][from] > 0 /\ bal' = Credit(Debit(bal, asset, from, 1), asset, Vault, 1)
      /\ UNCHANGED <<now, positions, stack>>
  BY DEF Gift
<1>2. /\ asset \in Asset /\ from \in Holder /\ Vault \in Holder /\ from # Vault
      /\ asset \notin PlainAsset
  BY VaultAssumption DEF Holder, PlainAsset
<1>3. bal \in Balances
  BY Numbers
<1>4. \A a \in Asset : bal'[a][Vault] = IF a = asset THEN bal[a][Vault] + 1 ELSE bal[a][Vault]
  BY <1>1, <1>2, <1>3 DEF Credit, Debit, Balances
<1>5. \A a \in PlainAsset : bal'[a][Vault] = bal[a][Vault]
  BY <1>2, <1>4 DEF PlainAsset
<1>6. CASE stack = << >>
  <2>1. Funded(positions, bal)
    BY <1>6 DEF FInv
  <2>2. \A a \in Asset : bal'[a][Vault] >= Outstanding(positions, a)
    BY <1>4, <2>1, Numbers DEF Funded
  <2>3. \A a \in PlainAsset : bal'[a][Vault] = Outstanding(positions, a)
    BY <1>5, <2>1 DEF Funded
  <2> QED
    BY <1>1, <1>6, <2>2, <2>3 DEF FInv, Funded, PlainAsset
<1>7. CASE stack # << >>
  <2> DEFINE f == stack[1]
             due(a) == IF f.op = "claim" THEN InTransit(f, a) ELSE 0
  <2>1. CallFunded(f) /\ f.amount \in Nat
    BY <1>7, InCall
  <2>2. \A a \in Asset : bal[a][Vault] >= Outstanding(positions, a) + due(a)
    BY <2>1 DEF CallFunded
  <2>3. \A a \in Asset : due(a) \in Nat
    BY <2>1 DEF InTransit
  <2>4. \A a \in PlainAsset : bal'[a][Vault] = Outstanding(positions, a) + InTransit(f, a)
    BY <1>5, <2>1 DEF CallFunded
  <2> HIDE DEF due
  <2>5. \A a \in Asset : bal'[a][Vault] >= Outstanding(positions, a) + due(a)
    BY <1>4, <2>2, <2>3, Numbers
  <2>6. CallFunded(stack[1])'
    BY <1>1, <2>1, <2>4, <2>5 DEF CallFunded, Funded, PlainAsset, InTransit, due
  <2> QED
    BY <1>1, <1>7, <2>6 DEF FInv
<1> QED
  BY <1>6, <1>7

LEMMA NextFInv == IInv /\ FInv /\ [Next]_vars => FInv'
<1> SUFFICES ASSUME IInv, FInv, [Next]_vars PROVE FInv'
  OBVIOUS
<1>1. ASSUME NEW c \in Account, NEW b \in Account, NEW a \in Asset,
             NEW n \in 0..MaxAmount, NEW s \in 0..MaxTime, NEW e \in 0..MaxTime,
             CreateBegin(c, a, b, n, s, e)
      PROVE  FInv'
  BY <1>1, CreateBeginFInv
<1>2. CASE CreatePull
  BY <1>2, CreatePullFInv
<1>3. CASE CreateEnd
  BY <1>3, CreateEndFInv
<1>4. ASSUME NEW c \in Account, NEW i \in DOMAIN positions, ClaimBegin(c, i)
      PROVE  FInv'
  BY <1>4, ClaimBeginFInv
<1>5. CASE ClaimPay
  BY <1>5, ClaimPayFInv
<1>6. CASE ClaimEnd
  BY <1>6, ClaimEndFInv
<1>7. CASE Revert
  <2>1. /\ stack # << >> /\ positions' = stack[1].saved.positions
        /\ bal' = stack[1].saved.bal /\ stack' = << >>
    BY <1>7, InCall DEF Revert
  <2>2. Funded(stack[1].saved.positions, stack[1].saved.bal)
    BY <2>1, InCall DEF CallFunded
  <2> QED
    BY <2>1, <2>2 DEF FInv, Funded, PlainAsset
<1>8. ASSUME NEW f \in Account, NEW a \in GiftAsset, Gift(f, a)
      PROVE  FInv'
  BY <1>8, GiftFInv
<1>9. CASE Tick \/ UNCHANGED vars
  <2>1. UNCHANGED <<positions, bal, stack>>
    BY <1>9 DEF Tick, vars
  <2> QED
    BY <2>1 DEF FInv, Funded, CallFunded, PlainAsset, InTransit
<1> QED
  BY <1>1, <1>2, <1>3, <1>4, <1>5, <1>6, <1>7, <1>8, <1>9 DEF Next

LEMMA InitFInv == Init => FInv
<1> SUFFICES ASSUME Init PROVE FInv
  OBVIOUS
<1>1. positions = << >> /\ stack = << >> /\ Vault \in Holder
  BY DEF Init, Holder
<1>2. DOMAIN positions = {}
  BY <1>1, EmptySeq, LenProperties
<1>3. \A a : Outstanding(positions, a) = 0
  BY <1>2, SumEmpty DEF Outstanding
<1>4. \A a \in Asset : bal[a][Vault] = 0
  BY <1>1 DEF Init
<1> QED
  BY <1>1, <1>3, <1>4 DEF FInv, Funded, PlainAsset

\* The vault is funded at every moment, and so was every state a revert
\* restores.
THEOREM AlwaysFunded == Spec => [](IInv /\ FInv)
<1>1. IInv /\ FInv /\ [Next]_vars => (IInv /\ FInv)'
  BY NextIInv, NextFInv
<1> QED
  BY <1>1, InitIInv, InitFInv, PTL DEF Spec

\* What a claim has booked and not sent yet is the amount of the one call.
LEMMA LeavingIs ==
  ASSUME IInv, FInv, NEW a \in Asset
  PROVE  Leaving(a) = IF stack # << >> /\ stack[1].op = "claim"
                      THEN InTransit(stack[1], a) ELSE 0
<1> DEFINE w == [k \in DOMAIN stack |-> stack[k].amount]
           S == {k \in DOMAIN stack : /\ stack[k].op = "claim" /\ ~stack[k].moved
                                      /\ stack[k].pos.asset = a}
<1>1. Leaving(a) = SumFunctionOnSet(w, S)
  BY DEF Leaving
<1>2. CASE stack = << >>
  <2>1. S = {}
    BY <1>2, EmptySeq, LenProperties
  <2> HIDE DEF S, w
  <2> QED
    BY <1>1, <1>2, <2>1, SumEmpty
<1>3. CASE stack # << >>
  <2>1. DOMAIN stack = {1} /\ stack[1].amount \in Nat /\ stack[1].moved \in BOOLEAN
    <3>1. Len(stack) = 1 /\ stack \in Seq(Frame)
      BY <1>3, TopIsFirst DEF IInv, TypeOK
    <3>2. DOMAIN stack = 1..1
      BY <3>1, LenProperties
    <3> QED
      BY <1>3, <3>2, InCall DEF Frame
  <2>2. S = IF /\ stack[1].op = "claim" /\ ~stack[1].moved
               /\ stack[1].pos.asset = a
            THEN {1} ELSE {}
    BY <2>1
  <2>3. SumFunctionOnSet(w, {}) = 0
    BY SumEmpty
  <2>4. SumFunctionOnSet(w, {1}) = stack[1].amount
    <3>1. w[1] = stack[1].amount /\ w[1] \in Nat
      BY <2>1
    <3>2. IsFiniteSet({}) /\ 1 \notin {} /\ {} \cup {1} = {1}
      BY FS_EmptySet
    <3> HIDE DEF w
    <3>3. SumFunctionOnSet(w, {} \cup {1}) = SumFunctionOnSet(w, {}) + w[1]
      BY <3>1, <3>2, SumAdd
    <3> QED
      BY <2>3, <3>1, <3>2, <3>3
  <2> HIDE DEF S, w
  <2> QED
    BY <1>1, <1>3, <2>1, <2>2, <2>3, <2>4 DEF InTransit
<1> QED
  BY <1>2, <1>3

\* Whatever tokens withhold or call back into, at every moment the vault holds
\* what it owes in each asset and what it is about to send.
THEOREM StaysSolvent == Spec => []Solvent
<1>1. IInv /\ FInv => Solvent
  <2> SUFFICES ASSUME IInv, FInv, NEW a \in Asset
               PROVE  bal[a][Vault] >= Outstanding(positions, a) + Leaving(a)
    BY DEF Solvent
  <2>1. CASE stack = << >>
    BY <2>1, LeavingIs, Numbers DEF FInv, Funded
  <2>2. CASE stack # << >>
    BY <2>2, LeavingIs, InCall DEF CallFunded
  <2> QED
    BY <2>1, <2>2
<1> QED
  BY <1>1, AlwaysFunded, PTL

\* Between transactions the vault holds of a token without fees, hooks or gifts
\* exactly what it owes: no schedule's rounding leaves a unit behind.
THEOREM NothingIsStranded == Spec => []NothingStranded
<1>1. FInv => NothingStranded
  BY DEF FInv, Funded, NothingStranded, PlainAsset
<1> QED
  BY <1>1, AlwaysFunded, PTL

-----------------------------------------------------------------------------
(* Refinement *)

LEMMA InitRefines == Init => Vesting!Init
  BY DEF Init, Committed, Vesting!Init

\* Moving tokens, giving them away and entering a call leave the ledger of
\* completed transactions alone.
LEMMA EnterKeepsCommitted ==
  ASSUME IInv, NotEntered, NEW op \in {"create", "claim"}, NEW caller \in Account,
         NEW pos \in Position(Asset, Account), NEW amount \in Nat,
         Enter(op, caller, pos, amount)
  PROVE  Committed' = Committed
<1>1. stack' # << >> /\ stack'[1].saved = [positions |-> positions, bal |-> bal]
  BY EnterStack
<1> QED
  BY <1>1 DEF Committed, NotEntered

LEMMA MoveKeepsCommitted ==
  ASSUME IInv, stack # << >>, MarkMoved
  PROVE  Committed' = Committed
  BY MarkMovedStack DEF Committed

LEMMA CreateEndOpens ==
  ASSUME IInv, CreateEnd
  PROVE  Vesting!Open
<1>1. /\ stack # << >> /\ Top.op = "create"
      /\ positions' = Append(positions, Top.pos) /\ stack' = Pop
      /\ now' = now
  BY DEF CreateEnd
<1>2. /\ Top = stack[1] /\ Top.pos \in Position(Asset, Account) /\ stack' = << >>
  BY <1>1, TopIsFirst DEF Frame
<1>3. /\ Committed = positions /\ Committed' = positions'
      /\ Top.pos.claimed = 0 /\ Top.pos.start < Top.pos.end /\ now < Top.pos.end
  BY <1>1, <1>2 DEF IInv, CallInProgress, Committed
<1>4. positions \in Seq(Position(Asset, Account))
  BY DEF IInv, TypeOK
<1>5. /\ Len(positions') = Len(positions) + 1
      /\ positions'[Len(positions')] = Top.pos
  BY <1>1, <1>2, <1>4, AppendProperties
<1>6. /\ Top.pos.asset \in Asset /\ Top.pos.beneficiary \in Account
      /\ Top.pos.total > 0
  BY <1>2 DEF Position
<1> QED
  BY <1>1, <1>3, <1>5, <1>6 DEF Vesting!Open

LEMMA ClaimEndReleases ==
  ASSUME IInv, ClaimEnd
  PROVE  \E i \in DOMAIN Committed : Vesting!Release(i)
<1>1. /\ stack # << >> /\ Top.op = "claim" /\ stack' = Pop
      /\ now' = now /\ positions' = positions
  BY DEF ClaimEnd
<1>2. Top = stack[1] /\ stack' = << >>
  BY <1>1, TopIsFirst
<1>3. Committed = stack[1].saved.positions /\ Committed' = positions
  BY <1>1, <1>2 DEF Committed
<1>4. PICK i \in DOMAIN Committed :
        /\ Committed[i].claimed < Vested(Committed[i], now)
        /\ positions = [Committed EXCEPT ![i].claimed = Vested(Committed[i], now)]
  BY <1>1, <1>2, <1>3 DEF IInv, CallInProgress
<1> QED
  BY <1>1, <1>3, <1>4 DEF Vesting!Release, Vesting!Vested, Vested,
     Vesting!VestedOf, VestedOf

LEMMA StepRefines == IInv /\ [Next]_vars => [Vesting!Next]_(Vesting!vars)
<1> SUFFICES ASSUME IInv, [Next]_vars
             PROVE  Vesting!Next \/ UNCHANGED <<now, Committed>>
  BY DEF Vesting!vars
<1>1. ASSUME NEW c \in Account, NEW b \in Account, NEW a \in Asset,
             NEW n \in 0..MaxAmount, NEW s \in 0..MaxTime, NEW e \in 0..MaxTime,
             CreateBegin(c, a, b, n, s, e)
      PROVE  UNCHANGED <<now, Committed>>
  <2> DEFINE pos == [asset |-> a, beneficiary |-> b, total |-> n,
                     claimed |-> 0, start |-> s, end |-> e]
  <2>1. /\ n # 0 /\ NotEntered /\ Enter("create", c, pos, n) /\ now' = now
    BY <1>1 DEF CreateBegin
  <2>2. n \in Nat \ {0} /\ s \in Nat /\ e \in Nat
    BY <2>1, VaultAssumption
  <2>3. pos \in Position(Asset, Account)
    BY <2>2 DEF Position
  <2> HIDE DEF pos
  <2> QED
    BY <2>1, <2>2, <2>3, EnterKeepsCommitted
<1>2. CASE CreatePull \/ ClaimPay
  <2>1. stack # << >> /\ MarkMoved /\ now' = now
    BY <1>2 DEF CreatePull, ClaimPay, Move
  <2> QED
    BY <2>1, MoveKeepsCommitted
<1>3. CASE CreateEnd
  BY <1>3, CreateEndOpens DEF Vesting!Next
<1>4. ASSUME NEW c \in Account, NEW i \in DOMAIN positions, ClaimBegin(c, i)
      PROVE  UNCHANGED <<now, Committed>>
  <2>1. /\ NotEntered /\ Enter("claim", c, positions[i], Claimable(i)) /\ now' = now
    BY <1>4 DEF ClaimBegin
  <2>2. positions[i] \in Position(Asset, Account)
    BY ElementOfSeq, LenProperties DEF IInv, TypeOK
  <2>3. Claimable(i) \in Nat
    BY <1>4, ClaimEffect
  <2> QED
    BY <2>1, <2>2, <2>3, EnterKeepsCommitted
<1>5. CASE ClaimEnd
  BY <1>5, ClaimEndReleases DEF Vesting!Next
<1>6. CASE Revert
  <2>1. /\ stack # << >> /\ positions' = Top.saved.positions /\ stack' = Pop
        /\ now' = now
    BY <1>6 DEF Revert
  <2>2. Top = stack[1] /\ stack' = << >>
    BY <2>1, TopIsFirst
  <2> QED
    BY <2>1, <2>2 DEF Committed
<1>7. ASSUME NEW f \in Account, NEW a \in GiftAsset, Gift(f, a)
      PROVE  UNCHANGED <<now, Committed>>
  BY <1>7 DEF Gift, Committed
<1>8. CASE Tick
  BY <1>8 DEF Tick, Committed, Vesting!Next, Vesting!Tick, IInv, TypeOK
<1>9. CASE UNCHANGED vars
  BY <1>9 DEF vars, Committed
<1> QED
  BY <1>1, <1>2, <1>3, <1>4, <1>5, <1>6, <1>7, <1>8, <1>9 DEF Next

\* The contract, with tokens that call back, withhold or refuse and with every
\* revert, implements the abstract vesting ledger.
THEOREM Refinement == Spec => RefinesLinearVesting
<1>1. IInv /\ [Next]_vars => [Vesting!Next]_(Vesting!vars)
  BY StepRefines
<1> QED
  BY <1>1, InitRefines, InductiveInvariant, PTL
     DEF Spec, RefinesLinearVesting, Vesting!Spec

=============================================================================

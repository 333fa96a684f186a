------------------------- MODULE GuardManagerProofs -------------------------
(***************************************************************************)
(* For every set of rules, payments, results and tokens' behaviours: the   *)
(* manager's state is well typed, nothing is executed twice, late or at    *)
(* another price, and it implements EventLifecycle.                        *)
(***************************************************************************)
EXTENDS GuardManager, ArithmeticProofs, SequenceTheorems, TLAPS

-----------------------------------------------------------------------------
(* Arithmetic and data *)

\* normalizePriceUsd18 returns a natural number.
LEMMA PriceType ==
  ASSUME NEW f \in Feed, PriceReadable(f)
  PROVE  NormalizePrice(f) \in Nat
<1> DEFINE shift == UsdDecimals - f.decimals
<1>1. /\ f.raw \in Nat /\ shift \in Int /\ MaxShift \in Nat
  BY ManagerAssumption
<1> HIDE DEF shift
<1>2. CASE f.raw = 0 \/ -shift > MaxShift
  BY <1>2 DEF NormalizePrice, shift
<1>3. CASE ~(f.raw = 0 \/ -shift > MaxShift) /\ shift >= 0
  <2>1. shift \in 0..MaxShift
    BY <1>1, <1>3 DEF PriceReadable, shift
  <2>2. 10^shift \in Nat
    BY <2>1, PowersAssumption
  <2> QED
    BY <1>1, <1>3, <2>2 DEF NormalizePrice, shift
<1>4. CASE ~(f.raw = 0 \/ -shift > MaxShift) /\ ~(shift >= 0)
  <2>1. -shift \in 0..MaxShift
    BY <1>1, <1>4
  <2>2. 10^(-shift) \in Nat \ {0}
    BY <2>1, PowersAssumption
  <2>3. f.raw \div 10^(-shift) \in Nat
    BY <1>1, <2>2, QuotientBounds
  <2> QED
    BY <1>1, <1>4, <2>3 DEF NormalizePrice, shift
<1> QED
  BY <1>2, <1>3, <1>4

LEMMA EventIsEvent ==
  ASSUME NEW p \in Proof
  PROVE  EventOf(p) \in Event /\ EventOf(p)[2] = p.receiver
  BY DEF Event, EventOf

LEMMA ResultType ==
  ASSUME NEW a \in ActionResult
  PROVE  a.action \in Action /\ a.decision \in Decision
  BY ManagerAssumption DEF Action

-----------------------------------------------------------------------------
(* The stack of calls *)

\* A sequence of at most one element is empty, or its first element is its
\* last and removing it leaves nothing.
LEMMA OneCall ==
  ASSUME NEW S, NEW s \in Seq(S), Len(s) <= 1, s # << >>
  PROVE  /\ Len(s) = 1 /\ s[1] \in S
         /\ Last(s) = s[1] /\ Front(s) = << >>
<1>1. Len(s) = 1
  <2>1. Len(s) \in Nat \ {0}
    BY EmptySeq
  <2> QED
    BY <2>1
<1>2. SubSeq(s, 1, 0) = << >>
  BY <1>1, SubSeqProperties, EmptySeq
<1> QED
  BY <1>1, <1>2, ElementOfSeq DEF Last, Front

\* The call in progress is the only one, and returning from it leaves none.
LEMMA TopIsFirst ==
  ASSUME IInv, stack # << >>
  PROVE  /\ Top = stack[1] /\ stack[1] \in Frame /\ Len(stack) = 1
         /\ Front(stack) = << >>
  BY OneCall DEF IInv, TypeOK, Top

\* Entering a call when none is in progress.
LEMMA FirstCall ==
  ASSUME NEW S, NEW x \in S, NEW s, s = << >>
  PROVE  /\ Append(s, x) \in Seq(S) /\ Append(s, x) # << >>
         /\ Len(Append(s, x)) = 1 /\ Append(s, x)[1] = x
<1>1. s \in Seq(S) /\ Len(s) = 0
  BY EmptySeq
<1>2. Append(s, x) \in Seq(S) /\ Len(Append(s, x)) = 1 /\ Append(s, x)[1] = x
  BY <1>1, AppendProperties
<1> QED
  BY <1>2, EmptySeq

\* A call that moves on is the same call.
LEMMA AdvanceStack ==
  ASSUME IInv, stack # << >>, NEW stage \in {"pull", "deposit", "finish"}, Advance(stage)
  PROVE  /\ stack' \in Seq(Frame) /\ Len(stack') = 1 /\ stack' # << >>
         /\ stack'[1] = [stack[1] EXCEPT !.stage = stage]
<1> DEFINE f == [stack[1] EXCEPT !.stage = stage]
<1>1. stack \in Seq(Frame) /\ Len(stack) = 1 /\ stack[1] \in Frame
  BY TopIsFirst DEF IInv, TypeOK
<1>2. f \in Frame
  BY <1>1 DEF Frame
<1>3. stack' = [stack EXCEPT ![1] = f]
  BY <1>1 DEF Advance
<1> HIDE DEF f
<1>4. stack' \in Seq(Frame) /\ Len(stack') = 1 /\ stack'[1] = f
  BY <1>1, <1>2, <1>3, ExceptSeq
<1>5. stack' # << >>
  BY <1>4, EmptySeq
<1> QED
  BY <1>4, <1>5 DEF f
-----------------------------------------------------------------------------
(* Growing states *)

\* State t has every barrier, snapshot and guard of state s, and a snapshot it
\* adds is of a payment to the receiver its guard watches.
Extends(s, t) ==
  /\ s.consumedEvents \subseteq t.consumedEvents
  /\ s.consumedResults \subseteq t.consumedResults
  /\ s.usedNonces \subseteq t.usedNonces
  /\ \A e \in Event : s.snaps[e] # None => t.snaps[e] = s.snaps[e]
  /\ \A r \in Rule : s.guards[r] # None => t.guards[r] = s.guards[r]
  /\ \A e \in Event : s.snaps[e] = None /\ t.snaps[e] # None =>
       t.guards[t.snaps[e].rule] # None /\ t.guards[t.snaps[e].rule].receiver = e[2]

LEMMA JustifiedExtends ==
  ASSUME NEW s \in Restorable, NEW t \in Restorable, Extends(s, t),
         NEW x \in Execution, Justified(x, s)
  PROVE  Justified(x, t)
<1>1. x.event \in Event
  BY DEF Execution
<1>2. s.snaps[x.event] # None
  BY DEF Justified, PricedBy
<1>3. t.snaps[x.event] = s.snaps[x.event]
  BY <1>1, <1>2 DEF Extends
<1> QED
  BY <1>3 DEF Justified, Barred, Extends

LEMMA LogType ==
  ASSUME NEW s \in Restorable, NEW i \in DOMAIN s.log
  PROVE  s.log[i] \in Execution
  BY ElementOfSeq, LenProperties DEF Restorable

LEMMA SoundExtends ==
  ASSUME NEW s \in Restorable, NEW t \in Restorable, Extends(s, t), t.log = s.log, Sound(s)
  PROVE  Sound(t)
<1>1. ASSUME NEW e \in Event, t.snaps[e] # None
      PROVE  t.guards[t.snaps[e].rule] # None /\ t.guards[t.snaps[e].rule].receiver = e[2]
  <2>1. CASE s.snaps[e] = None
    BY <1>1, <2>1 DEF Extends
  <2>2. CASE s.snaps[e] # None
    <3>1. t.snaps[e] = s.snaps[e] /\ s.snaps[e].rule \in Rule
      BY <2>2 DEF Extends, Restorable, Snapshot
    <3>2. s.guards[s.snaps[e].rule] # None /\ s.guards[s.snaps[e].rule].receiver = e[2]
      BY <2>2 DEF Sound
    <3> QED
      BY <3>1, <3>2 DEF Extends
  <2> QED
    BY <2>1, <2>2
<1>2. ASSUME NEW i \in DOMAIN t.log
      PROVE  Justified(t.log[i], t)
  <2>1. s.log[i] \in Execution /\ Justified(s.log[i], s)
    BY <1>2, LogType DEF Sound
  <2> QED
    BY <2>1, JustifiedExtends
<1>3. \A i, j \in DOMAIN t.log : i # j => Distinct(t.log[i], t.log[j])
  BY DEF Sound
<1> QED
  BY <1>1, <1>2, <1>3 DEF Sound

\* A call in progress stays fit to return when the state around it grows.
LEMMA CallGoesOn ==
  ASSUME IInv, TypeOK', log' = log, Extends(Saved, Saved'), stack # << >>,
         stack'[1].saved = stack[1].saved, stack'[1].report = stack[1].report,
         stack'[1].rule = stack[1].rule, stack'[1].amount = stack[1].amount,
         \A e \in Event : snaps[e] = None /\ snaps'[e] # None => snaps'[e].preparedAt = now,
         now' = now
  PROVE  CallInProgress(stack[1])'
<1>1. Saved \in Restorable /\ Saved' \in Restorable
  BY DEF IInv, TypeOK
<1>2. PICK f \in Frame : f = stack[1] /\ CallInProgress(f)
  BY TopIsFirst DEF IInv
<1>3. ASSUME NEW e \in Event
      PROVE  IF f.saved.snaps[e] # None THEN snaps'[e] = f.saved.snaps[e]
             ELSE snaps'[e] # None => snaps'[e].preparedAt = now
  <2>1. IF f.saved.snaps[e] # None THEN snaps[e] = f.saved.snaps[e]
        ELSE snaps[e] # None => snaps[e].preparedAt = now
    BY <1>2 DEF CallInProgress, Added
  <2>2. snaps[e] # None => snaps'[e] = snaps[e]
    BY DEF Extends, Saved
  <2> QED
    BY <2>1, <2>2
<1>4. guards'[f.rule] # None
  BY <1>2 DEF CallInProgress, Extends, Saved, Frame
<1>5. Justified(f.report, Saved')
  <2>1. f.report \in Execution /\ Justified(f.report, Saved)
    BY <1>2 DEF CallInProgress, Frame
  <2> QED
    BY <1>1, <2>1, JustifiedExtends
<1> QED
  BY <1>2, <1>3, <1>4, <1>5 DEF CallInProgress, Added

\* Steps outside the calls of executeGuard, and the tokens' movements.
LEMMA InvariantGoesOn ==
  ASSUME IInv, TypeOK', log' = log, Extends(Saved, Saved'),
         \/ stack = << >> /\ stack' = << >>
         \/ /\ stack # << >> /\ Len(stack') = 1
            /\ stack'[1].saved = stack[1].saved /\ stack'[1].report = stack[1].report
            /\ stack'[1].rule = stack[1].rule /\ stack'[1].amount = stack[1].amount
            /\ \A e \in Event : snaps[e] = None /\ snaps'[e] # None => snaps'[e].preparedAt = now
            /\ now' = now
  PROVE  IInv'
<1>1. Saved \in Restorable /\ Saved' \in Restorable
  BY DEF IInv, TypeOK
<1>2. Sound(Saved')
  BY <1>1, SoundExtends DEF IInv, Saved
<1>3. stack' # << >> => CallInProgress(stack[1])'
  BY CallGoesOn
<1>4. Len(stack') <= 1
  <2>1. CASE stack' = << >>
    BY <2>1
  <2>2. CASE Len(stack') = 1
    BY <2>2
  <2> QED
    BY <2>1, <2>2
<1> QED
  BY <1>2, <1>3, <1>4 DEF IInv
-----------------------------------------------------------------------------
(* Type correctness, action by action *)

LEMMA MovedType ==
  ASSUME TypeOK, NEW from \in Holder, NEW to \in Holder, from # to,
         NEW sent \in Nat, NEW got \in Nat, bal[from] >= sent
  PROVE  Moved(from, to, sent, got) \in [Holder -> Nat]
<1>1. bal \in [Holder -> Nat]
  BY DEF TypeOK, Saved, Restorable
<1>2. bal[from] - sent \in Nat /\ bal[to] + got \in Nat
  BY <1>1
<1>3. Moved(from, to, sent, got)
        = [x \in Holder |-> IF x = to THEN bal[to] + got
                            ELSE IF x = from THEN bal[from] - sent ELSE bal[x]]
  BY <1>1 DEF Moved
<1> QED
  BY <1>1, <1>2, <1>3

LEMMA Fields ==
  ASSUME TypeOK
  PROVE  /\ guards \in [Rule -> Guard \cup {None}]
         /\ snaps \in [Event -> Snapshot \cup {None}]
         /\ consumedEvents \subseteq Event /\ consumedResults \subseteq Action
         /\ usedNonces \subseteq Rule \X Nonce
         /\ bal \in [Holder -> Nat] /\ allowance \in [Owner -> Nat] /\ gifted \in [Owner -> Nat]
         /\ positions \in Seq(Position) /\ log \in Seq(Execution)
  BY DEF TypeOK, Saved, Restorable

LEMMA FieldsPrimed ==
  ASSUME guards' \in [Rule -> Guard \cup {None}],
         snaps' \in [Event -> Snapshot \cup {None}],
         consumedEvents' \subseteq Event, consumedResults' \subseteq Action,
         usedNonces' \subseteq Rule \X Nonce,
         bal' \in [Holder -> Nat], allowance' \in [Owner -> Nat], gifted' \in [Owner -> Nat],
         positions' \in Seq(Position), log' \in Seq(Execution)
  PROVE  Saved' \in Restorable
  BY DEF Saved, Restorable

LEMMA RegisterType ==
  ASSUME TypeOK, NEW o \in Owner, NEW r \in Rule, NEW rc \in Receiver, RegisterGuard(o, r, rc)
  PROVE  TypeOK'
<1>1. guards' \in [Rule -> Guard \cup {None}]
  BY Fields DEF RegisterGuard, Guard
<1>2. Saved' \in Restorable
  BY <1>1, Fields, FieldsPrimed DEF RegisterGuard, token
<1> QED
  BY <1>2 DEF TypeOK, RegisterGuard

\* The snapshot that Prepare stores.
LEMMA PreparedType ==
  ASSUME TypeOK, NEW o \in Owner, NEW r \in Rule, NEW p \in Proof, Prepare(o, r, p)
  PROVE  \E x \in Snapshot :
           /\ x.rule = r /\ x.preparedAt = now
           /\ snaps' = [snaps EXCEPT ![EventOf(p)] = x]
<1> DEFINE price == NormalizePrice(feed.price)
           x == [rule |-> r, value |-> EventValue(p.drops, price), price |-> price,
                 priceAt |-> feed.at, preparedAt |-> now]
<1>1. feed.price \in Feed /\ feed.at \in Nat /\ now \in Nat
  BY DEF TypeOK
<1>2. price \in Nat /\ price # 0
  BY <1>1, PriceType DEF Prepare, PriceValid
<1>3. p.drops \in Nat
  BY ManagerAssumption DEF Prepare, PaymentVerified
<1>4. EventValue(p.drops, price) \in Nat
  <2>1. p.drops * price \in Nat /\ DropsPerXrp \in Nat \ {0}
    BY <1>2, <1>3, ManagerAssumption
  <2> QED
    BY <2>1, QuotientBounds DEF EventValue
<1>5. x \in Snapshot
  BY <1>1, <1>2, <1>4 DEF Snapshot
<1>6. snaps' = [snaps EXCEPT ![EventOf(p)] = x]
  BY DEF Prepare
<1>7. x.rule = r /\ x.preparedAt = now
  OBVIOUS
<1> HIDE DEF x
<1> QED
  BY <1>5, <1>6, <1>7

LEMMA PrepareType ==
  ASSUME TypeOK, NEW o \in Owner, NEW r \in Rule, NEW p \in Proof, Prepare(o, r, p)
  PROVE  TypeOK'
<1>1. snaps' \in [Event -> Snapshot \cup {None}]
  BY Fields, PreparedType
<1>2. Saved' \in Restorable
  BY <1>1, Fields, FieldsPrimed DEF Prepare, token
<1> QED
  BY <1>2 DEF TypeOK, Prepare
\* What a call of executeGuard records about itself.
LEMMA ReportType ==
  ASSUME TypeOK, NEW a \in ActionResult, NEW r \in Rule, NEW e \in Event, NEW n \in Nat
  PROVE  Report(a, r, e, n) \in Execution
  BY ResultType DEF Report, Execution, Decision, TypeOK

LEMMA ConsumeType ==
  ASSUME TypeOK, NEW a \in ActionResult, NEW r \in Rule, NEW e \in Event, Consume(a, r, e)
  PROVE  /\ consumedEvents' \subseteq Event /\ consumedResults' \subseteq Action
         /\ usedNonces' \subseteq Rule \X Nonce
  BY Fields, ResultType DEF Consume, Decision

LEMMA ReleasingType ==
  ASSUME TypeOK, NEW a \in ActionResult, NEW r \in Rule, NEW e \in Event,
         ExecuteReleasing(a, r, e)
  PROVE  TypeOK'
<1>1. log' \in Seq(Execution)
  BY Fields, ReportType, AppendProperties DEF ExecuteReleasing
<1>2. Saved' \in Restorable
  BY <1>1, Fields, ConsumeType, FieldsPrimed DEF ExecuteReleasing, Consume, token
<1> QED
  BY <1>2 DEF TypeOK, ExecuteReleasing, Consume

\* The frame that ExecuteBegin pushes: its amount is what the decided USD amount
\* buys at the snapshot's price.
LEMMA BeginFrame ==
  ASSUME TypeOK, NEW a \in ActionResult, NEW r \in Rule, NEW e \in Event,
         ExecuteBegin(a, r, e)
  PROVE  \E f \in Frame :
           /\ stack' = << f >>
           /\ f.rule = r /\ f.saved = Saved
           /\ f.report = Report(a, r, e, f.amount)
           /\ f.amount = FxrpAmount(a.decision.protected, snaps[e].price)
<1> DEFINE amount == FxrpAmount(a.decision.protected, snaps[e].price)
           f == [stage |-> "pull", rule |-> r, amount |-> amount, before |-> bal[Manager],
                 report |-> Report(a, r, e, amount), saved |-> Saved]
<1>1. snaps[e] \in Snapshot
  BY Fields DEF ExecuteBegin, Admissible
<1>2. a.decision.protected * Unit \in Nat /\ snaps[e].price \in Nat \ {0}
  <2>1. a.decision.protected \in Nat /\ Unit \in Nat
    BY ResultType, ManagerAssumption DEF Decision
  <2> QED
    BY <1>1, <2>1 DEF Snapshot
<1>3. amount \in Nat
  BY <1>2, QuotientBounds DEF FxrpAmount
<1>4. amount # 0
  BY DEF ExecuteBegin, AmountAccepted
<1>5. Report(a, r, e, amount) \in Execution
  BY <1>3, ReportType
<1>6. bal[Manager] \in Nat /\ Saved \in Restorable
  BY Fields DEF Holder, TypeOK
<1>7. stack' = Append(stack, f) /\ stack = << >>
  BY DEF ExecuteBegin, Admissible, NotEntered
<1> HIDE DEF amount
<1>8. f \in Frame
  BY <1>3, <1>4, <1>5, <1>6 DEF Frame
<1>9. /\ f.rule = r /\ f.saved = Saved /\ f.report = Report(a, r, e, f.amount)
      /\ f.amount = amount
  OBVIOUS
<1> HIDE DEF f
<1>10. stack' = << f >>
  BY <1>7
<1> QED
  BY <1>8, <1>9, <1>10 DEF amount

LEMMA BeginType ==
  ASSUME TypeOK, NEW a \in ActionResult, NEW r \in Rule, NEW e \in Event,
         ExecuteBegin(a, r, e)
  PROVE  TypeOK'
<1>1. Saved' \in Restorable
  BY Fields, ConsumeType, FieldsPrimed DEF ExecuteBegin, Consume, token
<1>2. stack' \in Seq(Frame)
  <2>1. PICK f \in Frame : stack' = << f >>
    BY BeginFrame
  <2>2. << f >> = Append(<< >>, f)
    OBVIOUS
  <2> QED
    BY <2>1, <2>2, FirstCall
<1> QED
  BY <1>1, <1>2 DEF TypeOK, ExecuteBegin, Consume

\* A call's payer is the owner of a registered guard.
LEMMA PayerType ==
  ASSUME IInv, stack # << >>
  PROVE  /\ Top.rule \in Rule /\ Payer(Top) \in Owner
         /\ Top.amount \in Nat \ {0}
<1>1. Top \in Frame /\ CallInProgress(Top)
  BY TopIsFirst DEF IInv
<1>2. guards[Top.rule] \in Guard /\ Top.rule \in Rule
  BY <1>1, Fields DEF IInv, CallInProgress, Frame
<1> QED
  BY <1>1, <1>2 DEF Payer, Guard, Frame

LEMMA PullType ==
  ASSUME IInv, Pull
  PROVE  TypeOK'
<1>1. TypeOK /\ stack # << >>
  BY DEF IInv, Pull
<1>2. /\ Payer(Top) \in Owner /\ Payer(Top) \in Holder /\ Manager \in Holder
      /\ Payer(Top) # Manager /\ Top.amount \in Nat
  BY <1>1, PayerType, ManagerAssumption DEF Holder
<1>3. bal' \in [Holder -> Nat]
  <2>1. PICK got \in Delivered(Top.amount) : bal' = Moved(Payer(Top), Manager, Top.amount, got)
    BY DEF Pull
  <2>2. got \in Nat
    BY <1>2 DEF Delivered
  <2>3. bal[Payer(Top)] >= Top.amount
    BY DEF Pull
  <2> QED
    BY <1>1, <1>2, <2>1, <2>2, <2>3, MovedType
<1>4. allowance' \in [Owner -> Nat]
  <2>1. allowance[Payer(Top)] - Top.amount \in Nat
    BY <1>1, <1>2, Fields DEF Pull
  <2>2. allowance' = [allowance EXCEPT ![Payer(Top)] = allowance[Payer(Top)] - Top.amount]
    BY DEF Pull
  <2> QED
    BY <1>1, <2>1, <2>2, Fields
<1>5. Saved' \in Restorable
  BY <1>1, <1>3, <1>4, Fields, FieldsPrimed DEF Pull, contract
<1>6. stack' \in Seq(Frame)
  BY <1>1, AdvanceStack DEF Pull
<1> QED
  BY <1>1, <1>5, <1>6 DEF TypeOK, Pull

LEMMA DepositType ==
  ASSUME IInv, Deposit
  PROVE  TypeOK'
<1>1. TypeOK /\ stack # << >>
  BY DEF IInv, Deposit
<1>2. Payer(Top) \in Owner /\ Top.amount \in Nat \ {0}
  BY <1>1, PayerType
<1>3. bal' \in [Holder -> Nat]
  <2>1. Manager \in Holder /\ Vault \in Holder /\ Manager # Vault
    BY ManagerAssumption DEF Holder
  <2>2. Top.before \in Nat
    BY <1>1, TopIsFirst DEF Frame
  <2>3. bal[Manager] \in Nat
    BY <1>1, <2>1, Fields
  <2>4. bal[Manager] >= Top.amount
    BY <1>2, <2>2, <2>3 DEF Deposit, Received
  <2> QED
    BY <1>1, <1>2, <2>1, <2>4, MovedType DEF Deposit
<1>4. positions' \in Seq(Position)
  <2>1. now + Duration \in Nat /\ now \in Nat
    BY <1>1, ManagerAssumption DEF TypeOK
  <2>2. [beneficiary |-> Payer(Top), total |-> Top.amount, start |-> now,
         end |-> now + Duration] \in Position
    BY <1>2, <2>1 DEF Position
  <2> QED
    BY <1>1, <2>2, Fields, AppendProperties DEF Deposit
<1>5. Saved' \in Restorable
  BY <1>1, <1>3, <1>4, Fields, FieldsPrimed DEF Deposit, contract
<1>6. stack' \in Seq(Frame)
  BY <1>1, AdvanceStack DEF Deposit
<1> QED
  BY <1>1, <1>5, <1>6 DEF TypeOK, Deposit

LEMMA FinishType ==
  ASSUME IInv, Finish
  PROVE  TypeOK'
<1>1. TypeOK /\ stack # << >>
  BY DEF IInv, Finish
<1>2. log' \in Seq(Execution)
  BY <1>1, TopIsFirst, Fields, AppendProperties DEF Finish, Frame
<1>3. Saved' \in Restorable
  BY <1>1, <1>2, Fields, FieldsPrimed DEF Finish, contract, token
<1>4. stack' \in Seq(Frame)
  BY <1>1, TopIsFirst DEF Finish
<1> QED
  BY <1>1, <1>3, <1>4 DEF TypeOK, Finish

\* A revert restores what the call saved, all of it.
LEMMA RevertRestores ==
  ASSUME IInv, Revert
  PROVE  Saved' = stack[1].saved /\ stack' = << >> /\ stack # << >>
<1>1. stack # << >>
  BY DEF Revert
<1>2. stack[1].saved \in Restorable /\ Top = stack[1] /\ stack' = << >>
  BY <1>1, TopIsFirst DEF Frame, Revert
<1> QED
  BY <1>1, <1>2 DEF Revert, Saved, Restorable

LEMMA RevertType ==
  ASSUME IInv, Revert
  PROVE  TypeOK'
<1>1. Saved' \in Restorable
  BY RevertRestores, TopIsFirst DEF Frame
<1>2. stack' \in Seq(Frame)
  BY RevertRestores
<1> QED
  BY <1>1, <1>2 DEF TypeOK, Revert, IInv

LEMMA OwnerStepType ==
  ASSUME TypeOK, NEW o \in Owner, (\E n \in Approval : Approve(o, n)) \/ GiveManager(o)
  PROVE  TypeOK'
<1>1. CASE \E n \in Approval : Approve(o, n)
  <2>1. allowance' \in [Owner -> Nat]
    BY <1>1, Fields, ManagerAssumption DEF Approve
  <2>2. Saved' \in Restorable
    BY <1>1, <2>1, Fields, FieldsPrimed DEF Approve, contract
  <2> QED
    BY <1>1, <2>2 DEF TypeOK, Approve
<1>2. CASE GiveManager(o)
  <2>1. bal' \in [Holder -> Nat]
    <3>1. o \in Holder /\ Manager \in Holder /\ o # Manager
      BY ManagerAssumption DEF Holder
    <3>2. bal[o] >= 1
      BY <1>2, <3>1, Fields DEF GiveManager
    <3> QED
      BY <1>2, <3>1, <3>2, MovedType DEF GiveManager
  <2>2. gifted' \in [Owner -> Nat]
    BY <1>2, Fields DEF GiveManager
  <2>3. Saved' \in Restorable
    BY <1>2, <2>1, <2>2, Fields, FieldsPrimed DEF GiveManager, contract
  <2> QED
    BY <1>2, <2>3 DEF TypeOK, GiveManager
<1> QED
  BY <1>1, <1>2

\* The surroundings touch neither contract nor tokens.
LEMMA WorldType ==
  ASSUME TypeOK,
         \/ \E f \in Feed : UpdateFeed(f)
         \/ \E t \in Tee : ChangeStatus(t)
         \/ Tick
         \/ UNCHANGED vars
  PROVE  TypeOK' /\ Saved' = Saved /\ stack' = stack
<1>1. UNCHANGED <<contract, token, positions, log, stack>>
  BY DEF UpdateFeed, ChangeStatus, Tick, vars
<1>2. Saved' = Saved /\ stack' = stack
  BY <1>1 DEF contract, token, Saved
<1>3. now' \in Nat /\ production' \subseteq Tee /\ feed' \in [price : Feed, at : Nat]
  BY DEF TypeOK, UpdateFeed, ChangeStatus, Tick, vars
<1> QED
  BY <1>2, <1>3 DEF TypeOK

-----------------------------------------------------------------------------
(* The invariant, action by action *)

\* A step that leaves the log and the calls in progress alone.
LEMMA OutsideGoesOn ==
  ASSUME IInv, TypeOK', UNCHANGED <<now, log, stack>>, Extends(Saved, Saved'),
         \A e \in Event : snaps[e] = None /\ snaps'[e] # None => snaps'[e].preparedAt = now
  PROVE  IInv'
<1>1. CASE stack = << >>
  BY <1>1, InvariantGoesOn
<1>2. CASE stack # << >>
  <2>1. Len(stack') = 1
    BY <1>2, TopIsFirst
  <2> QED
    BY <1>2, <2>1, InvariantGoesOn
<1> QED
  BY <1>1, <1>2

\* States with the same guards, snapshots and barriers.
LEMMA SameExtends ==
  ASSUME UNCHANGED contract
  PROVE  Extends(Saved, Saved')
  BY DEF Extends, Saved, contract

LEMMA RegisterInv ==
  ASSUME IInv, NEW o \in Owner, NEW r \in Rule, NEW rc \in Receiver, RegisterGuard(o, r, rc)
  PROVE  IInv'
<1>1. TypeOK' /\ TypeOK
  BY RegisterType DEF IInv
<1>2. \A q \in Rule : guards[q] # None => guards'[q] = guards[q]
  BY <1>1, Fields DEF RegisterGuard, Unregistered
<1>3. UNCHANGED <<now, log, stack, snaps, consumedEvents, consumedResults, usedNonces>>
  BY DEF RegisterGuard
<1>4. Extends(Saved, Saved')
  BY <1>2, <1>3 DEF Extends, Saved
<1> QED
  BY <1>1, <1>3, <1>4, OutsideGoesOn

LEMMA PrepareInv ==
  ASSUME IInv, NEW o \in Owner, NEW r \in Rule, NEW p \in Proof, Prepare(o, r, p)
  PROVE  IInv'
<1>1. TypeOK' /\ TypeOK
  BY PrepareType DEF IInv
<1>2. PICK x \in Snapshot : x.rule = r /\ x.preparedAt = now
                            /\ snaps' = [snaps EXCEPT ![EventOf(p)] = x]
  BY <1>1, PreparedType
<1>3. /\ UNCHANGED <<now, log, stack, guards, consumedEvents, consumedResults, usedNonces>>
      /\ snaps[EventOf(p)] = None
      /\ guards[r] # None /\ guards[r].receiver = p.receiver
  BY DEF Prepare, Preparable
<1>4. EventOf(p) \in Event /\ EventOf(p)[2] = p.receiver
  BY EventIsEvent
<1>5. \A e \in Event : snaps'[e] = IF e = EventOf(p) THEN x ELSE snaps[e]
  BY <1>1, <1>2, Fields
<1>6. Extends(Saved, Saved')
  BY <1>2, <1>3, <1>4, <1>5 DEF Extends, Saved
<1>7. \A e \in Event : snaps[e] = None /\ snaps'[e] # None => snaps'[e].preparedAt = now
  BY <1>2, <1>5
<1> QED
  BY <1>1, <1>3, <1>6, <1>7, OutsideGoesOn

\* A sound state grows by an execution that is justified in the state it
\* reaches and shares no barrier with an earlier one.
LEMMA AppendSound ==
  ASSUME NEW s \in Restorable, NEW t \in Restorable, Extends(s, t), Sound(s),
         NEW x \in Execution, t.log = Append(s.log, x), Justified(x, t),
         \A i \in DOMAIN s.log : Distinct(x, s.log[i])
  PROVE  Sound(t)
<1> DEFINE u == [t EXCEPT !.log = s.log]
<1>1. /\ u \in Restorable /\ u.log = s.log
      /\ u.guards = t.guards /\ u.snaps = t.snaps /\ u.consumedEvents = t.consumedEvents
      /\ u.consumedResults = t.consumedResults /\ u.usedNonces = t.usedNonces
  BY DEF Restorable
<1> HIDE DEF u
<1>2. Extends(s, u) /\ Extends(u, t)
  BY <1>1 DEF Extends
<1>3. Sound(u)
  BY <1>1, <1>2, SoundExtends
<1>4. /\ s.log \in Seq(Execution) /\ Len(s.log) \in Nat
      /\ DOMAIN s.log = 1..Len(s.log) /\ DOMAIN t.log = 1..(Len(s.log) + 1)
      /\ \A i \in DOMAIN s.log : t.log[i] = s.log[i]
      /\ t.log[Len(s.log) + 1] = x
  BY AppendProperties, LenProperties DEF Restorable
<1>5. \A i \in DOMAIN t.log : i \in DOMAIN s.log \/ i = Len(s.log) + 1
  BY <1>4
<1>6. ASSUME NEW i \in DOMAIN t.log
      PROVE  Justified(t.log[i], t)
  <2>1. CASE i \in DOMAIN s.log
    <3>1. s.log[i] \in Execution /\ Justified(s.log[i], s)
      BY <2>1, LogType DEF Sound
    <3> QED
      BY <2>1, <3>1, <1>4, JustifiedExtends
  <2> QED
    BY <1>4, <1>5, <2>1
<1>7. ASSUME NEW i \in DOMAIN t.log, NEW j \in DOMAIN t.log, i # j
      PROVE  Distinct(t.log[i], t.log[j])
  <2>1. CASE i \in DOMAIN s.log /\ j \in DOMAIN s.log
    BY <1>4, <1>7, <2>1 DEF Sound
  <2>2. CASE i = Len(s.log) + 1 /\ j \in DOMAIN s.log
    BY <1>4, <2>2
  <2>3. CASE j = Len(s.log) + 1 /\ i \in DOMAIN s.log
    <3>1. Distinct(x, s.log[i])
      BY <2>3
    <3>2. Distinct(s.log[i], x)
      BY <3>1 DEF Distinct
    <3> QED
      BY <1>4, <2>3, <3>2
  <2> QED
    BY <1>5, <1>7, <2>1, <2>2, <2>3
<1>8. \A e \in Event : t.snaps[e] # None =>
       t.guards[t.snaps[e].rule] # None /\ t.guards[t.snaps[e].rule].receiver = e[2]
  BY <1>1, <1>3 DEF Sound
<1> QED
  BY <1>6, <1>7, <1>8 DEF Sound

\* What the replay barriers let through shares nothing with an execution that
\* is behind them.
LEMMA FreshIsDistinct ==
  ASSUME NEW a \in ActionResult, NEW r \in Rule, NEW e \in Event, NEW n, Fresh(a, r, e),
         Sound(Saved), NEW i \in DOMAIN log
  PROVE  Distinct(Report(a, r, e, n), log[i])
<1>1. Barred(log[i], Saved)
  BY DEF Sound, Saved, Justified
<1> QED
  BY <1>1 DEF Barred, Saved, Fresh, Distinct, Report

\* The checks of executeGuard justify its report once the barriers are set.
LEMMA ReportJustified ==
  ASSUME TypeOK, NEW a \in ActionResult, NEW r \in Rule, NEW e \in Event,
         Admissible(a, r, e), Consume(a, r, e),
         NEW n \in Nat,
         a.decision.triggered => n = FxrpAmount(a.decision.protected, snaps[e].price)
  PROVE  Justified(Report(a, r, e, n), Saved')
<1> DEFINE x == Report(a, r, e, n)
<1>1. /\ x.rule = r /\ x.event = e /\ x.action = a.action /\ x.nonce = a.decision.nonce
      /\ x.at = now /\ x.evaluatedAt = a.decision.evaluatedAt /\ x.expiry = a.decision.expiry
      /\ x.triggered = a.decision.triggered /\ x.usd = a.decision.protected /\ x.amount = n
  BY DEF Report
<1> HIDE DEF x
<1>2. Barred(x, Saved')
  BY <1>1 DEF Barred, Saved, Consume
<1>3. /\ snaps' = snaps /\ snaps[e] \in Snapshot /\ snaps[e] # None /\ snaps[e].rule = r
      /\ now \in Nat
  BY Fields DEF Admissible, Consume, TypeOK
<1>4. PricedBy(x, snaps[e])
  <2>1. ASSUME x.triggered
        PROVE  /\ x.amount * snaps[e].price <= x.usd * Unit
               /\ x.usd * Unit < (x.amount + 1) * snaps[e].price
    <3>1. x.usd * Unit \in Nat /\ snaps[e].price \in Nat \ {0}
      <4>1. x.usd \in Nat /\ Unit \in Nat
        BY <1>1, ResultType, ManagerAssumption DEF Decision
      <4> QED
        BY <1>3, <4>1 DEF Snapshot
    <3>2. x.amount = (x.usd * Unit) \div snaps[e].price
      BY <1>1, <2>1 DEF FxrpAmount
    <3> QED
      BY <3>1, <3>2, QuotientBounds
  <2> QED
    BY <1>1, <1>3, <2>1 DEF PricedBy
<1>5. InOrder(x, snaps[e])
  <2>1. x.evaluatedAt \in Nat /\ x.expiry \in Nat /\ MaxResultValidity \in Nat
    BY <1>1, ResultType, ManagerAssumption DEF Decision
  <2>2. /\ snaps[e].preparedAt <= x.evaluatedAt /\ x.evaluatedAt <= x.at /\ x.at <= x.expiry
        /\ x.evaluatedAt < x.expiry /\ x.expiry - x.evaluatedAt <= MaxResultValidity
    BY <1>1 DEF Admissible, Binds, WindowOpen
  <2>3. x.expiry - x.evaluatedAt \in 1..MaxResultValidity
    BY <2>1, <2>2
  <2> QED
    BY <2>2, <2>3 DEF InOrder
<1>6. Saved'.snaps[x.event] = snaps[e]
  BY <1>1, <1>3 DEF Saved
<1>7. Justified(x, Saved')
  BY <1>2, <1>4, <1>5, <1>6 DEF Justified
<1> QED
  BY <1>7 DEF x

\* Setting barriers only adds to the state.
LEMMA ConsumeExtends ==
  ASSUME NEW a \in ActionResult, NEW r \in Rule, NEW e \in Event, Consume(a, r, e)
  PROVE  Extends(Saved, Saved')
  BY DEF Consume, Extends, Saved

LEMMA ReleasingInv ==
  ASSUME IInv, NEW a \in ActionResult, NEW r \in Rule, NEW e \in Event,
         ExecuteReleasing(a, r, e)
  PROVE  IInv'
<1> DEFINE x == Report(a, r, e, 0)
<1>1. /\ TypeOK /\ TypeOK' /\ Sound(Saved)
      /\ Saved \in Restorable /\ Saved' \in Restorable
  BY ReleasingType DEF IInv, TypeOK
<1>2. /\ Admissible(a, r, e) /\ Consume(a, r, e) /\ Fresh(a, r, e)
      /\ ~a.decision.triggered /\ log' = Append(log, x)
      /\ stack = << >> /\ stack' = << >>
  BY DEF ExecuteReleasing, Admissible, NotEntered
<1>3. x \in Execution /\ Justified(x, Saved')
  BY <1>1, <1>2, ReportType, ReportJustified
<1>4. \A i \in DOMAIN log : Distinct(x, log[i])
  BY <1>1, <1>2, FreshIsDistinct
<1> HIDE DEF x
<1>5. Extends(Saved, Saved') /\ Saved.log = log /\ Saved'.log = Append(log, x)
  BY <1>2, ConsumeExtends DEF Saved
<1>6. Sound(Saved')
  BY <1>1, <1>3, <1>4, <1>5, AppendSound
<1> QED
  BY <1>1, <1>2, <1>6, EmptySeq DEF IInv

LEMMA BeginInv ==
  ASSUME IInv, NEW a \in ActionResult, NEW r \in Rule, NEW e \in Event,
         ExecuteBegin(a, r, e)
  PROVE  IInv'
<1>1. /\ TypeOK /\ TypeOK' /\ Sound(Saved)
      /\ Saved \in Restorable /\ Saved' \in Restorable
  BY BeginType DEF IInv, TypeOK
<1>2. /\ Admissible(a, r, e) /\ Consume(a, r, e) /\ Fresh(a, r, e)
      /\ a.decision.triggered
      /\ UNCHANGED <<log, snaps, guards, now>>
      /\ guards[r] # None /\ snaps[e] # None
  BY DEF ExecuteBegin, Admissible, Consume
<1>3. PICK f \in Frame :
        /\ stack' = << f >>
        /\ f.rule = r /\ f.saved = Saved
        /\ f.report = Report(a, r, e, f.amount)
        /\ f.amount = FxrpAmount(a.decision.protected, snaps[e].price)
  BY <1>1, BeginFrame
<1>4. stack' # << >> /\ Len(stack') = 1 /\ stack'[1] = f
  BY <1>3
<1>5. Sound(Saved')
  BY <1>1, <1>2, ConsumeExtends, SoundExtends DEF Saved
<1>6. Justified(f.report, Saved')
  <2>1. f.amount \in Nat
    BY DEF Frame
  <2> QED
    BY <1>1, <1>2, <1>3, <2>1, ReportJustified
<1>7. \A i \in DOMAIN log : Distinct(f.report, log[i])
  BY <1>1, <1>2, <1>3, FreshIsDistinct
<1>8. f.report.event = e /\ f.report.triggered /\ f.report.amount = f.amount
  BY <1>2, <1>3 DEF Report
<1>9. f.saved.log = log /\ f.saved.snaps = snaps
  BY <1>3 DEF Saved
<1>10. \A g \in Event : IF f.saved.snaps[g] # None THEN snaps'[g] = f.saved.snaps[g]
                        ELSE snaps'[g] # None => snaps'[g].preparedAt = now'
  BY <1>2, <1>9
<1>11. CallInProgress(f)'
  BY <1>1, <1>2, <1>3, <1>6, <1>7, <1>8, <1>9, <1>10 DEF CallInProgress, Added
<1>12. CallInProgress(stack[1])'
  BY <1>4, <1>11
<1> QED
  BY <1>1, <1>4, <1>5, <1>12 DEF IInv

LEMMA PullInv ==
  ASSUME IInv, Pull \/ Deposit
  PROVE  IInv'
<1>1. TypeOK'
  BY PullType, DepositType
<1>2. UNCHANGED <<now, log, contract>>
  BY DEF Pull, Deposit, contract
<1>3. stack # << >>
  BY DEF Pull, Deposit
<1>4. PICK stage \in {"pull", "deposit", "finish"} : Advance(stage)
  BY DEF Pull, Deposit
<1>5. stack' # << >> /\ Len(stack') = 1 /\ stack'[1] = [stack[1] EXCEPT !.stage = stage]
  BY <1>3, <1>4, AdvanceStack
<1>6. /\ stack'[1].saved = stack[1].saved /\ stack'[1].report = stack[1].report
      /\ stack'[1].rule = stack[1].rule /\ stack'[1].amount = stack[1].amount
  BY <1>3, <1>5, TopIsFirst DEF Frame
<1>7. Extends(Saved, Saved') /\ snaps' = snaps
  BY <1>2, SameExtends DEF contract
<1> QED
  BY <1>1, <1>2, <1>3, <1>5, <1>6, <1>7, InvariantGoesOn

LEMMA FinishInv ==
  ASSUME IInv, Finish
  PROVE  IInv'
<1>1. /\ TypeOK /\ TypeOK' /\ Sound(Saved) /\ stack # << >>
      /\ Saved \in Restorable /\ Saved' \in Restorable
  BY FinishType DEF IInv, TypeOK, Finish
<1>2. PICK f \in Frame : f = stack[1] /\ CallInProgress(f)
  BY <1>1, TopIsFirst DEF IInv
<1>3. log' = Append(log, f.report) /\ stack' = << >> /\ UNCHANGED contract
  BY <1>1, <1>2, TopIsFirst DEF Finish
<1>4. /\ f.report \in Execution /\ Justified(f.report, Saved)
      /\ \A i \in DOMAIN log : Distinct(f.report, log[i])
  BY <1>2 DEF CallInProgress, Frame
<1>5. Extends(Saved, Saved') /\ Saved.log = log /\ Saved'.log = Append(log, f.report)
  BY <1>3, SameExtends DEF Saved
<1>6. Justified(f.report, Saved')
  BY <1>1, <1>4, <1>5, JustifiedExtends
<1>7. Sound(Saved')
  BY <1>1, <1>4, <1>5, <1>6, AppendSound
<1> QED
  BY <1>1, <1>3, <1>7, EmptySeq DEF IInv

LEMMA RevertInv ==
  ASSUME IInv, Revert
  PROVE  IInv'
<1>1. TypeOK' /\ Saved' = stack[1].saved /\ stack' = << >> /\ stack # << >>
  BY RevertType, RevertRestores
<1>2. Sound(stack[1].saved)
  BY <1>1 DEF IInv, CallInProgress
<1>3. Sound(Saved')
  BY <1>1, <1>2
<1> QED
  BY <1>1, <1>3, EmptySeq DEF IInv

LEMMA OwnerStepInv ==
  ASSUME IInv, NEW o \in Owner, (\E n \in Approval : Approve(o, n)) \/ GiveManager(o)
  PROVE  IInv'
<1>1. TypeOK'
  BY OwnerStepType DEF IInv
<1>2. UNCHANGED <<now, log, stack, contract>>
  BY DEF Approve, GiveManager
<1> QED
  BY <1>1, <1>2, SameExtends, OutsideGoesOn DEF contract

LEMMA WorldInv ==
  ASSUME IInv,
         \/ \E f \in Feed : UpdateFeed(f)
         \/ \E t \in Tee : ChangeStatus(t)
         \/ Tick
         \/ UNCHANGED vars
  PROVE  IInv'
<1>1. TypeOK' /\ Saved' = Saved /\ stack' = stack /\ UNCHANGED <<log, contract>>
  BY WorldType DEF IInv, UpdateFeed, ChangeStatus, Tick, vars
<1>2. CASE stack = << >>
  BY <1>1, <1>2, SameExtends, InvariantGoesOn
<1>3. CASE stack # << >>
  <2>1. UNCHANGED <<now, log, stack>>
    BY <1>3 DEF UpdateFeed, ChangeStatus, Tick, vars
  <2> QED
    BY <1>1, <2>1, SameExtends, OutsideGoesOn DEF contract
<1> QED
  BY <1>2, <1>3

-----------------------------------------------------------------------------
(* The invariant and the properties it gives *)

LEMMA InitInvariant ==
  ASSUME Init
  PROVE  IInv
<1>1. /\ guards \in [Rule -> Guard \cup {None}] /\ snaps \in [Event -> Snapshot \cup {None}]
      /\ consumedEvents \subseteq Event /\ consumedResults \subseteq Action
      /\ usedNonces \subseteq Rule \X Nonce
      /\ allowance \in [Owner -> Nat] /\ gifted \in [Owner -> Nat]
  BY DEF Init
<1>2. bal \in [Holder -> Nat]
  BY ManagerAssumption DEF Init
<1>3. positions \in Seq(Position) /\ log \in Seq(Execution) /\ stack \in Seq(Frame)
  BY EmptySeq DEF Init
<1>4. Saved \in Restorable
  BY <1>1, <1>2, <1>3 DEF Saved, Restorable
<1>5. TypeOK
  BY <1>3, <1>4 DEF Init, TypeOK
<1>6. log = << >> /\ DOMAIN log = {} /\ stack = << >> /\ Len(stack) = 0
  BY EmptySeq DEF Init
<1>7. \A e \in Event : snaps[e] = None
  BY DEF Init
<1>8. Sound(Saved)
  BY <1>6, <1>7 DEF Sound, Saved
<1> QED
  BY <1>5, <1>6, <1>8 DEF IInv

LEMMA StepInvariant ==
  ASSUME IInv, [Next]_vars
  PROVE  IInv'
<1>1. ASSUME NEW o \in Owner, NEW r \in Rule,
             \/ \E rc \in Receiver : RegisterGuard(o, r, rc)
             \/ \E p \in Proof : Prepare(o, r, p)
      PROVE  IInv'
  BY <1>1, RegisterInv, PrepareInv
<1>2. ASSUME NEW a \in ActionResult, NEW r \in Rule, NEW e \in Event,
             ExecuteReleasing(a, r, e) \/ ExecuteBegin(a, r, e)
      PROVE  IInv'
  BY <1>2, ReleasingInv, BeginInv
<1>3. CASE Pull \/ Deposit
  BY <1>3, PullInv
<1>4. CASE Finish
  BY <1>4, FinishInv
<1>5. CASE Revert
  BY <1>5, RevertInv
<1>6. ASSUME NEW o \in Owner, (\E n \in Approval : Approve(o, n)) \/ GiveManager(o)
      PROVE  IInv'
  BY <1>6, OwnerStepInv
<1>7. CASE \/ \E f \in Feed : UpdateFeed(f)
           \/ \E t \in Tee : ChangeStatus(t)
           \/ Tick
           \/ UNCHANGED vars
  BY <1>7, WorldInv
<1> QED
  BY <1>1, <1>2, <1>3, <1>4, <1>5, <1>6, <1>7 DEF Next

\* Every execution is behind the replay barriers and justified by its snapshot,
\* in the state and in the one a revert of executeGuard would restore.
THEOREM InductiveInvariant == Spec => []IInv
<1>1. Init => IInv
  BY InitInvariant
<1>2. IInv /\ [Next]_vars => IInv'
  BY StepInvariant
<1> QED
  BY <1>1, <1>2, PTL DEF Spec

\* Every variable keeps its type, and so do the calls in progress.
THEOREM TypeCorrect == Spec => []TypeOK
<1>1. IInv => TypeOK
  BY DEF IInv
<1> QED
  BY <1>1, InductiveInvariant, PTL

\* No payment, action result or (rule, nonce) pair is behind two executions.
THEOREM ExecutionsAreUnique == Spec => []ExactlyOnce
<1>1. IInv => ExactlyOnce
  BY DEF IInv, Sound, Saved, ExactlyOnce
<1> QED
  BY <1>1, InductiveInvariant, PTL

\* Protections are worth the decided amount at the snapshot's price, and only
\* payments to a guard's receiver are ever valued.
THEOREM PricesAreFrozen == Spec => []SnapshotPriced
<1>1. IInv => SnapshotPriced
  BY DEF IInv, Sound, Saved, Justified, SnapshotPriced
<1> QED
  BY <1>1, InductiveInvariant, PTL

\* Valuation, decision and execution come in that order and within the window.
THEOREM ExecutionsAreTimely == Spec => []Timely
<1>1. IInv => Timely
  BY DEF IInv, Sound, Saved, Justified, Timely
<1> QED
  BY <1>1, InductiveInvariant, PTL

-----------------------------------------------------------------------------
(* Executions and the positions they opened *)

LEMMA RankType ==
  ASSUME NEW l, NEW n \in Nat
  PROVE  /\ IsFiniteSet({j \in 1..n : l[j].triggered}) /\ Rank(l, n) \in Nat
         /\ \A i \in 0..n : Rank(l, i) <= Rank(l, n)
         /\ \A i \in 1..n : l[i].triggered => Rank(l, i) # 0
<1> DEFINE T(i) == {j \in 1..i : l[j].triggered}
<1>1. ASSUME NEW i \in Nat
      PROVE  IsFiniteSet(T(i)) /\ Cardinality(T(i)) \in Nat
  <2>1. IsFiniteSet(1..i) /\ T(i) \in SUBSET (1..i)
    BY FS_Interval
  <2> HIDE DEF T
  <2> QED
    BY <2>1, FS_Subset, FS_CardinalityType
<1>2. ASSUME NEW i \in 0..n
      PROVE  Cardinality(T(i)) <= Cardinality(T(n))
  <2>1. T(i) \subseteq T(n)
    OBVIOUS
  <2> HIDE DEF T
  <2> QED
    BY <1>1, <2>1, FS_Subset
<1>3. ASSUME NEW i \in 1..n, l[i].triggered
      PROVE  Cardinality(T(i)) # 0
  <2>1. i \in T(i) /\ i \in Nat
    BY <1>3
  <2> HIDE DEF T
  <2> QED
    BY <1>1, <2>1, FS_EmptySet
<1> QED
  BY <1>1, <1>2, <1>3 DEF Rank

LEMMA RankSame ==
  ASSUME NEW l, NEW m, NEW n \in Nat, \A j \in 1..n : m[j] = l[j]
  PROVE  Rank(m, n) = Rank(l, n)
<1>1. {j \in 1..n : m[j].triggered} = {j \in 1..n : l[j].triggered}
  OBVIOUS
<1> QED
  BY <1>1 DEF Rank

\* One execution more has the next rank if it triggered.
LEMMA RankAppend ==
  ASSUME NEW l \in Seq(Execution), NEW x \in Execution
  PROVE  LET m == Append(l, x)
             n == Len(l)
         IN /\ m \in Seq(Execution) /\ Len(m) = n + 1 /\ m[n + 1] = x /\ n \in Nat
            /\ DOMAIN m = 1..(n + 1) /\ DOMAIN l = 1..n
            /\ \A i \in 1..n : m[i] = l[i]
            /\ \A i \in 0..n : Rank(m, i) = Rank(l, i)
            /\ Rank(m, n + 1) = IF x.triggered THEN Rank(l, n) + 1 ELSE Rank(l, n)
<1> DEFINE m == Append(l, x)
           n == Len(l)
           T == {j \in 1..n : m[j].triggered}
           U == {j \in 1..(n + 1) : m[j].triggered}
<1>1. /\ m \in Seq(Execution) /\ Len(m) = n + 1 /\ m[n + 1] = x /\ n \in Nat
      /\ \A i \in 1..n : m[i] = l[i]
  BY AppendProperties, LenProperties
<1>2. DOMAIN m = 1..(n + 1) /\ DOMAIN l = 1..n
  BY <1>1, LenProperties
<1> HIDE DEF m, n
<1>3. \A i \in 0..n : Rank(m, i) = Rank(l, i)
  BY <1>1, RankSame
<1>4. Rank(m, n + 1) = IF x.triggered THEN Rank(l, n) + 1 ELSE Rank(l, n)
  <2>1. /\ IsFiniteSet(T) /\ Rank(m, n) = Cardinality(T)
        /\ Rank(m, n + 1) = Cardinality(U)
    BY <1>1, RankType DEF Rank
  <2>2. n + 1 \notin T /\ U = IF x.triggered THEN T \cup {n + 1} ELSE T
    BY <1>1
  <2>3. Rank(m, n) = Rank(l, n)
    BY <1>1, <1>3
  <2> HIDE DEF T, U
  <2> QED
    BY <2>1, <2>2, <2>3, FS_AddElement
<1> QED
  BY <1>1, <1>2, <1>3, <1>4 DEF m, n

LEMMA EventsAppend ==
  ASSUME NEW l \in Seq(Execution), NEW x \in Execution
  PROVE  EventsOf(Append(l, x)) = EventsOf(l) \cup {x.event}
<1> DEFINE m == Append(l, x)
           n == Len(l)
<1>1. /\ m[n + 1] = x /\ n \in Nat /\ DOMAIN m = 1..(n + 1) /\ DOMAIN l = 1..n
      /\ \A i \in 1..n : m[i] = l[i]
  BY RankAppend
<1> HIDE DEF m, n
<1>2. \A i \in DOMAIN m : i \in DOMAIN l \/ i = n + 1
  BY <1>1
<1>3. n + 1 \in DOMAIN m /\ \A i \in DOMAIN l : i \in DOMAIN m
  BY <1>1
<1>4. EventsOf(m) = EventsOf(l) \cup {x.event}
  BY <1>1, <1>2, <1>3 DEF EventsOf
<1> QED
  BY <1>4 DEF m

LEMMA OneEachReleased ==
  ASSUME NEW ps, NEW l \in Seq(Execution), NEW x \in Execution, NEW g,
         OneEach(ps, l, g), ~x.triggered
  PROVE  OneEach(ps, Append(l, x), g)
<1> DEFINE m == Append(l, x)
           n == Len(l)
<1>1. /\ Len(m) = n + 1 /\ m[n + 1] = x /\ n \in Nat
      /\ DOMAIN m = 1..(n + 1) /\ DOMAIN l = 1..n
      /\ \A i \in 1..n : m[i] = l[i]
      /\ \A i \in 0..n : Rank(m, i) = Rank(l, i)
      /\ Rank(m, n + 1) = Rank(l, n)
  BY RankAppend
<1> HIDE DEF m, n
<1>2. Len(ps) = Rank(m, Len(m))
  BY <1>1 DEF OneEach, n
<1>3. ASSUME NEW i \in DOMAIN m, m[i].triggered
      PROVE  Opens(m[i], ps[Rank(m, i)], g)
  <2>1. i \in 1..n /\ i \in DOMAIN l
    BY <1>1, <1>3
  <2> QED
    BY <1>1, <1>3, <2>1 DEF OneEach
<1> QED
  BY <1>2, <1>3 DEF OneEach, m

LEMMA OneEachOpened ==
  ASSUME NEW ps \in Seq(Position), NEW l \in Seq(Execution), NEW x \in Execution, NEW g,
         OneEach(ps, l, g), x.triggered, NEW p \in Position, Opens(x, p, g)
  PROVE  OneEach(Append(ps, p), Append(l, x), g)
<1> DEFINE m == Append(l, x)
           n == Len(l)
           qs == Append(ps, p)
           k == Len(ps)
<1>1. /\ Len(m) = n + 1 /\ m[n + 1] = x /\ n \in Nat
      /\ DOMAIN m = 1..(n + 1) /\ DOMAIN l = 1..n
      /\ \A i \in 1..n : m[i] = l[i]
      /\ \A i \in 0..n : Rank(m, i) = Rank(l, i)
      /\ Rank(m, n + 1) = Rank(l, n) + 1
  BY RankAppend
<1>2. /\ Len(qs) = k + 1 /\ qs[k + 1] = p /\ k \in Nat
      /\ \A i \in 1..k : qs[i] = ps[i]
  BY AppendProperties, LenProperties
<1>3. k = Rank(l, n)
  BY DEF OneEach
<1> HIDE DEF m, n, qs, k
<1>4. Len(qs) = Rank(m, Len(m))
  BY <1>1, <1>2, <1>3
<1>5. ASSUME NEW i \in DOMAIN m, m[i].triggered
      PROVE  Opens(m[i], qs[Rank(m, i)], g)
  <2>1. CASE i = n + 1
    BY <1>1, <1>2, <1>3, <2>1
  <2>2. CASE i # n + 1
    <3>1. i \in 1..n /\ i \in DOMAIN l /\ i \in 0..n
      BY <1>1, <2>2
    <3>2. m[i] = l[i] /\ Rank(m, i) = Rank(l, i) /\ l[i].triggered
      BY <1>1, <1>5, <3>1
    <3>3. Rank(l, i) \in Nat /\ Rank(l, i) # 0 /\ Rank(l, i) <= k
      <4>1. i \in Nat
        BY <3>1
      <4>2. Rank(l, i) \in Nat
        BY <4>1, RankType
      <4>3. Rank(l, i) # 0 /\ Rank(l, i) <= Rank(l, n)
        BY <1>1, <3>1, <3>2, RankType
      <4> QED
        BY <1>3, <4>2, <4>3
    <3>4. Rank(l, i) \in 1..k
      BY <1>2, <3>3
    <3>5. Opens(l[i], ps[Rank(l, i)], g)
      BY <3>1, <3>2 DEF OneEach
    <3> QED
      BY <1>2, <3>2, <3>4, <3>5
  <2> QED
    BY <2>1, <2>2
<1> QED
  BY <1>4, <1>5 DEF OneEach, m, qs

\* A position more adds its units to the sums.
LEMMA PositionAdded ==
  ASSUME NEW ps \in Seq(Position), NEW p \in Position, NEW o
  PROVE  LET qs == Append(ps, p)
         IN /\ Secured(qs) = Secured(ps) + p.total
            /\ Protected(qs, o) = Protected(ps, o) + (IF p.beneficiary = o THEN p.total ELSE 0)
            /\ Secured(ps) \in Nat /\ Protected(ps, o) \in Nat
<1> DEFINE qs == Append(ps, p)
           n == Len(ps) + 1
           S == {i \in DOMAIN ps : ps[i].beneficiary = o}
           v == Totals(ps)
           w == Totals(qs)
<1>1. /\ qs \in Seq(Position) /\ Len(qs) = n /\ qs[n] = p
      /\ \A i \in 1..Len(ps) : qs[i] = ps[i]
  BY AppendProperties
<1>2. Len(ps) \in Nat /\ DOMAIN ps = 1..Len(ps) /\ DOMAIN qs = 1..n
  BY <1>1, LenProperties
<1>3. \A i \in DOMAIN ps : v[i] = ps[i].total /\ v[i] \in Nat
  <2> SUFFICES ASSUME NEW i \in DOMAIN ps PROVE v[i] = ps[i].total /\ v[i] \in Nat
    OBVIOUS
  <2>1. ps[i] \in Position
    BY <1>2, ElementOfSeq
  <2> QED
    BY <2>1 DEF Totals, Position
<1> HIDE DEF qs
<1>4. (\A i \in DOMAIN ps : w[i] = v[i]) /\ w[n] = p.total /\ p.total \in Nat
  <2>1. n \in DOMAIN qs /\ \A i \in DOMAIN ps : i \in DOMAIN qs /\ qs[i] = ps[i]
    BY <1>1, <1>2
  <2>2. \A i \in DOMAIN qs : w[i] = qs[i].total
    BY DEF Totals
  <2>3. p.total \in Nat
    BY DEF Position
  <2> HIDE DEF n, w, v
  <2> QED
    BY <1>1, <1>3, <2>1, <2>2, <2>3
<1>5. IsFiniteSet(DOMAIN ps) /\ IsFiniteSet(S)
  <2>1. IsFiniteSet(DOMAIN ps)
    BY <1>2, FS_Interval
  <2> QED
    BY <2>1, FS_Subset
<1>6. /\ n \notin DOMAIN ps /\ n \notin S /\ S \subseteq DOMAIN ps
      /\ DOMAIN qs = DOMAIN ps \cup {n}
      /\ {i \in DOMAIN qs : qs[i].beneficiary = o} = IF p.beneficiary = o THEN S \cup {n} ELSE S
  BY <1>1, <1>2
<1>7. /\ Secured(ps) = SumFunctionOnSet(v, DOMAIN ps)
      /\ Secured(qs) = SumFunctionOnSet(w, DOMAIN ps \cup {n})
      /\ Protected(ps, o) = SumFunctionOnSet(v, S)
      /\ Protected(qs, o) = SumFunctionOnSet(w, IF p.beneficiary = o THEN S \cup {n} ELSE S)
  BY <1>6 DEF Secured, Protected
<1> HIDE DEF n, S, v, w
<1>8. /\ SumFunctionOnSet(w, DOMAIN ps) = SumFunctionOnSet(v, DOMAIN ps)
      /\ SumFunctionOnSet(w, S) = SumFunctionOnSet(v, S)
  <2>1. SumFunctionOnSet(w, DOMAIN ps) = SumFunctionOnSet(v, DOMAIN ps)
    BY <1>4, <1>5, SumSame
  <2>2. SumFunctionOnSet(w, S) = SumFunctionOnSet(v, S)
    BY <1>4, <1>5, <1>6, SumSame
  <2> QED
    BY <2>1, <2>2
<1>9. /\ SumFunctionOnSet(w, DOMAIN ps \cup {n}) = SumFunctionOnSet(w, DOMAIN ps) + w[n]
      /\ SumFunctionOnSet(w, S \cup {n}) = SumFunctionOnSet(w, S) + w[n]
  <2>1. \A i \in DOMAIN ps \cup {n} : w[i] \in Nat
    BY <1>3, <1>4
  <2>2. SumFunctionOnSet(w, DOMAIN ps \cup {n}) = SumFunctionOnSet(w, DOMAIN ps) + w[n]
    BY <1>5, <1>6, <2>1, SumAdd
  <2>3. \A i \in S \cup {n} : w[i] \in Nat
    BY <1>6, <2>1
  <2>4. SumFunctionOnSet(w, S \cup {n}) = SumFunctionOnSet(w, S) + w[n]
    BY <1>5, <1>6, <2>3, SumAdd
  <2> QED
    BY <2>2, <2>4
<1>10. Secured(ps) \in Nat /\ Protected(ps, o) \in Nat
  <2>1. Secured(ps) \in Nat
    BY <1>3, <1>5, <1>7, SumNat
  <2>2. \A i \in S : v[i] \in Nat
    BY <1>3, <1>6
  <2> QED
    BY <1>5, <1>7, <2>1, <2>2, SumNat
<1> QED
  BY <1>4, <1>7, <1>8, <1>9, <1>10 DEF qs

-----------------------------------------------------------------------------
(* Every action keeps the books *)

\* The guards that a log's executions were for are what matters of the guards.
LEMMA OneEachGuards ==
  ASSUME NEW ps, NEW l, NEW g, NEW h, OneEach(ps, l, g),
         \A i \in DOMAIN l : h[l[i].rule] = g[l[i].rule]
  PROVE  OneEach(ps, l, h)
  BY DEF OneEach, Opens

\* Every execution, and the call in progress, is for a registered guard.
LEMMA Registered ==
  ASSUME IInv
  PROVE  /\ \A i \in DOMAIN log : log[i].rule \in Rule /\ guards[log[i].rule] # None
         /\ stack # << >> =>
              stack[1].rule \in Rule /\ guards[stack[1].rule] # None
<1>1. ASSUME NEW i \in DOMAIN log
      PROVE  log[i].rule \in Rule /\ guards[log[i].rule] # None
  <2>1. log[i] \in Execution
    BY ElementOfSeq, LenProperties, Fields DEF IInv
  <2>2. /\ snaps[log[i].event] # None /\ snaps[log[i].event].rule = log[i].rule
        /\ \A e \in Event : snaps[e] # None => guards[snaps[e].rule] # None
    BY DEF IInv, Sound, Saved, Justified, PricedBy
  <2> QED
    BY <2>1, <2>2 DEF Execution
<1> QED
  BY <1>1, TopIsFirst DEF IInv, CallInProgress, Frame

\* The books are kept in natural numbers.
LEMMA Quantities ==
  ASSUME IInv
  PROVE  /\ \A o \in Owner : /\ bal[o] \in Nat /\ gifted[o] \in Nat
                             /\ Protected(positions, o) \in Nat
         /\ bal[Vault] \in Nat /\ bal[Manager] \in Nat /\ Secured(positions) \in Nat
         /\ positions \in Seq(Position) /\ log \in Seq(Execution)
<1>1. positions \in Seq(Position) /\ log \in Seq(Execution)
  BY Fields DEF IInv
<1>2. \A i \in DOMAIN positions : positions[i] \in Position
  BY <1>1, ElementOfSeq, LenProperties
<1>3. \A i \in DOMAIN positions : Totals(positions)[i] \in Nat
  BY <1>2 DEF Totals, Position
<1>4. IsFiniteSet(DOMAIN positions)
  <2>1. DOMAIN positions = 1..Len(positions) /\ Len(positions) \in Nat
    BY <1>1, LenProperties
  <2> QED
    BY <2>1, FS_Interval
<1>5. Secured(positions) \in Nat
  BY <1>3, <1>4, SumNat DEF Secured
<1>6. ASSUME NEW o \in Owner
      PROVE  Protected(positions, o) \in Nat
  <2>1. IsFiniteSet({i \in DOMAIN positions : positions[i].beneficiary = o})
    BY <1>4, FS_Subset
  <2> QED
    BY <1>3, <2>1, SumNat DEF Protected
<1>7. \A o \in Owner : bal[o] \in Nat /\ gifted[o] \in Nat
  BY Fields DEF IInv, Holder
<1>8. bal[Vault] \in Nat /\ bal[Manager] \in Nat
  BY Fields DEF IInv, Holder
<1> QED
  BY <1>1, <1>5, <1>6, <1>7, <1>8

\* The call in progress: its frame, and what the invariants say of it.
LEMMA InCall ==
  ASSUME IInv, MInv, stack # << >>
  PROVE  \E f \in Frame :
           /\ f = stack[1] /\ Top = f /\ Front(stack) = << >>
           /\ CallInProgress(f) /\ CallBooked(f)
           /\ f.report \in Execution /\ f.amount \in Nat \ {0}
           /\ Payer(f) \in Owner /\ Payer(f) = guards[f.rule].owner
<1>1. /\ Top = stack[1] /\ stack[1] \in Frame /\ Front(stack) = << >>
  BY TopIsFirst
<1>2. CallInProgress(stack[1]) /\ CallBooked(stack[1])
  BY DEF IInv, MInv
<1>3. Payer(stack[1]) \in Owner /\ stack[1].amount \in Nat \ {0}
  BY <1>1, PayerType
<1> QED
  BY <1>1, <1>2, <1>3 DEF Frame, Payer

\* Steps outside executeGuard: guards are only added, and units an owner parts
\* with are recorded as gifts.
LEMMA BooksGoOn ==
  ASSUME IInv, MInv, UNCHANGED <<positions, log, stack, consumedEvents>>,
         stack # << >> => now' = now,
         \A r \in Rule : guards[r] # None => guards'[r] = guards[r],
         bal'[Vault] = bal[Vault],
         \A o \in Owner : bal'[o] \in Nat /\ gifted'[o] \in Nat
                          /\ bal'[o] + gifted'[o] = bal[o] + gifted[o]
  PROVE  MInv'
<1>1. \A i \in DOMAIN log : guards'[log[i].rule] = guards[log[i].rule]
  BY Registered
<1>2. CASE stack = << >>
  <2>1. /\ \A o \in Owner : bal[o] + gifted[o] + Protected(positions, o) = Supply
        /\ OneEach(positions, log, guards)
        /\ bal[Vault] = Secured(positions)
        /\ consumedEvents = EventsOf(log)
    BY <1>2 DEF MInv, Booked, Saved
  <2>2. \A o \in Owner : bal'[o] + gifted'[o] + Protected(positions, o) = Supply
    BY <2>1, Quantities
  <2>3. OneEach(positions, log, guards')
    BY <1>1, <2>1, OneEachGuards
  <2> QED
    BY <1>2, <2>1, <2>2, <2>3 DEF MInv, Booked, Saved
<1>3. CASE stack # << >>
  <2>1. PICK f \in Frame :
          /\ f = stack[1] /\ CallInProgress(f) /\ CallBooked(f)
          /\ f.report \in Execution /\ f.amount \in Nat \ {0}
          /\ Payer(f) = guards[f.rule].owner
    BY <1>3, InCall
  <2> DEFINE l == IF f.stage = "finish" THEN Append(log, f.report) ELSE log
  <2>2. guards'[f.rule] = guards[f.rule]
    BY <1>3, <2>1, Registered
  <2>3. \A i \in DOMAIN l : guards'[l[i].rule] = guards[l[i].rule]
    <3>1. f.report.rule = f.rule
      BY <2>1 DEF CallBooked
    <3>2. CASE f.stage = "finish"
      <4> DEFINE m == Append(log, f.report)
                 n == Len(log)
      <4>1. /\ m[n + 1] = f.report /\ n \in Nat /\ DOMAIN m = 1..(n + 1)
            /\ DOMAIN log = 1..n /\ \A i \in 1..n : m[i] = log[i]
        BY <2>1, Quantities, RankAppend
      <4> HIDE DEF m, n
      <4>2. \A i \in DOMAIN m : guards'[m[i].rule] = guards[m[i].rule]
        BY <1>1, <2>2, <3>1, <4>1
      <4> QED
        BY <3>2, <4>2 DEF m
    <3>3. CASE f.stage # "finish"
      BY <1>1, <3>3
    <3> QED
      BY <3>2, <3>3
  <2>4. OneEach(positions, l, guards')
    <3>1. OneEach(positions, l, guards)
      BY <2>1 DEF CallBooked
    <3> HIDE DEF l
    <3> QED
      BY <2>3, <3>1, OneEachGuards
  <2>5. \A o \in Owner : InTransit(f, o) \in Nat /\ InTransit(f, o)' = InTransit(f, o)
    BY <2>1, <2>2 DEF InTransit, Payer
  <2>6. \A o \in Owner :
          bal'[o] + gifted'[o] + Protected(positions, o) + InTransit(f, o)' = Supply
    <3> SUFFICES ASSUME NEW o \in Owner
                 PROVE  bal'[o] + gifted'[o] + Protected(positions, o) + InTransit(f, o)
                          = Supply
      BY <2>5
    <3>1. bal[o] + gifted[o] + Protected(positions, o) + InTransit(f, o) = Supply
      BY <2>1 DEF CallBooked
    <3> QED
      BY <2>5, <3>1, Quantities
  <2>7. CallBooked(f)'
    BY <1>3, <2>1, <2>4, <2>6 DEF CallBooked
  <2> QED
    BY <1>3, <2>1, <2>7 DEF MInv
<1> QED
  BY <1>2, <1>3

LEMMA OutsideBooks ==
  ASSUME IInv, MInv, IInv',
         \/ \E o \in Owner, r \in Rule, rc \in Receiver : RegisterGuard(o, r, rc)
         \/ \E o \in Owner, r \in Rule, p \in Proof : Prepare(o, r, p)
         \/ \E o \in Owner : (\E n \in Approval : Approve(o, n)) \/ GiveManager(o)
         \/ \E f \in Feed : UpdateFeed(f)
         \/ \E t \in Tee : ChangeStatus(t)
         \/ Tick
         \/ UNCHANGED vars
  PROVE  MInv'
<1>1. UNCHANGED <<positions, log, stack, consumedEvents>> /\ (stack # << >> => now' = now)
  BY DEF RegisterGuard, Prepare, Approve, GiveManager, UpdateFeed, ChangeStatus, Tick, vars,
         contract, token
<1>2. \A r \in Rule : guards[r] # None => guards'[r] = guards[r]
  <2>1. CASE \E o \in Owner, r \in Rule, rc \in Receiver : RegisterGuard(o, r, rc)
    BY <2>1, Fields DEF RegisterGuard, Unregistered, IInv
  <2>2. CASE guards' = guards
    BY <2>2
  <2> QED
    BY <2>1, <2>2 DEF Prepare, Approve, GiveManager, UpdateFeed, ChangeStatus, Tick, vars,
                      contract
<1>3. /\ bal'[Vault] = bal[Vault]
      /\ \A o \in Owner : bal'[o] + gifted'[o] = bal[o] + gifted[o]
  <2>1. CASE \E o \in Owner : GiveManager(o)
    <3>1. PICK o \in Owner : GiveManager(o)
      BY <2>1
    <3>2. /\ bal' = Moved(o, Manager, 1, 1) /\ gifted' = [gifted EXCEPT ![o] = @ + 1]
          /\ bal \in [Holder -> Nat] /\ gifted \in [Owner -> Nat]
      BY <3>1, Fields DEF GiveManager, IInv
    <3>3. /\ Owner \subseteq Holder /\ Manager \in Holder /\ Vault \in Holder
          /\ Manager # Vault /\ Manager \notin Owner /\ Vault \notin Owner
      BY ManagerAssumption DEF Holder
    <3>4. bal'[Vault] = bal[Vault]
      BY <3>2, <3>3 DEF Moved
    <3>5. \A x \in Owner : /\ bal'[x] = IF x = o THEN bal[x] - 1 ELSE bal[x]
                           /\ gifted'[x] = IF x = o THEN gifted[x] + 1 ELSE gifted[x]
      BY <3>2, <3>3 DEF Moved
    <3>6. ASSUME NEW x \in Owner
          PROVE  bal'[x] + gifted'[x] = bal[x] + gifted[x]
      <4>1. bal[x] \in Nat /\ gifted[x] \in Nat
        BY Quantities
      <4>2. CASE x = o
        BY <3>5, <4>1, <4>2
      <4>3. CASE x # o
        BY <3>5, <4>1, <4>3
      <4> QED
        BY <4>2, <4>3
    <3> QED
      BY <3>4, <3>6
  <2>2. CASE UNCHANGED <<bal, gifted>>
    BY <2>2
  <2> QED
    BY <2>1, <2>2 DEF RegisterGuard, Prepare, Approve, UpdateFeed, ChangeStatus, Tick, vars,
                      token
<1>4. \A o \in Owner : bal'[o] \in Nat /\ gifted'[o] \in Nat
  <2>1. TypeOK'
    BY DEF IInv
  <2>2. bal' \in [Holder -> Nat] /\ gifted' \in [Owner -> Nat]
    BY <2>1 DEF TypeOK, Saved, Restorable
  <2> QED
    BY <2>2 DEF Holder
<1> QED
  BY <1>1, <1>2, <1>3, <1>4, BooksGoOn

LEMMA ReleasingBooks ==
  ASSUME IInv, MInv, NEW a \in ActionResult, NEW r \in Rule, NEW e \in Event,
         ExecuteReleasing(a, r, e)
  PROVE  MInv'
<1> DEFINE x == Report(a, r, e, 0)
<1>1. /\ stack = << >> /\ stack' = << >> /\ log' = Append(log, x)
      /\ consumedEvents' = consumedEvents \cup {e}
      /\ UNCHANGED <<positions, guards, bal, gifted>>
  BY DEF ExecuteReleasing, Admissible, NotEntered, Consume, token
<1>2. x \in Execution /\ x.event = e /\ ~x.triggered
  <2>1. x \in Execution
    BY ReportType DEF IInv
  <2> QED
    BY <2>1 DEF Report, ExecuteReleasing
<1> HIDE DEF x
<1>3. Booked(Saved)
  BY <1>1 DEF MInv
<1>4. OneEach(positions, log', guards)
  BY <1>1, <1>2, <1>3, Quantities, OneEachReleased DEF Booked, Saved
<1>5. consumedEvents' = EventsOf(log')
  BY <1>1, <1>2, <1>3, Quantities, EventsAppend DEF Booked, Saved
<1> QED
  BY <1>1, <1>3, <1>4, <1>5 DEF MInv, Booked, Saved

LEMMA BeginBooks ==
  ASSUME IInv, MInv, NEW a \in ActionResult, NEW r \in Rule, NEW e \in Event,
         ExecuteBegin(a, r, e)
  PROVE  MInv'
<1>1. /\ stack = << >> /\ consumedEvents' = consumedEvents \cup {e}
      /\ UNCHANGED <<now, positions, guards, bal, gifted, log>>
  BY DEF ExecuteBegin, Admissible, NotEntered, Consume, token
<1>2. PICK f \in Frame :
        /\ stack' = << f >> /\ f.rule = r /\ f.saved = Saved
        /\ f.report = Report(a, r, e, f.amount)
  BY BeginFrame DEF IInv
<1>3. f.stage = "pull"
  BY <1>1, <1>2 DEF ExecuteBegin
<1>4. f.report.rule = r /\ f.report.at = now /\ f.report.event = e
  BY <1>2 DEF Report
<1>5. Booked(Saved)
  BY <1>1 DEF MInv
<1>6. \A o \in Owner :
        bal[o] + gifted[o] + Protected(positions, o) + InTransit(f, o)' = Supply
  BY <1>3, <1>5, Quantities DEF InTransit, Booked, Saved
<1>7. CallBooked(f)'
  BY <1>1, <1>2, <1>3, <1>4, <1>5, <1>6 DEF CallBooked, Booked, Saved
<1>8. stack' # << >> /\ stack'[1] = f
  BY <1>2
<1> QED
  BY <1>7, <1>8 DEF MInv

\* The call moved on: the frame is the same but for its stage.
LEMMA CallAdvances ==
  ASSUME IInv, stack # << >>, NEW stage \in {"pull", "deposit", "finish"}, Advance(stage)
  PROVE  LET f == stack[1]
             g == stack'[1]
         IN /\ stack' # << >> /\ g.stage = stage /\ g.rule = f.rule /\ g.amount = f.amount
            /\ g.report = f.report /\ g.saved = f.saved
<1>1. stack[1] \in Frame
  BY TopIsFirst
<1>2. stack' # << >> /\ stack'[1] = [stack[1] EXCEPT !.stage = stage]
  BY AdvanceStack
<1>3. /\ stack'[1].stage = stage /\ stack'[1].rule = stack[1].rule
      /\ stack'[1].amount = stack[1].amount /\ stack'[1].report = stack[1].report
      /\ stack'[1].saved = stack[1].saved
  BY <1>1, <1>2 DEF Frame
<1> QED
  BY <1>2, <1>3

LEMMA PullBooks ==
  ASSUME IInv, MInv, Pull
  PROVE  MInv'
<1>1. stack # << >> /\ Top.stage = "pull" /\ Advance("deposit")
      /\ UNCHANGED <<now, guards, consumedEvents, gifted, positions, log>>
  BY DEF Pull, contract
<1>2. PICK f \in Frame :
        /\ f = stack[1] /\ Top = f /\ CallBooked(f) /\ f.amount \in Nat \ {0}
        /\ Payer(f) \in Owner
  BY <1>1, InCall
<1>3. PICK g : /\ g = stack'[1] /\ stack' # << >> /\ g.stage = "deposit" /\ g.rule = f.rule
               /\ g.amount = f.amount /\ g.report = f.report /\ g.saved = f.saved
               /\ Payer(g)' = Payer(f)
  BY <1>1, <1>2, CallAdvances DEF Payer
<1>4. PICK got : bal' = Moved(Payer(f), Manager, f.amount, got)
  BY <1>2 DEF Pull
<1>5. /\ bal'[Vault] = bal[Vault]
      /\ \A o \in Owner : bal'[o] = IF o = Payer(f) THEN bal[o] - f.amount ELSE bal[o]
  <2>1. /\ Owner \subseteq Holder /\ Manager \in Holder /\ Vault \in Holder
        /\ Manager # Vault /\ Manager \notin Owner /\ Vault \notin Owner
    BY ManagerAssumption DEF Holder
  <2>2. bal \in [Holder -> Nat]
    BY Fields DEF IInv
  <2> QED
    BY <1>2, <1>4, <2>1, <2>2 DEF Moved
<1>6. \A o \in Owner : InTransit(g, o)' = IF o = Payer(f) THEN f.amount ELSE 0
  BY <1>3 DEF InTransit
<1>7. \A o \in Owner : bal[o] + gifted[o] + Protected(positions, o) + 0 = Supply
  BY <1>1, <1>2 DEF CallBooked, InTransit
<1>8. ASSUME NEW o \in Owner
      PROVE  bal'[o] + gifted[o] + Protected(positions, o) + InTransit(g, o)' = Supply
  <2>1. bal[o] \in Nat /\ gifted[o] \in Nat /\ Protected(positions, o) \in Nat
    BY Quantities
  <2>2. bal[o] + gifted[o] + Protected(positions, o) + 0 = Supply
    BY <1>7
  <2>3. CASE o = Payer(f)
    <3>1. bal'[o] = bal[o] - f.amount /\ InTransit(g, o)' = f.amount
      BY <1>5, <1>6, <2>3
    <3> QED
      BY <1>2, <2>1, <2>2, <3>1
  <2>4. CASE o # Payer(f)
    BY <1>5, <1>6, <2>2, <2>4
  <2> QED
    BY <2>3, <2>4
<1>9. CallBooked(stack[1])'
  BY <1>1, <1>2, <1>3, <1>5, <1>8 DEF CallBooked
<1> QED
  BY <1>3, <1>9 DEF MInv

LEMMA DepositBooks ==
  ASSUME IInv, MInv, Deposit
  PROVE  MInv'
<1>1. stack # << >> /\ Top.stage = "deposit" /\ Advance("finish")
      /\ UNCHANGED <<now, guards, consumedEvents, gifted, log>>
  BY DEF Deposit, contract
<1>2. PICK f \in Frame :
        /\ f = stack[1] /\ Top = f /\ CallBooked(f) /\ CallInProgress(f)
        /\ f.report \in Execution /\ f.amount \in Nat \ {0}
        /\ Payer(f) \in Owner /\ Payer(f) = guards[f.rule].owner
  BY <1>1, InCall
<1>3. PICK g : /\ g = stack'[1] /\ stack' # << >> /\ g.stage = "finish" /\ g.rule = f.rule
               /\ g.amount = f.amount /\ g.report = f.report /\ g.saved = f.saved
               /\ Payer(g)' = Payer(f)
  BY <1>1, <1>2, CallAdvances DEF Payer
<1> DEFINE p == [beneficiary |-> Payer(f), total |-> f.amount, start |-> now,
                 end |-> now + Duration]
<1>4. bal' = Moved(Manager, Vault, f.amount, f.amount) /\ positions' = Append(positions, p)
  BY <1>2 DEF Deposit
<1>5. /\ bal'[Vault] = bal[Vault] + f.amount
      /\ \A o \in Owner : bal'[o] = bal[o]
  <2>1. /\ Owner \subseteq Holder /\ Manager \in Holder /\ Vault \in Holder
        /\ Manager # Vault /\ Manager \notin Owner /\ Vault \notin Owner
    BY ManagerAssumption DEF Holder
  <2>2. bal \in [Holder -> Nat]
    BY Fields DEF IInv
  <2> QED
    BY <1>4, <2>1, <2>2 DEF Moved
<1>6. p \in Position /\ p.total = f.amount /\ p.beneficiary = Payer(f)
  <2>1. now \in Nat /\ now + Duration \in Nat
    BY ManagerAssumption DEF IInv, TypeOK
  <2> QED
    BY <1>2, <2>1 DEF Position
<1>7. Opens(f.report, p, guards)
  BY <1>2 DEF Opens, CallBooked, CallInProgress
<1> HIDE DEF p
<1>8. OneEach(positions', Append(log, f.report), guards)
  <2>1. OneEach(positions, log, guards) /\ f.report.triggered
    BY <1>1, <1>2 DEF CallBooked, CallInProgress
  <2> QED
    BY <1>2, <1>4, <1>6, <1>7, <2>1, Quantities, OneEachOpened
<1>9. bal'[Vault] = Secured(positions')
  <2>1. Secured(positions') = Secured(positions) + f.amount
    BY <1>4, <1>6, Quantities, PositionAdded
  <2>2. bal[Vault] = Secured(positions)
    BY <1>2 DEF CallBooked
  <2> QED
    BY <1>5, <2>1, <2>2
<1>10. ASSUME NEW o \in Owner
       PROVE  bal'[o] + gifted[o] + Protected(positions', o) + InTransit(g, o)' = Supply
  <2>1. bal[o] \in Nat /\ gifted[o] \in Nat /\ Protected(positions, o) \in Nat
    BY Quantities
  <2>2. Protected(positions', o)
          = Protected(positions, o) + (IF Payer(f) = o THEN f.amount ELSE 0)
    BY <1>4, <1>6, Quantities, PositionAdded
  <2>3. InTransit(g, o)' = 0 /\ InTransit(f, o) = IF Payer(f) = o THEN f.amount ELSE 0
    BY <1>1, <1>2, <1>3 DEF InTransit
  <2>4. bal[o] + gifted[o] + Protected(positions, o) + InTransit(f, o) = Supply
    BY <1>2 DEF CallBooked
  <2>5. bal'[o] = bal[o]
    BY <1>5
  <2> QED
    BY <1>2, <2>1, <2>2, <2>3, <2>4, <2>5
<1>11. CallBooked(stack[1])'
  BY <1>1, <1>2, <1>3, <1>8, <1>9, <1>10 DEF CallBooked
<1> QED
  BY <1>3, <1>11 DEF MInv

LEMMA FinishBooks ==
  ASSUME IInv, MInv, Finish
  PROVE  MInv'
<1>1. stack # << >> /\ Top.stage = "finish" /\ log' = Append(log, Top.report)
      /\ stack' = Front(stack)
      /\ UNCHANGED <<guards, consumedEvents, bal, gifted, positions>>
  BY DEF Finish, contract, token
<1>2. PICK f \in Frame :
        /\ f = stack[1] /\ Top = f /\ Front(stack) = << >> /\ CallBooked(f)
        /\ f.report \in Execution
  BY <1>1, InCall
<1>3. \A o \in Owner : bal[o] + gifted[o] + Protected(positions, o) = Supply
  <2> SUFFICES ASSUME NEW o \in Owner
               PROVE  bal[o] + gifted[o] + Protected(positions, o) = Supply
    OBVIOUS
  <2>1. InTransit(f, o) = 0
    BY <1>1, <1>2 DEF InTransit
  <2>2. bal[o] + gifted[o] + Protected(positions, o) + InTransit(f, o) = Supply
    BY <1>2 DEF CallBooked
  <2> QED
    BY <2>1, <2>2, Quantities
<1>4. OneEach(positions, log', guards) /\ bal[Vault] = Secured(positions)
  BY <1>1, <1>2 DEF CallBooked
<1>5. consumedEvents = EventsOf(log')
  <2>1. consumedEvents = EventsOf(log) \cup {f.report.event}
    BY <1>2 DEF CallBooked
  <2> QED
    BY <1>1, <1>2, <2>1, Quantities, EventsAppend
<1> QED
  BY <1>1, <1>2, <1>3, <1>4, <1>5 DEF MInv, Booked, Saved

LEMMA RevertBooks ==
  ASSUME IInv, MInv, Revert
  PROVE  MInv'
<1>1. Saved' = stack[1].saved /\ stack' = << >> /\ stack # << >>
  BY RevertRestores
<1>2. Booked(stack[1].saved)
  BY <1>1 DEF MInv, CallBooked
<1>3. Booked(Saved')
  BY <1>1, <1>2
<1>4. Booked(Saved)'
  BY <1>3 DEF Booked
<1> QED
  BY <1>1, <1>4 DEF MInv

LEMMA InitBooks ==
  ASSUME Init
  PROVE  MInv
<1>1. positions = << >> /\ log = << >> /\ stack = << >> /\ consumedEvents = {}
  BY DEF Init
<1>2. DOMAIN positions = {} /\ DOMAIN log = {} /\ Len(positions) = 0 /\ Len(log) = 0
  BY <1>1, EmptySeq, LenProperties
<1>3. Secured(positions) = 0 /\ \A o : Protected(positions, o) = 0
  BY <1>2, SumEmpty DEF Secured, Protected
<1>4. \A o \in Owner : bal[o] = Supply /\ gifted[o] = 0
  BY DEF Init, Holder
<1>5. bal[Vault] = 0
  BY ManagerAssumption DEF Init, Holder
<1>6. OneEach(positions, log, guards)
  <2>1. {j \in 1..0 : log[j].triggered} = {}
    OBVIOUS
  <2>2. Rank(log, 0) = 0
    BY <2>1, FS_EmptySet DEF Rank
  <2> QED
    BY <1>2, <2>2 DEF OneEach
<1>7. EventsOf(log) = {}
  BY <1>2 DEF EventsOf
<1>8. \A o \in Owner : bal[o] + gifted[o] + Protected(positions, o) = Supply
  BY <1>3, <1>4, ManagerAssumption
<1> QED
  BY <1>1, <1>3, <1>5, <1>6, <1>7, <1>8 DEF MInv, Booked, Saved

LEMMA StepBooks ==
  ASSUME IInv, MInv, [Next]_vars
  PROVE  MInv'
<1>1. ASSUME NEW o \in Owner, NEW r \in Rule,
             \/ \E rc \in Receiver : RegisterGuard(o, r, rc)
             \/ \E p \in Proof : Prepare(o, r, p)
      PROVE  MInv'
  BY <1>1, StepInvariant, OutsideBooks
<1>2. ASSUME NEW a \in ActionResult, NEW r \in Rule, NEW e \in Event,
             ExecuteReleasing(a, r, e) \/ ExecuteBegin(a, r, e)
      PROVE  MInv'
  BY <1>2, ReleasingBooks, BeginBooks
<1>3. CASE Pull \/ Deposit \/ Finish \/ Revert
  BY <1>3, PullBooks, DepositBooks, FinishBooks, RevertBooks
<1>4. ASSUME NEW o \in Owner, (\E n \in Approval : Approve(o, n)) \/ GiveManager(o)
      PROVE  MInv'
  BY <1>4, StepInvariant, OutsideBooks
<1>5. CASE \/ \E f \in Feed : UpdateFeed(f)
           \/ \E t \in Tee : ChangeStatus(t)
           \/ Tick
           \/ UNCHANGED vars
  BY <1>5, StepInvariant, OutsideBooks
<1> QED
  BY <1>1, <1>2, <1>3, <1>4, <1>5 DEF Next

\* The books are in order in every reachable state, in the middle of a call and
\* in what its revert would restore too.
THEOREM BooksInOrder == Spec => [](IInv /\ MInv)
<1>1. Init => IInv /\ MInv
  BY InitInvariant, InitBooks
<1>2. IInv /\ MInv /\ [Next]_vars => (IInv /\ MInv)'
  BY StepInvariant, StepBooks
<1> QED
  BY <1>1, <1>2, PTL DEF Spec

\* Whatever the token withholds or calls back into, an owner's units are in
\* their account, given away by themselves, or in positions of their own.
THEOREM OwnersFundThemselves == Spec => []FundedByOwner
<1>1. MInv => FundedByOwner
  BY DEF MInv, Booked, Saved, FundedByOwner
<1> QED
  BY <1>1, BooksInOrder, PTL

\* Between transactions positions and triggered executions are in step, the
\* vault holds every unit of them, and exactly the executed events are consumed.
THEOREM ExecutionsAreBacked == Spec => []Backed
<1>1. MInv => Backed
  BY DEF MInv, Booked, Saved, Backed
<1> QED
  BY <1>1, BooksInOrder, PTL

-----------------------------------------------------------------------------
(* The refinement: stages of a payment *)

\* A payment's stage depends on its snapshot and the log.
LEMMA StageSame ==
  ASSUME NEW s, NEW t, NEW e, s.snaps[e] = t.snaps[e], s.log = t.log
  PROVE  StageOf(s, e) = StageOf(t, e)
  BY DEF StageOf, BindingOf, Conclusions, LastOf

\* An event that was not valued was not concluded.
LEMMA Unconcluded ==
  ASSUME NEW s, Sound(s), NEW e, s.snaps[e] = None
  PROVE  Conclusions(s, e) = {}
  BY DEF Conclusions, Sound, Justified, PricedBy

\* An event that was concluded was concluded once.
LEMMA ConcludedOnce ==
  ASSUME NEW s \in Restorable, Sound(s), NEW i \in DOMAIN s.log
  PROVE  LET e == s.log[i].event
         IN Conclusions(s, e) = {i} /\ LastOf(s, e) = s.log[i]
<1> DEFINE e == s.log[i].event
<1>1. Conclusions(s, e) = {i}
  BY DEF Conclusions, Sound, Distinct
<1>2. i \in Nat
  BY LenProperties DEF Restorable
<1>3. (CHOOSE k \in {i} : \A j \in {i} : j <= k) = i
  BY <1>2
<1> QED
  BY <1>1, <1>3 DEF LastOf

\* An execution concludes its event and no other.
LEMMA AppendedStage ==
  ASSUME NEW s \in Restorable, NEW t \in Restorable, Sound(s), Sound(t),
         NEW x \in Execution, t.log = Append(s.log, x),
         NEW e \in Event, t.snaps[e] = s.snaps[e], x.event # e
  PROVE  StageOf(t, e) = StageOf(s, e)
<1>1. /\ Len(s.log) \in Nat
      /\ DOMAIN s.log = 1..Len(s.log) /\ DOMAIN t.log = 1..(Len(s.log) + 1)
      /\ \A i \in DOMAIN s.log : t.log[i] = s.log[i]
      /\ t.log[Len(s.log) + 1] = x
  BY AppendProperties, LenProperties DEF Restorable
<1>2. Conclusions(t, e) = Conclusions(s, e)
  BY <1>1 DEF Conclusions
<1>3. BindingOf(t, e) = BindingOf(s, e)
  BY DEF BindingOf
<1>4. CASE Conclusions(s, e) = {}
  BY <1>2, <1>3, <1>4 DEF StageOf
<1>5. CASE Conclusions(s, e) # {}
  <2>1. PICK i \in DOMAIN s.log : s.log[i].event = e
    BY <1>5 DEF Conclusions
  <2>2. i \in DOMAIN t.log /\ t.log[i] = s.log[i]
    BY <1>1
  <2>3. LastOf(s, e) = s.log[i] /\ LastOf(t, e) = t.log[i]
    BY <2>1, <2>2, ConcludedOnce
  <2>4. LastOf(t, e) = LastOf(s, e)
    BY <2>2, <2>3
  <2> QED
    BY <1>2, <1>3, <2>4 DEF StageOf
<1> QED
  BY <1>4, <1>5

LEMMA ConcludedStage ==
  ASSUME NEW s \in Restorable, NEW t \in Restorable, Sound(s), Sound(t),
         NEW x \in Execution, t.log = Append(s.log, x),
         t.snaps[x.event] = s.snaps[x.event], s.snaps[x.event] # None
  PROVE  /\ StageOf(s, x.event) = BindingOf(s, x.event)
         /\ StageOf(t, x.event) =
              IF x.triggered
              THEN [stage |-> "protected", binding |-> BindingOf(s, x.event), usd |-> x.usd,
                    amount |-> x.amount]
              ELSE [stage |-> "released", binding |-> BindingOf(s, x.event)]
<1> DEFINE n == Len(s.log) + 1
           e == x.event
<1>1. /\ DOMAIN s.log = 1..Len(s.log) /\ Len(s.log) \in Nat
      /\ DOMAIN t.log = 1..n
      /\ \A i \in DOMAIN s.log : t.log[i] = s.log[i]
      /\ t.log[n] = x
  BY AppendProperties, LenProperties DEF Restorable
<1>2. n \in DOMAIN t.log /\ n \notin DOMAIN s.log /\ t.log[n].event = e
  BY <1>1
<1>3. Conclusions(t, e) = {n} /\ LastOf(t, e) = x
  BY <1>1, <1>2, ConcludedOnce
<1> HIDE DEF n
<1>4. Conclusions(s, e) = {}
  <2>1. \A i \in DOMAIN s.log : i \in DOMAIN t.log /\ i # n
    BY <1>1, <1>2 DEF n
  <2>2. \A i \in DOMAIN s.log : s.log[i].event = e => i \in Conclusions(t, e)
    BY <1>1, <2>1 DEF Conclusions
  <2> QED
    BY <1>3, <2>1, <2>2 DEF Conclusions
<1>5. BindingOf(t, e) = BindingOf(s, e)
  BY DEF BindingOf
<1> QED
  BY <1>3, <1>4, <1>5 DEF StageOf

\* A payment that is valued is bound.
LEMMA BoundStage ==
  ASSUME NEW s, NEW t, Sound(s), t.log = s.log, NEW e \in Event,
         s.snaps[e] = None, t.snaps[e] \in Snapshot, t.snaps[e].preparedAt = now
  PROVE  Lifecycle!Bind(StageOf(s, e), StageOf(t, e))
<1>1. StageOf(s, e) = Lifecycle!Unseen
  BY DEF StageOf, Lifecycle!Unseen
<1>2. Conclusions(t, e) = {}
  BY Unconcluded DEF Conclusions
<1>3. t.snaps[e] # None
  BY NoneAssumption
<1>4. StageOf(t, e) = BindingOf(t, e)
  BY <1>2, <1>3 DEF StageOf
<1>5. BindingOf(t, e) \in Lifecycle!BoundNow
  BY DEF BindingOf, Snapshot, Lifecycle!BoundNow
<1> QED
  BY <1>1, <1>4, <1>5 DEF Lifecycle!Bind

-----------------------------------------------------------------------------
(* The refinement: steps *)

\* What one transaction may do to one payment.
Advances(old, new) ==
  \/ new = old
  \/ Lifecycle!Bind(old, new)
  \/ Lifecycle!Release(old, new)
  \/ Lifecycle!Protect(old, new)

\* What is committed is sound, and it is what a revert would restore.
LEMMA CommittedSound ==
  ASSUME IInv
  PROVE  Committed \in Restorable /\ Sound(Committed)
<1>1. CASE stack = << >>
  BY <1>1 DEF IInv, TypeOK, Committed
<1>2. CASE stack # << >>
  BY <1>2, TopIsFirst DEF IInv, CallInProgress, Committed, Frame
<1> QED
  BY <1>1, <1>2

\* Nothing is committed while a call is in progress, nor when it begins.
LEMMA Uncommitted ==
  ASSUME IInv, stack # << >>, stack' # << >>, stack'[1].saved = stack[1].saved
  PROVE  Committed' = Committed
  BY DEF Committed

LEMMA SameStages ==
  ASSUME Committed'.snaps = Committed.snaps, Committed'.log = Committed.log, NEW e \in Event
  PROVE  Advances(StageOf(Committed, e), StageOf(Committed', e))
  BY StageSame DEF Advances

LEMMA PrepareAdvances ==
  ASSUME IInv, NEW o \in Owner, NEW r \in Rule, NEW p \in Proof, Prepare(o, r, p),
         NEW e \in Event
  PROVE  Advances(StageOf(Committed, e), StageOf(Committed', e))
<1>1. CASE stack # << >>
  <2>1. Committed' = Committed
    BY <1>1 DEF Prepare, Committed
  <2> QED
    BY <2>1 DEF Advances
<1>2. CASE stack = << >>
  <2>1. Committed = Saved /\ Committed' = Saved' /\ log' = log
    BY <1>2 DEF Prepare, Committed
  <2>2. PICK x \in Snapshot : x.preparedAt = now /\ snaps' = [snaps EXCEPT ![EventOf(p)] = x]
    BY PreparedType DEF IInv
  <2>3. snaps[EventOf(p)] = None /\ Sound(Saved)
    BY DEF Prepare, Preparable, IInv
  <2>4. snaps'[e] = IF e = EventOf(p) THEN x ELSE snaps[e]
    BY <2>2, Fields DEF IInv
  <2>5. /\ Saved.snaps = snaps /\ Saved'.snaps = snaps'
        /\ Saved.log = log /\ Saved'.log = log'
    BY DEF Saved
  <2>6. CASE e = EventOf(p)
    <3>1. Lifecycle!Bind(StageOf(Saved, e), StageOf(Saved', e))
      BY <2>1, <2>2, <2>3, <2>4, <2>5, <2>6, BoundStage
    <3> QED
      BY <2>1, <3>1 DEF Advances
  <2>7. CASE e # EventOf(p)
    BY <2>1, <2>4, <2>5, <2>7, StageSame DEF Advances
  <2> QED
    BY <2>6, <2>7
<1> QED
  BY <1>1, <1>2

LEMMA ReleasingAdvances ==
  ASSUME IInv, NEW a \in ActionResult, NEW r \in Rule, NEW g \in Event,
         ExecuteReleasing(a, r, g), NEW e \in Event
  PROVE  Advances(StageOf(Committed, e), StageOf(Committed', e))
<1> DEFINE x == Report(a, r, g, 0)
<1>1. Committed = Saved /\ Committed' = Saved'
  BY DEF ExecuteReleasing, Admissible, NotEntered, Committed
<1>2. /\ Saved \in Restorable /\ Sound(Saved)
      /\ Saved' \in Restorable /\ Sound(Saved')
  BY ReleasingInv DEF IInv, TypeOK
<1>3. /\ x \in Execution /\ Saved'.log = Append(Saved.log, x)
      /\ Saved'.snaps = Saved.snaps
      /\ x.event = g /\ ~x.triggered /\ Saved.snaps[g] # None
  BY ReportType DEF IInv, ExecuteReleasing, Admissible, Consume, Saved, Report
<1> HIDE DEF x
<1>4. CASE e # g
  BY <1>1, <1>2, <1>3, <1>4, AppendedStage DEF Advances
<1>5. CASE e = g
  <2>1. /\ StageOf(Saved, e) = BindingOf(Saved, e)
        /\ StageOf(Saved', e) = [stage |-> "released", binding |-> BindingOf(Saved, e)]
    BY <1>2, <1>3, <1>5, ConcludedStage
  <2>2. BindingOf(Saved, e).stage = "bound"
    BY DEF BindingOf
  <2>3. Lifecycle!Release(StageOf(Saved, e), StageOf(Saved', e))
    BY <2>1, <2>2 DEF Lifecycle!Release
  <2> QED
    BY <1>1, <2>3 DEF Advances
<1> QED
  BY <1>4, <1>5

LEMMA FinishAdvances ==
  ASSUME IInv, Finish, NEW e \in Event
  PROVE  Advances(StageOf(Committed, e), StageOf(Committed', e))
<1>1. PICK f \in Frame : f = stack[1] /\ CallInProgress(f) /\ Top = f
  BY TopIsFirst DEF IInv, Finish
<1> DEFINE s == f.saved
           x == f.report
<1>2. stack # << >> /\ stack' = << >> /\ snaps' = snaps /\ log' = Append(log, x)
  BY <1>1, TopIsFirst DEF Finish, contract
<1>3. Committed = s /\ Committed' = Saved'
  BY <1>1, <1>2 DEF Committed
<1>4. /\ s \in Restorable /\ Sound(s) /\ x \in Execution
      /\ Saved' \in Restorable /\ Sound(Saved')
  BY <1>1, FinishInv DEF IInv, TypeOK, CallInProgress, Frame
<1>5. Saved'.log = Append(s.log, x) /\ Saved'.snaps = snaps /\ s.log = log
  BY <1>1, <1>2 DEF CallInProgress, Saved
<1>6. snaps \in [Event -> Snapshot \cup {None}] /\ s.snaps \in [Event -> Snapshot \cup {None}]
  BY <1>4, Fields DEF IInv, Restorable
<1>7. /\ \A g \in Event : IF s.snaps[g] # None THEN snaps[g] = s.snaps[g]
                          ELSE snaps[g] # None => snaps[g].preparedAt = now
      /\ s.snaps[x.event] # None /\ x.triggered /\ x.amount = f.amount
      /\ PricedBy(x, snaps[x.event])
  BY <1>1 DEF CallInProgress, Added, Justified, Saved
<1>8. f.amount \in Nat \ {0}
  BY DEF Frame
<1> HIDE DEF s, x
<1>9. CASE e = x.event
  <2>1. s.snaps[e] # None /\ Saved'.snaps[e] = s.snaps[e]
    BY <1>5, <1>7, <1>9
  <2>2. /\ StageOf(s, e) = BindingOf(s, e)
        /\ StageOf(Saved', e) =
             [stage |-> "protected", binding |-> BindingOf(s, e), usd |-> x.usd,
              amount |-> x.amount]
    BY <1>4, <1>5, <1>7, <1>9, <2>1, ConcludedStage
  <2>3. /\ BindingOf(s, e).stage = "bound" /\ BindingOf(s, e).price = s.snaps[e].price
    BY DEF BindingOf
  <2>4. PricedBy(x, s.snaps[e])
    BY <1>5, <1>7, <1>9, <2>1
  <2>5. Lifecycle!Worth(x.amount, x.usd, s.snaps[e].price) /\ x.amount > 0
    BY <1>7, <1>8, <2>4 DEF PricedBy, Lifecycle!Worth
  <2>6. Lifecycle!Protect(StageOf(s, e), StageOf(Saved', e))
    BY <2>2, <2>3, <2>5 DEF Lifecycle!Protect
  <2> QED
    BY <1>3, <2>6 DEF Advances
<1>10. CASE e # x.event /\ snaps[e] = s.snaps[e]
  BY <1>3, <1>4, <1>5, <1>10, AppendedStage DEF Advances
<1>11. CASE e # x.event /\ snaps[e] # s.snaps[e]
  <2>1. s.snaps[e] = None /\ snaps[e] \in Snapshot /\ snaps[e].preparedAt = now
    BY <1>6, <1>7, <1>11
  <2> DEFINE t == [s EXCEPT !.snaps = snaps]
  <2>2. t \in Restorable /\ t.snaps = snaps /\ t.log = s.log
    BY <1>4, <1>6 DEF Restorable
  <2> HIDE DEF t
  <2>3. Lifecycle!Bind(StageOf(s, e), StageOf(t, e))
    BY <1>4, <2>1, <2>2, BoundStage
  <2>4. StageOf(Saved', e) = BindingOf(t, e) /\ StageOf(t, e) = BindingOf(t, e)
    <3>1. Conclusions(t, e) = {} /\ Conclusions(Saved', e) = {}
      <4>1. Conclusions(s, e) = {}
        BY <1>4, <2>1, Unconcluded
      <4>2. /\ DOMAIN s.log = 1..Len(s.log) /\ Len(s.log) \in Nat
            /\ DOMAIN Saved'.log = 1..(Len(s.log) + 1)
            /\ \A i \in DOMAIN s.log : Saved'.log[i] = s.log[i]
            /\ Saved'.log[Len(s.log) + 1] = x
        BY <1>4, <1>5, AppendProperties, LenProperties DEF Restorable
      <4>3. \A i \in DOMAIN Saved'.log : i \in DOMAIN s.log \/ i = Len(s.log) + 1
        BY <4>2
      <4> QED
        BY <1>11, <2>2, <4>1, <4>2, <4>3 DEF Conclusions
    <3>2. Saved'.snaps[e] = t.snaps[e] /\ t.snaps[e] # None
      BY <1>5, <2>1, <2>2, NoneAssumption
    <3>3. BindingOf(Saved', e) = BindingOf(t, e)
      BY <3>2 DEF BindingOf
    <3> QED
      BY <3>1, <3>2, <3>3 DEF StageOf
  <2> QED
    BY <1>3, <2>3, <2>4 DEF Advances
<1> QED
  BY <1>9, <1>10, <1>11

\* The other steps commit no snapshot and no execution.
LEMMA StutterSteps ==
  ASSUME IInv,
         \/ \E o \in Owner, r \in Rule, rc \in Receiver : RegisterGuard(o, r, rc)
         \/ \E a \in ActionResult, r \in Rule, e \in Event : ExecuteBegin(a, r, e)
         \/ Pull \/ Deposit \/ Revert
         \/ \E o \in Owner : (\E n \in Approval : Approve(o, n)) \/ GiveManager(o)
         \/ \E f \in Feed : UpdateFeed(f)
         \/ \E t \in Tee : ChangeStatus(t)
         \/ Tick
         \/ UNCHANGED vars
  PROVE  Committed'.snaps = Committed.snaps /\ Committed'.log = Committed.log
<1>1. ASSUME NEW a \in ActionResult, NEW r \in Rule, NEW e \in Event, ExecuteBegin(a, r, e)
      PROVE  Committed' = Committed
  <2>1. PICK f \in Frame : stack' = << f >> /\ f.saved = Saved
    BY <1>1, BeginFrame DEF IInv
  <2>2. stack = << >> /\ stack' # << >> /\ stack'[1] = f
    BY <1>1, <2>1 DEF ExecuteBegin, Admissible, NotEntered
  <2> QED
    BY <2>1, <2>2 DEF Committed
<1>2. CASE Pull \/ Deposit
  <2>1. stack # << >>
    BY <1>2 DEF Pull, Deposit
  <2>2. PICK stage \in {"pull", "deposit", "finish"} : Advance(stage)
    BY <1>2 DEF Pull, Deposit
  <2>3. stack' # << >> /\ stack'[1] = [stack[1] EXCEPT !.stage = stage]
    BY <2>1, <2>2, AdvanceStack
  <2>4. stack'[1].saved = stack[1].saved
    BY <2>1, <2>3, TopIsFirst DEF Frame
  <2> QED
    BY <2>1, <2>3, <2>4, Uncommitted
<1>3. CASE Revert
  BY <1>3, RevertRestores DEF Committed
<1>4. ASSUME UNCHANGED <<snaps, log, stack>>
      PROVE  Committed'.snaps = Committed.snaps /\ Committed'.log = Committed.log
  BY <1>4 DEF Committed, Saved
<1>5. ASSUME \/ \E o \in Owner, r \in Rule, rc \in Receiver : RegisterGuard(o, r, rc)
             \/ \E o \in Owner : (\E n \in Approval : Approve(o, n)) \/ GiveManager(o)
             \/ \E f \in Feed : UpdateFeed(f)
             \/ \E t \in Tee : ChangeStatus(t)
             \/ Tick
             \/ UNCHANGED vars
      PROVE  UNCHANGED <<snaps, log, stack>>
  BY <1>5 DEF RegisterGuard, Approve, GiveManager, UpdateFeed, ChangeStatus, Tick, vars, contract
<1> QED
  BY <1>1, <1>2, <1>3, <1>4, <1>5

LEMMA StepAdvances ==
  ASSUME IInv, [Next]_vars, NEW e \in Event
  PROVE  Advances(StageOf(Committed, e), StageOf(Committed', e))
<1>1. ASSUME NEW o \in Owner, NEW r \in Rule, NEW p \in Proof, Prepare(o, r, p)
      PROVE  Advances(StageOf(Committed, e), StageOf(Committed', e))
  BY <1>1, PrepareAdvances
<1>2. ASSUME NEW a \in ActionResult, NEW r \in Rule, NEW g \in Event, ExecuteReleasing(a, r, g)
      PROVE  Advances(StageOf(Committed, e), StageOf(Committed', e))
  BY <1>2, ReleasingAdvances
<1>3. CASE Finish
  BY <1>3, FinishAdvances
<1>4. ASSUME \/ \E o \in Owner, r \in Rule, rc \in Receiver : RegisterGuard(o, r, rc)
             \/ \E a \in ActionResult, r \in Rule, g \in Event : ExecuteBegin(a, r, g)
             \/ Pull \/ Deposit \/ Revert
             \/ \E o \in Owner : (\E n \in Approval : Approve(o, n)) \/ GiveManager(o)
             \/ \E f \in Feed : UpdateFeed(f)
             \/ \E t \in Tee : ChangeStatus(t)
             \/ Tick
             \/ UNCHANGED vars
      PROVE  Advances(StageOf(Committed, e), StageOf(Committed', e))
  BY <1>4, StutterSteps, SameStages
<1> QED
  BY <1>1, <1>2, <1>3, <1>4 DEF Next

LEMMA StepRefines ==
  ASSUME IInv, [Next]_vars
  PROVE  [Lifecycle!Next]_<<now, [e \in Event |-> StageOf(Committed, e)]>>
<1> DEFINE stages == [e \in Event |-> StageOf(Committed, e)]
<1>1. \A e \in Event : stages[e] = StageOf(Committed, e) /\ stages'[e] = StageOf(Committed', e)
  OBVIOUS
<1>2. CASE now' = now
  <2>1. \A e \in Event : Advances(stages[e], stages'[e])
    BY <1>1, StepAdvances
  <2>2. Lifecycle!Transact
    BY <1>2, <2>1 DEF Lifecycle!Transact, Advances
  <2> QED
    BY <2>2 DEF Lifecycle!Next
<1>3. CASE now' # now
  <2>1. Tick
    BY <1>3 DEF Next, RegisterGuard, Prepare, ExecuteReleasing, ExecuteBegin, Consume, Pull,
                Deposit, Finish, Revert, Approve, GiveManager, UpdateFeed, ChangeStatus, vars
  <2>2. Committed'.snaps = Committed.snaps /\ Committed'.log = Committed.log
    BY <2>1, StutterSteps
  <2>3. stages' = stages
    BY <2>2, StageSame
  <2>4. Lifecycle!Tick
    BY <2>1, <2>3 DEF Tick, Lifecycle!Tick
  <2> QED
    BY <2>4 DEF Lifecycle!Next
<1> QED
  BY <1>2, <1>3

\* The manager implements EventLifecycle: every payment is bound at most once
\* and then concluded at most once, at the price it was bound to, although
\* executeGuard lets other code run in its middle and may be undone.
THEOREM ManagerRefinesLifecycle == Spec => RefinesLifecycle
<1>1. Init => Lifecycle!Init
  <2> SUFFICES ASSUME Init PROVE Lifecycle!Init
    OBVIOUS
  <2>1. Committed = Saved /\ now = 0
    BY DEF Init, Committed
  <2>2. \A e \in Event : StageOf(Committed, e) = Lifecycle!Unseen
    BY <2>1 DEF Init, Saved, StageOf, Lifecycle!Unseen
  <2> QED
    BY <2>1, <2>2 DEF Lifecycle!Init
<1>2. IInv /\ [Next]_vars => [Lifecycle!Next]_<<now, [e \in Event |-> StageOf(Committed, e)]>>
  BY StepRefines
<1> QED
  BY <1>1, <1>2, InductiveInvariant, PTL DEF Spec, RefinesLifecycle, Lifecycle!Spec
=============================================================================

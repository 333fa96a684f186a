---------------------------- MODULE GuardManager ----------------------------
(***************************************************************************)
(* packages/contracts/src/GuardManager.sol, with the payment verifier, the *)
(* price reader and the decision codec it calls.  An XRPL payment proved   *)
(* by the FDC is valued once, at the FTSO price of that moment, and the    *)
(* snapshot awaits a decision signed by a registered TEE; executing it     *)
(* consumes the payment, the result and the nonce and, if it triggered,    *)
(* moves FXRP from the guard's owner into a vault position.                *)
(*                                                                         *)
(* executeGuard is several steps because the token's code runs in the      *)
(* middle; `stack' holds the calls in progress (nonReentrant: at most one) *)
(* and what a revert restores.  Nothing in the contract clears a guard's   *)
(* `active', which is left out, and products stay within 256 bits.         *)
(***************************************************************************)
EXTENDS Integers, Sequences, FiniteSetsExt, SequencesExt

CONSTANTS
  Owner,       \* accounts that register guards and fund them
  Manager, Vault,
  Rule, Receiver, Nonce, None,
  Proof,       \* FDC payment proofs anyone may present
  Feed,        \* values the FTSO feed may show: [raw, decimals]
  ActionResult,\* action results signed by some TEE
  Tee,         \* TEE machines
  FeeToken,    \* TRUE if transfers of the token may deliver less
  HookToken,   \* TRUE if the token calls other contracts
  Supply,      \* FXRP each owner starts with
  Approval,    \* amounts an owner may approve
  MaxPriceAge, MaxResultValidity, Duration,
  Unit,        \* 10^fxrpDecimals
  DropsPerXrp,
  UsdDecimals, \* NORMALIZED_USD_DECIMALS
  MaxShift,    \* 77: largest power of ten that is computed
  MaxTime,     \* bound: last block timestamp
  MaxDepth,    \* bound: nested calls
  MaxGifts     \* bound: units sent straight to the manager

\* deriveEventHash: the payment's identity is the hash of these four fields.
EventOf(p) == <<p.transaction, p.receiver, p.drops, p.paidAt>>
Event == {EventOf(p) : p \in Proof}

Decision == [domain : {"V1", "V2"}, rule : Rule, event : Event, triggered : BOOLEAN,
             protected : Nat, schedule : Nat, value : Nat, evaluatedAt : Nat,
             nonce : Nonce, expiry : Nat]

ASSUME ManagerAssumption ==
  /\ Manager \notin Owner /\ Vault \notin Owner \cup {Manager}
  /\ \A p \in Proof :
       /\ p.receiver \in Receiver /\ p.drops \in Int /\ p.paidAt \in Nat
       /\ {p.genuine, p.succeeded} \subseteq BOOLEAN
  /\ \A f \in Feed : f.raw \in Nat /\ f.decimals \in Int
  /\ \A a \in ActionResult : a.status \in {0, 1} /\ a.signer \in Tee /\ a.decision \in Decision
  /\ {FeeToken, HookToken} \subseteq BOOLEAN
  /\ {Supply, MaxPriceAge, MaxResultValidity, MaxTime, MaxDepth, MaxGifts, MaxShift,
      UsdDecimals} \subseteq Nat
  /\ Approval \subseteq Nat
  /\ {Unit, DropsPerXrp, Duration} \subseteq Nat \ {0}

\* The provers know nothing of powers.
ASSUME PowersAssumption == \A n \in 0..MaxShift : 10^n \in Nat \ {0}

VARIABLES
  now, feed, production,   \* block time, price feed, TEEs in production status
  guards, snaps, consumedEvents, consumedResults, usedNonces,
  bal, allowance,          \* FXRP: balances, and what owners let the manager pull
  gifted,                  \* history: units each owner sent straight to the manager
  positions,               \* vault positions
  log,                     \* history: the executions, as the events report them
  stack

contract == <<guards, snaps, consumedEvents, consumedResults, usedNonces>>
token == <<bal, allowance, gifted>>
vars == <<now, feed, production, contract, token, positions, log, stack>>

Holder == Owner \cup {Manager, Vault}
Action == {a.action : a \in ActionResult}

Guard == [owner : Owner, receiver : Receiver, schedule : {1}]
Snapshot == [rule : Rule, value : Nat, price : Nat \ {0}, priceAt : Nat, preparedAt : Nat]
Position == [beneficiary : Owner, total : Nat \ {0}, start : Nat, end : Nat]

ASSUME NoneAssumption == None \notin Guard \cup Snapshot

\* What the events GuardEvaluated and GuardTriggered say of an execution.
Execution ==
  [rule : Rule, event : Event, action : Action, nonce : Nonce, at : Nat, evaluatedAt : Nat,
   expiry : Nat, triggered : BOOLEAN, usd : Nat, amount : Nat]

\* The state a revert restores, and a call of executeGuard in progress.
Restorable ==
  [guards : [Rule -> Guard \cup {None}], snaps : [Event -> Snapshot \cup {None}],
   consumedEvents : SUBSET Event, consumedResults : SUBSET Action,
   usedNonces : SUBSET (Rule \X Nonce), bal : [Holder -> Nat], allowance : [Owner -> Nat],
   gifted : [Owner -> Nat], positions : Seq(Position), log : Seq(Execution)]

Frame ==
  [stage : {"pull", "deposit", "finish"}, rule : Rule, amount : Nat \ {0}, before : Nat,
   report : Execution, saved : Restorable]

\* The state a revert of a call that starts now would restore.
Saved ==
  [guards |-> guards, snaps |-> snaps, consumedEvents |-> consumedEvents,
   consumedResults |-> consumedResults, usedNonces |-> usedNonces, bal |-> bal,
   allowance |-> allowance, gifted |-> gifted, positions |-> positions, log |-> log]

TypeOK ==
  /\ now \in Nat /\ production \subseteq Tee
  /\ feed \in [price : Feed, at : Nat]
  /\ Saved \in Restorable
  /\ stack \in Seq(Frame)

Init ==
  /\ now = 0 /\ production = {}
  /\ feed \in [price : Feed, at : {0}]
  /\ guards = [r \in Rule |-> None]
  /\ snaps = [e \in Event |-> None]
  /\ consumedEvents = {} /\ consumedResults = {} /\ usedNonces = {}
  /\ bal = [x \in Holder |-> IF x \in Owner THEN Supply ELSE 0]
  /\ allowance = [o \in Owner |-> 0] /\ gifted = [o \in Owner |-> 0]
  /\ positions = << >> /\ log = << >> /\ stack = << >>

Top == Last(stack)

\* The owner in storage when it is read: the token's code may have run since
\* the call began.
Payer(f) == guards[f.rule].owner

\* Other code runs between transactions, and when the token calls out.
OthersRun ==
  \/ stack = << >>
  \/ stack # << >> /\ HookToken /\ Len(stack) < MaxDepth

-----------------------------------------------------------------------------
(* registerGuard *)

\* Broken variant: a rule may be registered over.
AnyRule(r) == TRUE

Unregistered(r) == guards[r] = None

RegisterGuard(o, r, rc) ==
  /\ OthersRun
  /\ Unregistered(r)
  /\ guards' = [guards EXCEPT ![r] = [owner |-> o, receiver |-> rc, schedule |-> 1]]
  /\ UNCHANGED <<now, feed, production, snaps, consumedEvents, consumedResults, usedNonces,
                 token, positions, log, stack>>

-----------------------------------------------------------------------------
(* prepareGuardEvaluation *)

\* verifyPayment: msg.sender is the manager, so a proof restricted to an owner
\* must name the manager.
PaymentVerified(p) ==
  /\ p.genuine
  /\ p.proofOwner \in {None, Manager}
  /\ p.succeeded
  /\ p.drops > 0

\* normalizePriceUsd18: shifted to UsdDecimals, rounded down; a shift out of
\* range is an error upwards and zero downwards.
PriceReadable(f) == f.raw = 0 \/ UsdDecimals - f.decimals <= MaxShift

NormalizePrice(f) ==
  LET shift == UsdDecimals - f.decimals
  IN IF f.raw = 0 \/ -shift > MaxShift THEN 0
     ELSE IF shift >= 0 THEN f.raw * 10^shift
     ELSE f.raw \div 10^(-shift)

\* _validatePrice.
PriceValid(price, at) == price # 0 /\ at <= now /\ now - at <= MaxPriceAge

EventValue(drops, price) == (drops * price) \div DropsPerXrp

\* Broken variant: a second valuation replaces the first, before the payment
\* is concluded.
Unconsumed(e) == e \notin consumedEvents

Preparable(e) == e \notin consumedEvents /\ snaps[e] = None

Prepare(o, r, p) ==
  LET e == EventOf(p)
      price == NormalizePrice(feed.price)
  IN
  /\ OthersRun
  /\ guards[r] # None /\ guards[r].owner = o
  /\ PaymentVerified(p)
  /\ p.receiver = guards[r].receiver
  /\ PriceReadable(feed.price) /\ PriceValid(price, feed.at)
  /\ Preparable(e)
  /\ snaps' = [snaps EXCEPT ![e] =
       [rule |-> r, value |-> EventValue(p.drops, price), price |-> price,
        priceAt |-> feed.at, preparedAt |-> now]]
  /\ UNCHANGED <<now, feed, production, guards, consumedEvents, consumedResults, usedNonces,
                 token, positions, log, stack>>

-----------------------------------------------------------------------------
(* executeGuard *)

NotEntered == stack = << >>

\* _verifyFccResult, _verifyRegisteredTee and the codec: a successful result of
\* a TEE in production, in the current domain.
ResultVerified(a) ==
  /\ a.status = 1
  /\ a.signer \in production
  /\ a.decision.domain = "V2"

\* Broken variant: a decision taken before the snapshot is accepted.
BindsAnyTime(d, r, e) ==
  /\ d.rule = r /\ d.event = e /\ d.value = snaps[e].value /\ d.evaluatedAt <= now
  /\ d.triggered => d.schedule = guards[r].schedule

\* FccBindingMismatch is not raised.
Binds(d, r, e) ==
  /\ d.rule = r /\ d.event = e
  /\ d.value = snaps[e].value
  /\ snaps[e].preparedAt <= d.evaluatedAt /\ d.evaluatedAt <= now
  /\ d.triggered => d.schedule = guards[r].schedule

\* Broken variant: a signed result never grows old.
WindowShaped(d) == d.evaluatedAt < d.expiry /\ d.expiry - d.evaluatedAt <= MaxResultValidity

\* InvalidResultWindow and FccResultExpired are not raised.
WindowOpen(d) ==
  /\ d.evaluatedAt < d.expiry /\ d.expiry - d.evaluatedAt <= MaxResultValidity
  /\ now <= d.expiry

\* Broken variant: a nonce may be used twice.
FreshButNonce(a, r, e) == e \notin consumedEvents /\ a.action \notin consumedResults

\* Broken variant: a payment may be concluded twice.
FreshButEvent(a, r, e) ==
  a.action \notin consumedResults /\ <<r, a.decision.nonce>> \notin usedNonces

\* The replay barriers.
Fresh(a, r, e) ==
  /\ e \notin consumedEvents
  /\ a.action \notin consumedResults
  /\ <<r, a.decision.nonce>> \notin usedNonces

\* Broken variant: rounded to the nearest unit.
FxrpRounded(usd, price) == (usd * Unit + price \div 2) \div price

FxrpAmount(usd, price) == (usd * Unit) \div price

\* ZeroProtectedAmount is not raised.
AmountAccepted(amount) == amount # 0

Report(a, r, e, amount) ==
  [rule |-> r, event |-> e, action |-> a.action, nonce |-> a.decision.nonce, at |-> now,
   evaluatedAt |-> a.decision.evaluatedAt, expiry |-> a.decision.expiry,
   triggered |-> a.decision.triggered, usd |-> a.decision.protected, amount |-> amount]

\* Broken variant: any registered guard may execute a valued payment.
AdmissibleForAny(a, r, e) ==
  /\ OthersRun /\ NotEntered
  /\ guards[r] # None /\ snaps[e] # None
  /\ Fresh(a, r, e) /\ ResultVerified(a) /\ Binds(a.decision, r, e) /\ WindowOpen(a.decision)

Admissible(a, r, e) ==
  /\ OthersRun /\ NotEntered
  /\ guards[r] # None
  /\ snaps[e] # None /\ snaps[e].rule = r
  /\ Fresh(a, r, e)
  /\ ResultVerified(a)
  /\ Binds(a.decision, r, e)
  /\ WindowOpen(a.decision)

Consume(a, r, e) ==
  /\ consumedEvents' = consumedEvents \cup {e}
  /\ consumedResults' = consumedResults \cup {a.action}
  /\ usedNonces' = usedNonces \cup {<<r, a.decision.nonce>>}
  /\ UNCHANGED <<now, feed, production, guards, snaps, token, positions>>

\* A decision that did not trigger ends here.
ExecuteReleasing(a, r, e) ==
  /\ Admissible(a, r, e) /\ ~a.decision.triggered
  /\ Consume(a, r, e)
  /\ log' = Append(log, Report(a, r, e, 0))
  /\ UNCHANGED stack

\* One that did goes on to move tokens; an amount that rounds to zero reverts.
ExecuteBegin(a, r, e) ==
  LET amount == FxrpAmount(a.decision.protected, snaps[e].price)
  IN
  /\ Admissible(a, r, e) /\ a.decision.triggered
  /\ AmountAccepted(amount)
  /\ Consume(a, r, e)
  /\ stack' = Append(stack,
       [stage |-> "pull", rule |-> r, amount |-> amount, before |-> bal[Manager],
        report |-> Report(a, r, e, amount), saved |-> Saved])
  /\ UNCHANGED log

Delivered(n) == IF FeeToken THEN 0..n ELSE {n}

Moved(from, to, sent, got) ==
  [bal EXCEPT ![from] = @ - sent, ![to] = @ + got]

Advance(stage) == stack' = [stack EXCEPT ![Len(stack)].stage = stage]

\* safeTransferFrom(guard.owner, manager).
Pull ==
  /\ stack # << >> /\ Top.stage = "pull"
  /\ allowance[Payer(Top)] >= Top.amount /\ bal[Payer(Top)] >= Top.amount
  /\ \E got \in Delivered(Top.amount) : bal' = Moved(Payer(Top), Manager, Top.amount, got)
  /\ allowance' = [allowance EXCEPT ![Payer(Top)] = @ - Top.amount]
  /\ Advance("deposit")
  /\ UNCHANGED <<now, feed, production, contract, gifted, positions, log>>

\* The receipt check, the exact approval, and createPosition with its own
\* receipt check.
Received(f) == bal[Manager] - f.before

Deposit ==
  /\ stack # << >> /\ Top.stage = "deposit"
  /\ Received(Top) = Top.amount
  /\ bal' = Moved(Manager, Vault, Top.amount, Top.amount)
  /\ positions' = Append(positions,
       [beneficiary |-> Payer(Top), total |-> Top.amount, start |-> now, end |-> now + Duration])
  /\ Advance("finish")
  /\ UNCHANGED <<now, feed, production, contract, allowance, gifted, log>>

\* ResidualManagerBalance is not raised.
Finish ==
  /\ stack # << >> /\ Top.stage = "finish"
  /\ bal[Manager] = Top.before
  /\ log' = Append(log, Top.report)
  /\ stack' = Front(stack)
  /\ UNCHANGED <<now, feed, production, contract, token, positions>>

\* Any failure undoes the whole call: a balance check, a missing allowance or
\* fund, a fee taken by the vault's pull, a refusal of the token.
Reverts(f) ==
  \/ f.stage = "pull" /\ (allowance[Payer(f)] < f.amount \/ bal[Payer(f)] < f.amount)
  \/ f.stage = "deposit" /\ (Received(f) # f.amount \/ FeeToken)
  \/ f.stage = "finish" /\ bal[Manager] # f.before
  \/ HookToken

Revert ==
  /\ stack # << >> /\ Reverts(Top)
  /\ LET s == Top.saved
     IN /\ guards' = s.guards /\ snaps' = s.snaps
        /\ consumedEvents' = s.consumedEvents /\ consumedResults' = s.consumedResults
        /\ usedNonces' = s.usedNonces
        /\ bal' = s.bal /\ allowance' = s.allowance /\ gifted' = s.gifted
        /\ positions' = s.positions /\ log' = s.log
  /\ stack' = Front(stack)
  /\ UNCHANGED <<now, feed, production>>

-----------------------------------------------------------------------------
(* Owners, the token and the rest of the chain *)

Approve(o, n) ==
  /\ OthersRun
  /\ allowance' = [allowance EXCEPT ![o] = n]
  /\ UNCHANGED <<now, feed, production, contract, bal, gifted, positions, log, stack>>

GiveManager(o) ==
  /\ OthersRun
  /\ bal[o] > 0 /\ \A x \in Owner : gifted[x] < MaxGifts
  /\ bal' = Moved(o, Manager, 1, 1)
  /\ gifted' = [gifted EXCEPT ![o] = @ + 1]
  /\ UNCHANGED <<now, feed, production, contract, allowance, positions, log, stack>>

UpdateFeed(f) ==
  /\ stack = << >>
  /\ feed' = [price |-> f, at |-> now]
  /\ UNCHANGED <<now, production, contract, token, positions, log, stack>>

ChangeStatus(t) ==
  /\ stack = << >>
  /\ production' = IF t \in production THEN production \ {t} ELSE production \cup {t}
  /\ UNCHANGED <<now, feed, contract, token, positions, log, stack>>

Tick ==
  /\ stack = << >> /\ now < MaxTime
  /\ now' = now + 1
  /\ UNCHANGED <<feed, production, contract, token, positions, log, stack>>

Next ==
  \/ \E o \in Owner, r \in Rule :
       \/ \E rc \in Receiver : RegisterGuard(o, r, rc)
       \/ \E p \in Proof : Prepare(o, r, p)
  \/ \E a \in ActionResult, r \in Rule, e \in Event :
       ExecuteReleasing(a, r, e) \/ ExecuteBegin(a, r, e)
  \/ Pull \/ Deposit \/ Finish \/ Revert
  \/ \E o \in Owner : (\E n \in Approval : Approve(o, n)) \/ GiveManager(o)
  \/ \E f \in Feed : UpdateFeed(f)
  \/ \E t \in Tee : ChangeStatus(t)
  \/ Tick

Spec == Init /\ [][Next]_vars

-----------------------------------------------------------------------------
(* Properties *)

Distinct(x, y) ==
  /\ x.event # y.event /\ x.action # y.action
  /\ <<x.rule, x.nonce>> # <<y.rule, y.nonce>>

\* No XRPL payment, no action result and no (rule, nonce) pair is ever behind
\* two executions: the barriers of executeGuard (lines 264-265 and 279) hold
\* across rules, reverted calls and the token's callbacks.
ExactlyOnce == \A i, j \in DOMAIN log : i # j => Distinct(log[i], log[j])

\* `amount' is what the decided USD amount buys at the price of the snapshot,
\* rounded down.
PricedBy(x, snapshot) ==
  /\ snapshot # None /\ snapshot.rule = x.rule
  /\ x.triggered => /\ x.amount * snapshot.price <= x.usd * Unit
                    /\ x.usd * Unit < (x.amount + 1) * snapshot.price

\* A payment is only ever valued for a rule that watches its receiver, and a
\* protection is worth the decided USD amount at the price of the snapshot
\* (within one unit, never more), whatever the feed has shown since.
SnapshotPriced ==
  /\ \A e \in Event : snaps[e] # None =>
       guards[snaps[e].rule] # None /\ guards[snaps[e].rule].receiver = e[2]
  /\ \A i \in DOMAIN log : PricedBy(log[i], snaps[log[i].event])

InOrder(x, snapshot) ==
  /\ snapshot.preparedAt <= x.evaluatedAt
  /\ x.evaluatedAt <= x.at /\ x.at <= x.expiry
  /\ x.expiry - x.evaluatedAt \in 1..MaxResultValidity

\* Valuation, decision and execution come in that order, and a decision is
\* executed while it is valid, which is never longer than MAX_RESULT_VALIDITY.
Timely == \A i \in DOMAIN log : InOrder(log[i], snaps[log[i].event])

\* Units in the vault's positions, and in those of one beneficiary.
Totals(ps) == [i \in DOMAIN ps |-> ps[i].total]
Secured(ps) == SumFunctionOnSet(Totals(ps), DOMAIN ps)
Protected(ps, o) == SumFunctionOnSet(Totals(ps), {i \in DOMAIN ps : ps[i].beneficiary = o})

\* "FXRP always comes from and vests back to the guard owner" (line 251): the
\* units an owner lost are in positions of their own or were given away,
\* although the owner is read from storage again after the token's code ran.
FundedByOwner ==
  stack = << >> => \A o \in Owner : bal[o] + gifted[o] + Protected(positions, o) = Supply

\* The vault's positions are the triggered executions of a log, one each in the
\* same order, with their amounts and owners, from their own block for the
\* whole schedule.
Rank(l, i) == Cardinality({j \in 1..i : l[j].triggered})

Opens(x, p, g) ==
  p = [beneficiary |-> g[x.rule].owner, total |-> x.amount, start |-> x.at,
       end |-> x.at + Duration]

OneEach(ps, l, g) ==
  /\ Len(ps) = Rank(l, Len(l))
  /\ \A i \in DOMAIN l : l[i].triggered => Opens(l[i], ps[Rank(l, i)], g)

EventsOf(l) == {l[i].event : i \in DOMAIN l}

\* Between transactions every triggered execution has its position and the
\* vault holds them all: a call that failed half way leaves neither a position
\* nor a consumed decision.
Backed ==
  stack = << >> =>
    /\ OneEach(positions, log, guards)
    /\ bal[Vault] = Secured(positions)
    /\ consumedEvents = EventsOf(log)

\* The strengthening of both: the same of the state a revert restores; while a
\* call is in progress its owner is short of the units the manager holds for
\* it, and once they are deposited its report counts as one of the executions.
Booked(s) ==
  /\ \A o \in Owner : s.bal[o] + s.gifted[o] + Protected(s.positions, o) = Supply
  /\ OneEach(s.positions, s.log, s.guards)
  /\ s.bal[Vault] = Secured(s.positions)
  /\ s.consumedEvents = EventsOf(s.log)

InTransit(f, o) == IF f.stage = "deposit" /\ Payer(f) = o THEN f.amount ELSE 0

CallBooked(f) ==
  /\ Booked(f.saved)
  /\ f.report.rule = f.rule /\ f.report.at = now
  /\ \A o \in Owner :
       bal[o] + gifted[o] + Protected(positions, o) + InTransit(f, o) = Supply
  /\ OneEach(positions, IF f.stage = "finish" THEN Append(log, f.report) ELSE log, guards)
  /\ bal[Vault] = Secured(positions)
  /\ consumedEvents = EventsOf(log) \cup {f.report.event}

MInv == IF stack = << >> THEN Booked(Saved) ELSE CallBooked(stack[1])

\* The inductive invariant behind ExactlyOnce, SnapshotPriced and Timely: every
\* execution is behind all three barriers and justified by its snapshot, in the
\* state and in the one a revert would restore, and the report of a call in
\* progress is already fit to join the others.
Barred(x, s) ==
  /\ x.event \in s.consumedEvents /\ x.action \in s.consumedResults
  /\ <<x.rule, x.nonce>> \in s.usedNonces

Justified(x, s) ==
  Barred(x, s) /\ PricedBy(x, s.snaps[x.event]) /\ InOrder(x, s.snaps[x.event])

Sound(s) ==
  /\ \A e \in Event : s.snaps[e] # None =>
       s.guards[s.snaps[e].rule] # None /\ s.guards[s.snaps[e].rule].receiver = e[2]
  /\ \A i \in DOMAIN s.log : Justified(s.log[i], s)
  /\ \A i, j \in DOMAIN s.log : i # j => Distinct(s.log[i], s.log[j])

\* What callbacks may have added to the snapshots of state s.
Added(s) ==
  \A e \in Event : IF s.snaps[e] # None THEN snaps[e] = s.snaps[e]
                 ELSE snaps[e] # None => snaps[e].preparedAt = now

CallInProgress(f) ==
  /\ Sound(f.saved) /\ f.saved.log = log
  /\ Added(f.saved) /\ f.saved.snaps[f.report.event] # None
  /\ guards[f.rule] # None
  /\ f.report.triggered /\ f.report.amount = f.amount
  /\ Justified(f.report, Saved)
  /\ \A i \in DOMAIN log : Distinct(f.report, log[i])

IInv ==
  /\ TypeOK
  /\ Len(stack) <= 1
  /\ Sound(Saved)
  /\ stack # << >> => CallInProgress(stack[1])

-----------------------------------------------------------------------------
(* EventLifecycle sees what has been committed: a transaction's effects      *)
(* appear when its outermost call returns.                                   *)

Committed == IF stack = << >> THEN Saved ELSE stack[1].saved

BindingOf(s, e) ==
  LET x == s.snaps[e]
  IN [stage |-> "bound", rule |-> x.rule, value |-> x.value, price |-> x.price,
      preparedAt |-> x.preparedAt]

Conclusions(s, e) == {i \in DOMAIN s.log : s.log[i].event = e}
LastOf(s, e) == s.log[CHOOSE i \in Conclusions(s, e) : \A j \in Conclusions(s, e) : j <= i]

StageOf(s, e) ==
  IF s.snaps[e] = None THEN [stage |-> "unseen"]
  ELSE IF Conclusions(s, e) = {} THEN BindingOf(s, e)
  ELSE IF LastOf(s, e).triggered
    THEN [stage |-> "protected", binding |-> BindingOf(s, e), usd |-> LastOf(s, e).usd,
          amount |-> LastOf(s, e).amount]
  ELSE [stage |-> "released", binding |-> BindingOf(s, e)]

Lifecycle == INSTANCE EventLifecycle WITH event <- [e \in Event |-> StageOf(Committed, e)]

\* Every payment is bound at most once and then concluded at most once, for the
\* rule and at the price it was bound to.
RefinesLifecycle == Lifecycle!Spec
=============================================================================

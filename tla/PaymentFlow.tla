---- MODULE PaymentFlow ----
(***************************************************************************)
(* The payment workflow of the web application, apps/web/src/components/   *)
(* guards/process-payment-flow.tsx: the owner's browser tabs walk a payment*)
(* through an FDC request, the snapshot, the private evaluation, a token   *)
(* approval and executeGuard.  Transactions reach the chain some time after*)
(* they were signed, also when their tab is gone.  The extension and the   *)
(* manager are reduced to what the page relies on; a result's action id and*)
(* nonce are those of the one instruction it answers.  Times are distances *)
(* from now: how long an authorization is still valid, how old an          *)
(* instruction is.  The browser's clock is the chain's.                    *)
(***************************************************************************)
EXTENDS Integers, FiniteSets

CONSTANTS
  Tabs, Events,   \* browser tabs of one profile; payments to one guard
  Triggers,       \* payments whose private decision is to protect
  Amount,         \* and the FXRP units that takes: 0 when the value rounds to none
  Validity, Lag,  \* lifetime of a result; longest time an instruction waits
  MaxFaults,      \* bound: declined, timed out, failed calls, closed tabs, slow signatures, gifts
  MayExpire, MayReceive \* whether the policy may expire, the manager receive foreign tokens

ASSUME Payments == Events # {} /\ Triggers \subseteq Events /\ Amount \in [Events -> Nat]
ASSUME Times == Validity \in Nat /\ Lag \in Nat /\ Lag < Validity
ASSUME Bounds == MaxFaults \in Nat /\ MayExpire \in BOOLEAN /\ MayReceive \in BOOLEAN
ASSUME TabNames == {"none", "gone"} \cap Tabs = {}

VARIABLES
  prepared,   \* events with a snapshot
  winner,     \* event -> the tab whose result consumed it, "gone" or "none"
  allowance, balance, \* of the owner's tokens, for GuardManager
  dust,       \* whether the manager holds tokens nobody accounts for
  mempool,    \* signed transactions: kind, event, tab, and the result's validity
  asked,      \* payments whose attestation was requested
  left,       \* event -> seconds to the end of its last authorization
  instrs,     \* evaluation instructions on their way: event, tab, age
  expired,    \* the policy's expiresAt has passed
  tab,        \* tab -> stage of its run
  index,      \* eventHash of the guard's entry in localStorage
  faults

chain == <<prepared, winner, allowance, balance, dust, asked>>
tee == <<left, instrs, expired>>
vars == <<chain, mempool, tee, tab, index, faults>>

None == "none"
Gone == "gone" \* the tab that signed was closed or gave up
NoTime == -(Lag + 1)
Rest == {"idle", "failed", "complete"}
Signing == {"request", "prepare", "evaluate", "approve", "sign"}
Waiting == {"requesting", "preparing", "evaluating", "approving", "executing"}
Holding == {"answered", "approve", "approving", "execute", "sign", "executing"} \* a result
Busy == Signing \cup Waiting \cup Holding \cup {"proof", "unprepared", "snapshot", "answer", "confirm"}
Need(e) == IF e \in Triggers THEN Amount[e] ELSE 0

Page == [pc : Rest \cup Busy, ev : Events, left : -1..Validity, early : BOOLEAN, offers : BOOLEAN]
Txs == [kind : Waiting, ev : Events, by : Tabs \cup {Gone}, left : -1..Validity, early : BOOLEAN]
Instrs == [ev : Events, by : Tabs \cup {Gone}, age : 0..Lag, early : BOOLEAN, late : BOOLEAN]

\* A page waits for at most one transaction or instruction, the one it sent last.
Awaited ==
  /\ \A m \in mempool : m.by # Gone => tab[m.by].pc = m.kind
  /\ \A i \in instrs : i.by # Gone => tab[i.by].pc = "answer"
  /\ \A m, n \in mempool : m.by = n.by /\ m.by # Gone => m = n
  /\ \A i, j \in instrs : i.by = j.by /\ i.by # Gone => i = j

TypeOK ==
  /\ prepared \subseteq Events /\ asked \subseteq Events
  /\ winner \in [Events -> Tabs \cup {Gone, None}]
  /\ allowance \in Nat /\ balance \in Nat /\ dust \in BOOLEAN /\ expired \in BOOLEAN
  /\ left \in [Events -> NoTime..Validity] /\ mempool \subseteq Txs /\ instrs \subseteq Instrs
  /\ tab \in [Tabs -> Page] /\ Awaited
  /\ index \in Events \cup {None} /\ faults \in 0..MaxFaults

-----------------------------------------------------------------------------
\* canProcessPayment on a page loaded now: an indexed event must be known not to be consumed.
OfferedOnce == index = None
Offered == index = None \/ (index \in prepared /\ winner[index] = None)
Blank(pc, offers) ==
  [pc |-> pc, ev |-> CHOOSE e \in Events : TRUE, left |-> -1, early |-> FALSE,
   offers |-> offers]

Init ==
  /\ prepared = {} /\ winner = [e \in Events |-> None]
  /\ allowance = 0 /\ balance = 0 /\ dust = FALSE
  /\ mempool = {} /\ asked = {} /\ left = [e \in Events |-> NoTime] /\ instrs = {} /\ expired = FALSE
  /\ index = None /\ tab = [t \in Tabs |-> Blank("idle", TRUE)] /\ faults = 0

-----------------------------------------------------------------------------
\* What becomes of a transaction or instruction whose tab stops waiting for it.
Abandon(t) ==
  /\ mempool' = {IF m.by = t THEN [m EXCEPT !.by = Gone] ELSE m : m \in mempool}
  /\ instrs' = {IF i.by = t THEN [i EXCEPT !.by = Gone] ELSE i : i \in instrs}

Goto(t, pc) == tab' = [tab EXCEPT ![t].pc = pc]
Failed(t) == [tab EXCEPT ![t].pc = "failed"]

Run(t, e) ==
  /\ tab[t].pc \in Rest /\ tab[t].offers
  /\ tab' = [tab EXCEPT ![t] = [Blank("request", TRUE) EXCEPT !.ev = e]]
  /\ UNCHANGED <<chain, mempool, tee, index, faults>>

\* The wallet signs what the page asked for and broadcasts it.
Sent == [request |-> "requesting", prepare |-> "preparing", evaluate |-> "evaluating",
         approve |-> "approving", sign |-> "executing"]
Sign(t) ==
  /\ tab[t].pc \in Signing
  /\ LET kind == Sent[tab[t].pc] IN
     /\ mempool' = mempool \cup {[kind |-> kind, ev |-> tab[t].ev, by |-> t,
                                  left |-> tab[t].left, early |-> tab[t].early]}
     /\ Goto(t, kind)
  /\ UNCHANGED <<chain, tee, index, faults>>

\* pollProof has the proof; the event hash is indexed before anything is prepared.
Proof(t) ==
  /\ tab[t].pc = "proof" /\ tab[t].ev \in asked
  /\ index' = tab[t].ev
  /\ IF winner[tab[t].ev] # None THEN tab' = Failed(t)
     ELSE Goto(t, IF tab[t].ev \in prepared THEN "snapshot" ELSE "unprepared")
  /\ UNCHANGED <<chain, mempool, tee, faults>>

SimulatePrepare(t) ==
  /\ tab[t].pc = "unprepared"
  /\ IF tab[t].ev \in prepared \/ winner[tab[t].ev] # None THEN tab' = Failed(t) ELSE Goto(t, "prepare")
  /\ UNCHANGED <<chain, mempool, tee, index, faults>>

SnapshotUnread(t) ==
  /\ tab[t].pc \in {"preparing", "snapshot"} /\ Goto(t, "evaluate")
  /\ UNCHANGED <<chain, mempool, tee, index, faults>>
Snapshot(t) ==
  /\ tab[t].pc = "snapshot"
  /\ IF tab[t].ev \in prepared THEN Goto(t, "evaluate") ELSE tab' = Failed(t)
  /\ UNCHANGED <<chain, mempool, tee, index, faults>>

\* verifyEvaluation of policy-app-helper, then finish up to the approval.
Verified(t) == ~tab[t].early
Finish(t) ==
  /\ tab[t].pc = "answered"
  /\ LET e == tab[t].ev
         fit == Verified(t) /\ tab[t].left > 0 /\ winner[e] # t /\ balance >= Need(e)
     IN IF ~fit THEN tab' = Failed(t)
        ELSE Goto(t, IF allowance < Need(e) THEN "approve" ELSE "execute")
  /\ UNCHANGED <<chain, mempool, tee, index, faults>>

\* GuardManager.executeGuard succeeds.
Executable(e, valid, early) ==
  /\ e \in prepared /\ winner[e] = None /\ ~early /\ valid >= 0
  /\ e \in Triggers => Need(e) > 0 /\ balance >= Need(e) /\ allowance >= Need(e)
SimulateExecute(t) ==
  /\ tab[t].pc = "execute"
  /\ IF Executable(tab[t].ev, tab[t].left, tab[t].early) THEN Goto(t, "sign")
     ELSE tab' = Failed(t)
  /\ UNCHANGED <<chain, mempool, tee, index, faults>>

\* The receipt's status and the reads after it: event, own result and nonce, and
\* the manager's whole balance.  The page's data is read again a moment later.
ConfirmedByEvent(t) == winner[tab[t].ev] # None
Confirmed(t) == winner[tab[t].ev] = t /\ ~dust
Confirm(t) ==
  /\ tab[t].pc = "confirm"
  /\ tab' = IF Confirmed(t) THEN [tab EXCEPT ![t].pc = "complete", ![t].offers = Offered] ELSE Failed(t)
  /\ UNCHANGED <<chain, mempool, tee, index, faults>>

Step(t) ==
  Sign(t) \/ Proof(t) \/ SimulatePrepare(t) \/ Snapshot(t) \/ Finish(t) \/ SimulateExecute(t) \/ Confirm(t)

-----------------------------------------------------------------------------
\* A transaction takes effect; the tab that still waits for it reads the receipt.
Receipt(m, ok, next) ==
  tab' = IF m.by = Gone THEN tab ELSE IF ok THEN [tab EXCEPT ![m.by].pc = next] ELSE Failed(m.by)
Take(m, kind) == m \in mempool /\ m.kind = kind /\ mempool' = mempool \ {m}

IncludeRequest(m) ==
  /\ Take(m, "requesting") /\ asked' = asked \cup {m.ev} /\ Receipt(m, TRUE, "proof")
  /\ UNCHANGED <<prepared, winner, allowance, balance, dust, tee, index, faults>>

IncludePrepare(m) ==
  /\ Take(m, "preparing")
  /\ LET ok == m.ev \notin prepared /\ winner[m.ev] = None IN
     /\ prepared' = IF ok THEN prepared \cup {m.ev} ELSE prepared
     /\ Receipt(m, ok, "snapshot")
  /\ UNCHANGED <<winner, allowance, balance, dust, asked, tee, index, faults>>

\* The instruction's trusted time is that of its block.
IncludeEvaluate(m) ==
  /\ Take(m, "evaluating") /\ Receipt(m, TRUE, "answer")
  /\ instrs' = instrs \cup {[ev |-> m.ev, by |-> m.by, age |-> 0, early |-> m.ev \notin prepared, late |-> expired]}
  /\ UNCHANGED <<chain, left, expired, index, faults>>

Approval(e) == Need(e)
IncludeApprove(m) ==
  /\ Take(m, "approving") /\ allowance' = Approval(m.ev) /\ Receipt(m, TRUE, "execute")
  /\ UNCHANGED <<prepared, winner, balance, dust, asked, tee, index, faults>>

IncludeExecute(m) ==
  /\ Take(m, "executing")
  /\ LET ok == Executable(m.ev, m.left, m.early)
         paid == IF ok THEN Need(m.ev) ELSE 0
     IN /\ winner' = [winner EXCEPT ![m.ev] = IF ok THEN m.by ELSE @]
        /\ allowance' = allowance - paid /\ balance' = balance - paid
        /\ Receipt(m, TRUE, "confirm")
  /\ UNCHANGED <<prepared, dust, asked, tee, index, faults>>

Include(b) ==
  \E m \in {x \in mempool : x.by = b} :
    IncludeRequest(m) \/ IncludePrepare(m) \/ IncludeEvaluate(m) \/ IncludeApprove(m) \/ IncludeExecute(m)

-----------------------------------------------------------------------------
\* The extension: one authorization of an event at a time, strictly after the last one's expiry.
Authorized(i) == i.ev \in prepared /\ winner[i.ev] = None /\ ~i.late /\ left[i.ev] + i.age < 0
Answer(i, ok) ==
  IF i.by = Gone THEN tab
  ELSE IF ok THEN [tab EXCEPT ![i.by].pc = "answered", ![i.by].left = Validity - i.age, ![i.by].early = i.early]
  ELSE Failed(i.by)
EvaluateGuard(i) ==
  /\ i \in instrs /\ instrs' = instrs \ {i}
  /\ left' = IF Authorized(i) THEN [left EXCEPT ![i.ev] = Validity - i.age] ELSE left
  /\ tab' = Answer(i, Authorized(i))
  /\ UNCHANGED <<chain, mempool, expired, index, faults>>
\* The snapshot cannot be read or the state not be written: nothing is authorized.
EvaluateFails(i) ==
  /\ i \in instrs /\ instrs' = instrs \ {i} /\ tab' = Answer(i, FALSE)
  /\ faults < MaxFaults /\ faults' = faults + 1
  /\ UNCHANGED <<chain, mempool, left, expired, index>>

-----------------------------------------------------------------------------
Less(n, floor) == IF n > floor THEN n - 1 ELSE floor
Slow == \E t \in Tabs : tab[t].pc \in Holding
Tick ==
  /\ \A i \in instrs : i.age < Lag
  /\ left' = [e \in Events |-> Less(left[e], NoTime)]
  /\ instrs' = {[i EXCEPT !.age = @ + 1] : i \in instrs}
  /\ mempool' = {[m EXCEPT !.left = Less(@, -1)] : m \in mempool}
  /\ tab' = [t \in Tabs |-> [tab[t] EXCEPT !.left = Less(@, -1)]]
  /\ Slow => faults < MaxFaults
  /\ faults' = IF Slow THEN faults + 1 ELSE faults
  /\ UNCHANGED <<chain, expired, index>>

PolicyExpires ==
  MayExpire /\ ~expired /\ expired' = TRUE /\ UNCHANGED <<chain, mempool, left, instrs, tab, index, faults>>
Fund ==
  /\ \E e \in Events : balance < Need(e) /\ balance' = Need(e)
  /\ UNCHANGED <<prepared, winner, allowance, dust, asked, mempool, tee, tab, index, faults>>
Receive ==
  /\ MayReceive /\ ~dust /\ dust' = TRUE /\ faults < MaxFaults /\ faults' = faults + 1
  /\ UNCHANGED <<prepared, winner, allowance, balance, asked, mempool, tee, tab, index>>

\* A call is declined, fails or times out; its transaction may still be included.
Fail(t) ==
  /\ tab[t].pc \in Busy /\ faults < MaxFaults /\ faults' = faults + 1
  /\ tab' = Failed(t) /\ Abandon(t)
  /\ UNCHANGED <<chain, left, expired, index>>

\* The page is closed or loaded again.  A page at rest without the button is loaded again for free.
FreeReload(t) == tab[t].pc \in Rest /\ ~tab[t].offers /\ Offered
Reload(t) ==
  /\ tab' = [tab EXCEPT ![t] = Blank("idle", Offered)] /\ Abandon(t)
  /\ ~FreeReload(t) => faults < MaxFaults
  /\ faults' = IF FreeReload(t) THEN faults ELSE faults + 1
  /\ UNCHANGED <<chain, left, expired, index>>

Next ==
  \/ \E t \in Tabs : Step(t) \/ Fail(t) \/ Reload(t) \/ \E e \in Events : Run(t, e)
  \/ \E b \in Tabs \cup {Gone} : Include(b)
  \/ \E i \in instrs : EvaluateGuard(i) \/ EvaluateFails(i)
  \/ Tick \/ PolicyExpires \/ Fund \/ Receive

Spec == Init /\ [][Next]_vars
\* The owner signs, waits, finds the tokens and tries again; chain, providers and extension answer.
FairSpec ==
  /\ Spec
  /\ \A b \in Tabs \cup {Gone} : /\ WF_vars(Include(b))
                               /\ WF_vars(\E i \in {x \in instrs : x.by = b} : EvaluateGuard(i))
  /\ WF_vars(Tick /\ ~Slow) /\ WF_vars(Fund)
  /\ \A t \in Tabs : /\ WF_vars(Step(t)) /\ WF_vars(FreeReload(t) /\ Reload(t))
                     /\ \A e \in Events : SF_vars(Run(t, e))

-----------------------------------------------------------------------------
\* A decision the page asks for is dated no earlier than the snapshot it is
\* about, whatever was signed, closed and signed again: the contract would
\* refuse an earlier one and the extension would not replace it in time.
DecisionsUsable == \A i \in instrs : ~i.early

\* A run that ends in "Protection activated" consumed the payment with the
\* result it holds: not another tab, and not a transaction given up before.
CompleteIsOwn == \A t \in Tabs : tab[t].pc = "complete" => winner[tab[t].ev] = t

\* A prepared payment is concluded, whatever was declined, lost or came too
\* late: an authorization nobody used expires and is granted again.  Unless the
\* policy expires first or the protected amount rounds to nothing.
EventuallyConcluded ==
  \A e \in Events : (e \in Triggers => Amount[e] > 0) =>
    ((e \in prepared) ~> (winner[e] # None \/ expired))
====

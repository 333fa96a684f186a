---------------------------- MODULE FccExtension ----------------------------
(***************************************************************************)
(* packages/fcc-extension/go/internal/extension: the private rule engine   *)
(* in the TEE.  One process serves POST /action, each request in its own   *)
(* goroutine (a handler).  A handler that touches a rule holds the one     *)
(* mutex from its first look at the state to its reply; CREATE_POLICY      *)
(* decrypts and validates before it takes it.                              *)
(*                                                                         *)
(* The state of a rule lives in the map `policies' of the process and,     *)
(* written first, in the store behind it (Redis, or a map of the process). *)
(* The evaluation works on a copy that replaces the cached state only when *)
(* the store has acknowledged it.  A store that answers with an error may  *)
(* have applied the write all the same.                                    *)
(*                                                                         *)
(* Instruction timestamps are inputs: instructions queue, so they arrive   *)
(* late and in any order, and the process consults no clock of its own.    *)
(***************************************************************************)
EXTENDS Integers, FiniteSets

CONSTANTS
  Rule, Event, Nonce,
  Handler,    \* goroutines serving requests
  None,
  Policies,   \* decrypted policies that a request may carry
  Values,     \* USD values a payment may be snapshotted at
  Durable,    \* TRUE with FCC_STATE_STORE=redis, FALSE with the memory store
  Validity,   \* config.ResultValiditySeconds
  BpsWhole,   \* basis points of the whole, 10_000
  Word,       \* 2^64: uint64 sums wrap
  MaxTime     \* bound: largest instruction timestamp

\* normalizedPolicy.  The one supported schedule is left out.
Policy == [rule : Rule, threshold : Nat, cap : Nat, bps : Nat, cooldown : Nat, expires : Nat]

\* eventAuthorization: the decision frozen for an event, the end of the last
\* window signed for it, and (history) the time of the decision.
Auth == [value : Nat, triggered : BOOLEAN, protected : Nat, bps : Nat,
         lastExpiry : Nat, at : Nat]

\* policyState; LastTriggered = 0 means never.
PolicyState == [policy : Policy, last : Nat, auths : [Event -> Auth \cup {None}],
                nonces : SUBSET Nonce]

CreateRequest == [op : {"create"}, rule : Rule, ts : 0..MaxTime, policy : Policy]
EvalRequest == [op : {"evaluate"}, rule : Rule, ts : 0..MaxTime, event : Event, nonce : Nonce]
Request == CreateRequest \cup EvalRequest

\* The signed answer to EVALUATE_GUARD, and GuardManager's view of an event.
Result == [rule : Rule, event : Event, nonce : Nonce, at : Nat, expiry : Nat,
           value : Nat, triggered : BOOLEAN, protected : Nat, bps : Nat]
Snapshot == [rule : Rule, value : Nat]

ASSUME FccAssumption ==
  /\ Policies \subseteq Policy
  /\ Values \subseteq Nat
  /\ Durable \in BOOLEAN
  /\ {Validity, MaxTime} \subseteq Nat
  /\ {BpsWhole, Word} \subseteq Nat \ {0}
  /\ MaxTime + Validity < Word  \* a window never wraps: times are Unix seconds

ASSUME NoneAssumption ==
  /\ None \notin PolicyState /\ None \notin Auth
  /\ None \notin Snapshot /\ None \notin Request
  /\ None \notin Handler

VARIABLES
  snap,      \* GuardManager's snapshots, None before prepareGuardEvaluation
  consumed,  \* events GuardManager has executed
  store,     \* stateStore
  cache,     \* Extension.policies
  lock,      \* holder of Extension.mu
  h,         \* handlers: where each stands, its request and its working copy
  signed,    \* results released for signing
  accepted   \* policies acknowledged to their owners

vars == <<snap, consumed, store, cache, lock, h, signed, accepted>>

Locked == {"reading", "saving", "saved"}

TypeOK ==
  /\ snap \in [Event -> Snapshot \cup {None}]
  /\ consumed \in SUBSET Event
  /\ store \in [Rule -> PolicyState \cup {None}]
  /\ cache \in [Rule -> PolicyState \cup {None}]
  /\ lock \in Handler \cup {None}
  /\ h \in [Handler -> [pc : {"idle", "decrypting", "waiting"} \cup Locked,
                        req : Request \cup {None}, work : PolicyState \cup {None}]]
  /\ signed \in SUBSET Result
  /\ accepted \in SUBSET Policy

Idle == [pc |-> "idle", req |-> None, work |-> None]

Init ==
  /\ snap = [e \in Event |-> None]
  /\ consumed = {}
  /\ store = [r \in Rule |-> None]
  /\ cache = [r \in Rule |-> None]
  /\ lock = None
  /\ h = [hd \in Handler |-> Idle]
  /\ signed = {}
  /\ accepted = {}

Wrap(n) == n % Word

-----------------------------------------------------------------------------
(* CREATE_POLICY *)

\* normalizePolicy.
ValidPolicy(p) ==
  /\ p.threshold > 0
  /\ p.bps \in 1..BpsWhole
  /\ p.cap > 0 => p.cap >= p.threshold
  /\ p.expires # 0

\* The rule a create request names is inside the ciphertext.
ReceiveCreate(hd, p, ts) ==
  /\ h[hd].pc = "idle"
  /\ h' = [h EXCEPT ![hd] = [pc |-> "decrypting", work |-> None,
             req |-> [op |-> "create", rule |-> p.rule, ts |-> ts, policy |-> p]]]
  /\ UNCHANGED <<snap, consumed, store, cache, lock, signed, accepted>>

\* The TEE node decrypts; an invalid policy, one that has expired by the
\* instruction's time, or a failure of the node ends the request.
Decrypt(hd) ==
  /\ h[hd].pc = "decrypting"
  /\ LET req == h[hd].req
         valid == ValidPolicy(req.policy) /\ (req.ts > 0 => req.policy.expires > req.ts)
     IN \/ valid /\ h' = [h EXCEPT ![hd].pc = "waiting"]
        \/ h' = [h EXCEPT ![hd] = Idle]
  /\ UNCHANGED <<snap, consumed, store, cache, lock, signed, accepted>>

NewState(p) == [policy |-> p, last |-> 0, auths |-> [e \in Event |-> None], nonces |-> {}]

\* Broken variant: the durable state is not consulted.
RuleUncached(r) == cache[r] = None

RuleUnknown(r) == cache[r] = None /\ store[r] = None

CreateSave(hd) ==
  LET req == h[hd].req IN
  /\ h[hd].pc = "waiting" /\ req.op = "create" /\ lock = None
  /\ RuleUnknown(req.rule)
  /\ store' = [store EXCEPT ![req.rule] = NewState(req.policy)]
  /\ h' = [h EXCEPT ![hd].pc = "saved", ![hd].work = NewState(req.policy)]
  /\ lock' = hd
  /\ UNCHANGED <<snap, consumed, cache, signed, accepted>>

\* Broken variant: this return forgets to unlock.
CreateRefuseLocked(hd) ==
  /\ h[hd].pc = "waiting" /\ h[hd].req.op = "create" /\ lock = None
  /\ ~RuleUnknown(h[hd].req.rule)
  /\ h' = [h EXCEPT ![hd] = Idle] /\ lock' = hd
  /\ UNCHANGED <<snap, consumed, store, cache, signed, accepted>>

CreateRefuse(hd) ==
  /\ h[hd].pc = "waiting" /\ h[hd].req.op = "create" /\ lock = None
  /\ ~RuleUnknown(h[hd].req.rule)
  /\ h' = [h EXCEPT ![hd] = Idle]
  /\ UNCHANGED <<snap, consumed, store, cache, lock, signed, accepted>>

CreateAck(hd) ==
  /\ h[hd].pc = "saved" /\ h[hd].req.op = "create"
  /\ cache' = [cache EXCEPT ![h[hd].req.rule] = h[hd].work]
  /\ accepted' = accepted \cup {h[hd].req.policy}
  /\ h' = [h EXCEPT ![hd] = Idle]
  /\ lock' = None
  /\ UNCHANGED <<snap, consumed, store, signed>>

-----------------------------------------------------------------------------
(* EVALUATE_GUARD *)

ReceiveEvaluate(hd, r, e, n, ts) ==
  /\ h[hd].pc = "idle"
  /\ ts # 0
  /\ h' = [h EXCEPT ![hd] = [pc |-> "waiting", work |-> None,
             req |-> [op |-> "evaluate", rule |-> r, ts |-> ts, event |-> e, nonce |-> n]]]
  /\ UNCHANGED <<snap, consumed, store, cache, lock, signed, accepted>>

\* The cached state, else the stored one.
Known(r) == IF cache[r] # None THEN cache[r] ELSE store[r]

Unexpired(s, ts) == ts <= s.policy.expires
\* Broken variant: nonces are not checked.
NonceIgnored(s, n) == TRUE

NonceUnused(s, n) == n \notin s.nonces

\* The mutex is taken and the state loaded (and cached) and copied; an unknown
\* rule, an expired policy or a used nonce is refused.
EvalBegin(hd) ==
  LET req == h[hd].req
      s == Known(req.rule)
  IN
  /\ h[hd].pc = "waiting" /\ req.op = "evaluate" /\ lock = None
  /\ cache' = [cache EXCEPT ![req.rule] = s]
  /\ IF s # None /\ Unexpired(s, req.ts) /\ NonceUnused(s, req.nonce)
       THEN h' = [h EXCEPT ![hd].pc = "reading", ![hd].work = s] /\ lock' = hd
       ELSE h' = [h EXCEPT ![hd] = Idle] /\ lock' = lock
  /\ UNCHANGED <<snap, consumed, store, signed, accepted>>

\* The decision for an event seen for the first time.
\* Broken variant: one second short.
CoolingDownShort(s, ts) == s.last > 0 /\ ts + 1 < Wrap(s.last + s.policy.cooldown)

CoolingDown(s, ts) == s.last > 0 /\ ts < Wrap(s.last + s.policy.cooldown)

Triggers(s, value, ts) ==
  /\ value > s.policy.threshold
  /\ s.policy.cap > 0 => value <= s.policy.cap
  /\ ~CoolingDown(s, ts)

Share(value, bps) == (value * bps) \div BpsWhole

Decide(s, value, ts) ==
  IF Triggers(s, value, ts)
    THEN [value |-> value, triggered |-> TRUE, protected |-> Share(value, s.policy.bps),
          bps |-> s.policy.bps, lastExpiry |-> Wrap(ts + Validity), at |-> ts]
    ELSE [value |-> value, triggered |-> FALSE, protected |-> 0,
          bps |-> 0, lastExpiry |-> Wrap(ts + Validity), at |-> ts]

\* Broken variant: the window is not looked at.
MayRefreshEarly(a, value, ts) == value = a.value

\* A further authorization only moves the window, strictly past the last one.
WindowOver(a, ts) == ts > a.lastExpiry

MayRefresh(a, value, ts) == value = a.value /\ WindowOver(a, ts)

Refresh(a, ts) == [a EXCEPT !.lastExpiry = Wrap(ts + Validity)]

\* Broken variant: an event seen before is decided anew.
EvaluatedAfresh(s, value, req) ==
  LET b == Decide(s, value, req.ts)
  IN [s EXCEPT !.auths = [@ EXCEPT ![req.event] = b],
               !.last = IF b.triggered THEN req.ts ELSE @,
               !.nonces = @ \cup {req.nonce}]

\* The working copy after the decision.
Evaluated(s, value, req) ==
  LET a == s.auths[req.event]
      fresh == a = None
      b == IF fresh THEN Decide(s, value, req.ts) ELSE Refresh(a, req.ts)
  IN [s EXCEPT !.auths = [@ EXCEPT ![req.event] = b],
               !.last = IF fresh /\ b.triggered THEN req.ts ELSE @,
               !.nonces = @ \cup {req.nonce}]

\* One batch of two calls; getEvaluationSnapshot reverts for an event that was
\* never prepared, which fails the batch.
Prepared(e) == snap[e] # None

GetSnapshot(e) ==
  [rule |-> snap[e].rule, value |-> snap[e].value, consumed |-> e \in consumed]

\* The request goes on when the chain allows it.
Readable(req) ==
  Prepared(req.event) /\
    LET s == GetSnapshot(req.event) IN s.rule = req.rule /\ s.value > 0 /\ ~s.consumed

EvalRead(hd) ==
  LET req == h[hd].req
      s == h[hd].work
  IN
  /\ h[hd].pc = "reading"
  /\ Readable(req)
  /\ s.auths[req.event] # None =>
       MayRefresh(s.auths[req.event], snap[req.event].value, req.ts)
  /\ h' = [h EXCEPT ![hd].pc = "saving",
                    ![hd].work = Evaluated(s, snap[req.event].value, req)]
  /\ UNCHANGED <<snap, consumed, store, cache, lock, signed, accepted>>

\* Broken variant: the state before the evaluation is written.
EvalSaveOld(hd) ==
  /\ h[hd].pc = "saving"
  /\ store' = [store EXCEPT ![h[hd].req.rule] = cache[h[hd].req.rule]]
  /\ h' = [h EXCEPT ![hd].pc = "saved"]
  /\ UNCHANGED <<snap, consumed, cache, lock, signed, accepted>>

EvalSave(hd) ==
  /\ h[hd].pc = "saving"
  /\ store' = [store EXCEPT ![h[hd].req.rule] = h[hd].work]
  /\ h' = [h EXCEPT ![hd].pc = "saved"]
  /\ UNCHANGED <<snap, consumed, cache, lock, signed, accepted>>

ResultOf(req, s) ==
  LET a == s.auths[req.event]
  IN [rule |-> req.rule, event |-> req.event, nonce |-> req.nonce, at |-> req.ts,
      expiry |-> a.lastExpiry, value |-> a.value, triggered |-> a.triggered,
      protected |-> a.protected, bps |-> a.bps]

EvalAck(hd) ==
  /\ h[hd].pc = "saved" /\ h[hd].req.op = "evaluate"
  /\ cache' = [cache EXCEPT ![h[hd].req.rule] = h[hd].work]
  /\ signed' = signed \cup {ResultOf(h[hd].req, h[hd].work)}
  /\ h' = [h EXCEPT ![hd] = Idle]
  /\ lock' = None
  /\ UNCHANGED <<snap, consumed, store, accepted>>

-----------------------------------------------------------------------------
(* Failures and surroundings *)

\* The request ends with an error and the mutex is released: the chain cannot
\* be read or what it says refuses the request, the store cannot be read or
\* written, or the answer to a write is lost after the write.  The store in the
\* process's own memory does not fail.
Fail(hd) ==
  /\ \/ h[hd].pc = "reading"
     \/ h[hd].pc = "waiting" /\ lock = None /\ Durable /\ cache[h[hd].req.rule] = None
     \/ h[hd].pc \in {"saving", "saved"} /\ Durable
  /\ h' = [h EXCEPT ![hd] = Idle]
  /\ lock' = None
  /\ UNCHANGED <<snap, consumed, store, cache, signed, accepted>>

\* The process is killed and starts again: its memory is lost, and with it a
\* store kept there.
Crash ==
  /\ h' = [hd \in Handler |-> Idle]
  /\ cache' = [r \in Rule |-> None]
  /\ store' = IF Durable THEN store ELSE [r \in Rule |-> None]
  /\ lock' = None
  /\ UNCHANGED <<snap, consumed, signed, accepted>>

\* GuardManager: prepareGuardEvaluation stores a snapshot once, executeGuard
\* consumes a signed event.
Prepare(e, r, v) ==
  /\ snap[e] = None
  /\ snap' = [snap EXCEPT ![e] = [rule |-> r, value |-> v]]
  /\ UNCHANGED <<consumed, store, cache, lock, h, signed, accepted>>

Consume(e) ==
  /\ e \notin consumed
  /\ \E r \in signed : r.event = e
  /\ consumed' = consumed \cup {e}
  /\ UNCHANGED <<snap, store, cache, lock, h, signed, accepted>>

Serve(hd) ==
  \/ Decrypt(hd) \/ CreateSave(hd) \/ CreateRefuse(hd) \/ CreateAck(hd)
  \/ EvalBegin(hd) \/ EvalRead(hd) \/ EvalSave(hd) \/ EvalAck(hd)
  \/ Fail(hd)

Next ==
  \/ \E hd \in Handler :
       \/ \E p \in Policies, ts \in 0..MaxTime : ReceiveCreate(hd, p, ts)
       \/ \E r \in Rule, e \in Event, n \in Nonce, ts \in 0..MaxTime :
            ReceiveEvaluate(hd, r, e, n, ts)
       \/ Serve(hd)
  \/ Crash
  \/ \E e \in Event, r \in Rule, v \in Values : Prepare(e, r, v)
  \/ \E e \in Event : Consume(e)

Spec == Init /\ [][Next]_vars

\* The chain, the store and the TEE node answer or fail in the end, and the
\* mutex is granted to every goroutine that keeps asking for it.
Fairness == \A hd \in Handler : SF_vars(Serve(hd))
FairSpec == Spec /\ Fairness

-----------------------------------------------------------------------------
(* Properties *)

\* Two results released for one event never overlap in time, whichever
\* requests race, arrive late, are retried after a lost answer or follow a
\* restart: GuardManager honours a result through its expiry, inclusive.
NoOverlap ==
  \A r, s \in signed :
    r.event = s.event /\ r # s => r.expiry < s.at \/ s.expiry < r.at

\* Every result ever released for an event states the same decision under the
\* same rule (the authorization frozen by processEvaluateGuard).
Outcome(r) == <<r.rule, r.value, r.triggered, r.protected, r.bps>>

FrozenOutcome ==
  \A r, s \in signed : r.event = s.event => Outcome(r) = Outcome(s)

\* A nonce serves one result of a rule (UsedNonces).
NonceOnce ==
  \A r, s \in signed : r.rule = s.rule /\ r.nonce = s.nonce => r = s

\* The state of a rule remembers a released result.
Covers(s, r) ==
  /\ s.auths[r.event] # None
  /\ LET a == s.auths[r.event]
     IN /\ <<r.value, r.triggered, r.protected, r.bps>>
             = <<a.value, a.triggered, a.protected, a.bps>>
        /\ r.expiry <= a.lastExpiry
  /\ r.nonce \in s.nonces

\* Nothing is released before the store holds it, and no later write, by a
\* handler that worked on an older copy or after a failed write, loses it
\* (Save before the cache and the answer; clonePolicyState).
SignedIsDurable ==
  Durable => \A r \in signed : store[r.rule] # None /\ Covers(store[r.rule], r)

\* A policy acknowledged to its owner is the policy of its rule from then on:
\* of two creations that race, or one retried after an error, one is accepted
\* and it is not replaced (the two existence checks of processCreatePolicy).
AcceptedPolicyStands ==
  Durable => \A p \in accepted : store[p.rule] # None /\ store[p.rule].policy = p

\* Two events of a rule that both triggered were decided at least the cooldown
\* apart in trusted time, in whatever order their instructions arrived.
Spaced(s) ==
  \A e, f \in Event :
    /\ e # f /\ s.auths[e] # None /\ s.auths[f] # None
    /\ s.auths[e].triggered /\ s.auths[f].triggered
    /\ s.auths[e].at <= s.auths[f].at
    => s.auths[e].at + s.policy.cooldown <= s.auths[f].at

CooldownRespected == \A r \in Rule : store[r] # None => Spaced(store[r])

\* The inductive invariant behind the safety properties, for a durable store.
\* Whoever holds the mutex works on a copy that remembers every released result
\* of its rule (WorkRemembers), so that writing it back loses nothing; before it
\* writes, the result it will release is known to be disjoint from them
\* (NewResultFits), and the store already holds what "saved" releases.
MutexHeld == \A hd \in Handler : h[hd].pc \in Locked => lock = hd

RequestShape ==
  \A hd \in Handler :
    /\ h[hd].pc = "decrypting" => h[hd].req \in CreateRequest
    /\ h[hd].pc \in {"waiting", "saved"} => h[hd].req \in Request
    /\ h[hd].pc \in {"reading", "saving"} => h[hd].req \in EvalRequest
    /\ h[hd].pc \in Locked => h[hd].work \in PolicyState

Remembers(s, rule) == \A r \in signed : r.rule = rule => Covers(s, r)

StoreRemembers == \A r \in signed : store[r.rule] # None /\ Covers(store[r.rule], r)
CacheRemembers == \A r \in Rule : cache[r] # None => Remembers(cache[r], r)

WorkRemembers ==
  \A hd \in Handler :
    h[hd].pc \in Locked => Remembers(h[hd].work, h[hd].req.rule)

NonceFresh ==
  \A hd \in Handler :
    h[hd].pc = "reading" => h[hd].req.nonce \notin h[hd].work.nonces

NewResultFits ==
  \A hd \in Handler :
    LET req == h[hd].req
        a == h[hd].work.auths[req.event]
    IN h[hd].pc \in {"saving", "saved"} /\ req \in EvalRequest =>
         /\ a # None /\ req.nonce \in h[hd].work.nonces
         /\ snap[req.event] # None
         /\ snap[req.event].rule = req.rule /\ snap[req.event].value = a.value
         /\ \A r \in signed : r.rule = req.rule =>
              /\ r.nonce # req.nonce
              /\ r.event = req.event => r.expiry < req.ts

SavedIsStored ==
  \A hd \in Handler : h[hd].pc = "saved" => store[h[hd].req.rule] = h[hd].work

SignedFollowsSnapshot ==
  \A r \in signed : /\ snap[r.event] # None
                    /\ snap[r.event].rule = r.rule /\ snap[r.event].value = r.value

IInv ==
  /\ TypeOK /\ MutexHeld /\ RequestShape
  /\ StoreRemembers /\ CacheRemembers /\ WorkRemembers
  /\ NonceFresh /\ NewResultFits /\ SavedIsStored /\ SignedFollowsSnapshot
  /\ NoOverlap /\ FrozenOutcome /\ NonceOnce

\* No path of a handler leaves the mutex locked: every request is answered as
\* long as the chain and the store answer or fail.
EveryRequestEnds == \A hd \in Handler : h[hd].pc # "idle" ~> h[hd].pc = "idle"

=============================================================================

------------------------- MODULE FccExtensionProofs -------------------------
(***************************************************************************)
(* Proofs about FccExtension: with a durable store, no interleaving of     *)
(* handlers, lost answer, late instruction or restart makes the extension  *)
(* release two authorizations of one event that overlap or disagree, or    *)
(* use a nonce twice; the store remembers whatever was released; an        *)
(* acknowledged policy is never replaced; and triggered decisions of a     *)
(* rule are a cooldown apart, unless the cooldown wraps.                   *)
(***************************************************************************)
EXTENDS FccExtension, ArithmeticProofs, TLAPS

-----------------------------------------------------------------------------
(* The algebra of one rule's state *)

LEMMA WindowEnd ==
  ASSUME NEW ts \in 0..MaxTime
  PROVE  Wrap(ts + Validity) = ts + Validity
<1>1. ts + Validity \in Nat /\ ts + Validity < Word /\ Word \in Nat \ {0}
  BY FccAssumption
<1> QED
  BY <1>1 DEF Wrap

LEMMA DecideTyped ==
  ASSUME NEW s \in PolicyState, NEW v \in Nat, NEW ts \in 0..MaxTime
  PROVE  /\ Decide(s, v, ts) \in Auth
         /\ Decide(s, v, ts).value = v
         /\ Decide(s, v, ts).lastExpiry = ts + Validity
<1>1. Share(v, s.policy.bps) \in Nat
  <2>1. v * s.policy.bps \in Nat /\ BpsWhole \in Nat \ {0}
    BY FccAssumption DEF PolicyState, Policy
  <2> QED
    BY <2>1, QuotientBounds DEF Share
<1>2. Wrap(ts + Validity) = ts + Validity /\ ts + Validity \in Nat /\ ts \in Nat
  BY WindowEnd, FccAssumption
<1>3. s.policy.bps \in Nat
  BY DEF PolicyState, Policy
<1> QED
  BY <1>1, <1>2, <1>3 DEF Decide, Auth

LEMMA RefreshTyped ==
  ASSUME NEW a \in Auth, NEW ts \in 0..MaxTime
  PROVE  /\ Refresh(a, ts) \in Auth
         /\ Refresh(a, ts).lastExpiry = ts + Validity
         /\ Refresh(a, ts).value = a.value
         /\ Refresh(a, ts).triggered = a.triggered
         /\ Refresh(a, ts).protected = a.protected
         /\ Refresh(a, ts).bps = a.bps
  BY WindowEnd, FccAssumption DEF Refresh, Auth

LEMMA EvaluatedTyped ==
  ASSUME NEW s \in PolicyState, NEW v \in Nat, NEW req \in EvalRequest,
         s.auths[req.event] # None => MayRefresh(s.auths[req.event], v, req.ts)
  PROVE  LET t == Evaluated(s, v, req)
         IN /\ t \in PolicyState
            /\ req.nonce \in t.nonces /\ s.nonces \subseteq t.nonces
            /\ \A e \in Event : e # req.event => t.auths[e] = s.auths[e]
            /\ t.auths[req.event] # None
            /\ t.auths[req.event].value = v
            /\ t.auths[req.event].lastExpiry = req.ts + Validity
            /\ s.auths[req.event] # None =>
                 t.auths[req.event] = Refresh(s.auths[req.event], req.ts)
<1> DEFINE a == s.auths[req.event]
           b == IF a = None THEN Decide(s, v, req.ts) ELSE Refresh(a, req.ts)
           t == Evaluated(s, v, req)
<1>1. req.event \in Event /\ req.nonce \in Nonce /\ req.ts \in 0..MaxTime /\ req.ts \in Nat
  BY FccAssumption DEF EvalRequest
<1>2. a \in Auth \cup {None}
  BY <1>1 DEF PolicyState
<1>3. /\ b \in Auth /\ b.value = v /\ b.lastExpiry = req.ts + Validity
  <2>1. CASE a = None
    BY <2>1, <1>1, DecideTyped
  <2>2. CASE a # None
    BY <2>2, <1>1, <1>2, RefreshTyped DEF MayRefresh
  <2> QED
    BY <2>1, <2>2
<1>4. b # None
  BY <1>3, NoneAssumption
<1> HIDE DEF b
<1>5. t = [s EXCEPT !.auths = [s.auths EXCEPT ![req.event] = b],
                    !.last = IF a = None /\ b.triggered THEN req.ts ELSE s.last,
                    !.nonces = s.nonces \cup {req.nonce}]
  BY DEF Evaluated, b
<1>6. t.auths = [s.auths EXCEPT ![req.event] = b] /\ t.nonces = s.nonces \cup {req.nonce}
  BY <1>5 DEF PolicyState
<1>7. t \in PolicyState
  <2>1. [s.auths EXCEPT ![req.event] = b] \in [Event -> Auth \cup {None}]
    BY <1>1, <1>3 DEF PolicyState
  <2>2. s.nonces \cup {req.nonce} \in SUBSET Nonce
    BY <1>1 DEF PolicyState
  <2>3. (IF a = None /\ b.triggered THEN req.ts ELSE s.last) \in Nat
    BY <1>1 DEF PolicyState
  <2> DEFINE x == [s.auths EXCEPT ![req.event] = b]
             y == s.nonces \cup {req.nonce}
             z == IF a = None /\ b.triggered THEN req.ts ELSE s.last
  <2>4. t = [s EXCEPT !.auths = x, !.last = z, !.nonces = y]
    BY <1>5
  <2> HIDE DEF x, y, z, t
  <2> QED
    BY <2>1, <2>2, <2>3, <2>4 DEF PolicyState, x, y, z
<1>8. t.auths[req.event] = b
  BY <1>1, <1>6 DEF PolicyState
<1>9. \A e \in Event : e # req.event => t.auths[e] = s.auths[e]
  BY <1>1, <1>6 DEF PolicyState
<1>10. a # None => b = Refresh(a, req.ts)
  BY DEF b
<1> QED
  BY <1>3, <1>4, <1>6, <1>7, <1>8, <1>9, <1>10

\* An evaluation keeps what the state remembers, since the window only moves
\* forward.
LEMMA EvaluatedCovers ==
  ASSUME NEW s \in PolicyState, NEW v \in Nat, NEW req \in EvalRequest,
         s.auths[req.event] # None => MayRefresh(s.auths[req.event], v, req.ts),
         NEW r \in Result, Covers(s, r)
  PROVE  /\ Covers(Evaluated(s, v, req), r)
         /\ r.event = req.event => r.expiry < req.ts
<1> DEFINE a == s.auths[req.event]
           t == Evaluated(s, v, req)
<1>1. /\ s.nonces \subseteq t.nonces
      /\ \A e \in Event : e # req.event => t.auths[e] = s.auths[e]
      /\ t.auths[req.event] # None
      /\ a # None => t.auths[req.event] = Refresh(a, req.ts)
  BY EvaluatedTyped
<1> HIDE DEF t
<1>2. CASE r.event = req.event
  <2>1. a # None /\ a \in Auth
    BY <1>2 DEF Covers, PolicyState, EvalRequest
  <2>2. r.expiry <= a.lastExpiry /\ a.lastExpiry < req.ts
    BY <2>1, <1>2 DEF Covers, MayRefresh, WindowOver, Auth, EvalRequest
  <2>3. r.expiry \in Nat /\ a.lastExpiry \in Nat /\ req.ts \in Nat /\ Validity \in Nat
    BY <2>1, FccAssumption DEF Result, Auth, EvalRequest
  <2>4. r.expiry < req.ts /\ r.expiry <= req.ts + Validity
    BY <2>2, <2>3
  <2>5. /\ t.auths[r.event].lastExpiry = req.ts + Validity
        /\ t.auths[r.event].value = a.value /\ t.auths[r.event].triggered = a.triggered
        /\ t.auths[r.event].protected = a.protected /\ t.auths[r.event].bps = a.bps
    BY <2>1, <1>1, <1>2, RefreshTyped DEF EvalRequest
  <2> QED
    BY <2>4, <2>5, <1>1, <1>2 DEF Covers, t
<1>3. CASE r.event # req.event
  BY <1>1, <1>3 DEF Covers, Result, t
<1> QED
  BY <1>2, <1>3

-----------------------------------------------------------------------------
(* The inductive invariant *)

LEMMA InitInvariant == Init => IInv
<1> SUFFICES ASSUME Init PROVE IInv
  OBVIOUS
<1>1. TypeOK
  BY NoneAssumption DEF Init, Idle, TypeOK, Locked
<1> QED
  BY <1>1 DEF Init, Idle, IInv, MutexHeld, RequestShape, StoreRemembers, CacheRemembers,
    Remembers, WorkRemembers, NonceFresh, NewResultFits, SavedIsStored,
    SignedFollowsSnapshot, NoOverlap, FrozenOutcome, NonceOnce, Locked

\* A step that moves one handler, which neither holds nor takes the mutex, and
\* touches nothing the rest of the invariant speaks of.
LEMMA QuietStep ==
  ASSUME IInv, NEW hd \in Handler, NEW x,
         x \in [pc : {"idle", "decrypting", "waiting"}, req : Request \cup {None},
                work : PolicyState \cup {None}],
         x.pc = "decrypting" => x.req \in CreateRequest,
         x.pc = "waiting" => x.req \in Request,
         h' = [h EXCEPT ![hd] = x],
         lock' \in {lock, None}, lock' = lock \/ h[hd].pc \in Locked \/ lock = None,
         UNCHANGED <<snap, consumed, store, cache, signed>>,
         accepted' \in SUBSET Policy
  PROVE  IInv'
<1> USE DEF IInv
<1>1. /\ h' \in [Handler -> [pc : {"idle", "decrypting", "waiting"} \cup Locked,
                        req : Request \cup {None}, work : PolicyState \cup {None}]]
      /\ h'[hd] = x
      /\ \A k \in Handler : k # hd => h'[k] = h[k]
      /\ x.pc \notin Locked
  BY DEF TypeOK, Locked
<1>2. TypeOK'
  BY <1>1 DEF TypeOK
<1>3. MutexHeld'
  BY <1>1 DEF MutexHeld
<1>4. RequestShape'
  BY <1>1 DEF RequestShape, Locked
<1>5. StoreRemembers' /\ CacheRemembers'
  BY DEF StoreRemembers, CacheRemembers, Remembers, Covers
<1>6. WorkRemembers'
  BY <1>1 DEF WorkRemembers, Remembers, Covers
<1>7. NonceFresh' /\ SavedIsStored'
  BY <1>1 DEF NonceFresh, SavedIsStored, Locked
<1>8. NewResultFits'
  BY <1>1 DEF NewResultFits, Locked
<1>9. SignedFollowsSnapshot' /\ NoOverlap' /\ FrozenOutcome' /\ NonceOnce'
  BY DEF SignedFollowsSnapshot, NoOverlap, FrozenOutcome, Outcome, NonceOnce
<1> QED
  BY <1>2, <1>3, <1>4, <1>5, <1>6, <1>7, <1>8, <1>9

LEMMA RequestTyped ==
  ASSUME IInv, NEW hd \in Handler, h[hd].pc # "idle"
  PROVE  /\ h[hd].req \in Request
         /\ h[hd].req.rule \in Rule /\ h[hd].req.ts \in 0..MaxTime
         /\ h[hd].req.op = "create" => h[hd].req \in CreateRequest
         /\ h[hd].req.op = "evaluate" => h[hd].req \in EvalRequest
<1>1. h[hd].pc \in {"idle", "decrypting", "waiting", "reading", "saving", "saved"}
  BY DEF IInv, TypeOK, Locked
<1>2. h[hd].req \in Request
  BY <1>1 DEF IInv, RequestShape, Request
<1> QED
  BY <1>2 DEF Request, CreateRequest, EvalRequest

LEMMA QuietActions ==
  ASSUME IInv, NEW hd \in Handler,
         \/ \E p \in Policies, ts \in 0..MaxTime : ReceiveCreate(hd, p, ts)
         \/ \E r \in Rule, e \in Event, n \in Nonce, ts \in 0..MaxTime :
              ReceiveEvaluate(hd, r, e, n, ts)
         \/ Decrypt(hd) \/ CreateRefuse(hd) \/ Fail(hd)
  PROVE  IInv'
<1>1. /\ h[hd] \in [pc : {"idle", "decrypting", "waiting"} \cup Locked,
                    req : Request \cup {None}, work : PolicyState \cup {None}]
      /\ accepted \in SUBSET Policy
  BY DEF IInv, TypeOK
<1>2. CASE \E p \in Policies, ts \in 0..MaxTime : ReceiveCreate(hd, p, ts)
  <2> PICK p \in Policies, ts \in 0..MaxTime : ReceiveCreate(hd, p, ts)
    BY <1>2
  <2> DEFINE q == [op |-> "create", rule |-> p.rule, ts |-> ts, policy |-> p]
             x == [pc |-> "decrypting", work |-> None, req |-> q]
  <2>1. q \in CreateRequest
    BY FccAssumption DEF CreateRequest, Policy
  <2>2. /\ x \in [pc : {"idle", "decrypting", "waiting"}, req : Request \cup {None},
                  work : PolicyState \cup {None}]
        /\ x.pc = "decrypting" /\ x.req \in CreateRequest
    BY <2>1 DEF Request
  <2>3. h' = [h EXCEPT ![hd] = x] /\ UNCHANGED <<snap, consumed, store, cache, lock, signed, accepted>>
    BY DEF ReceiveCreate
  <2> HIDE DEF x, q
  <2> QED
    BY <1>1, <2>2, <2>3, QuietStep
<1>3. CASE \E r \in Rule, e \in Event, n \in Nonce, ts \in 0..MaxTime :
             ReceiveEvaluate(hd, r, e, n, ts)
  <2> PICK r \in Rule, e \in Event, n \in Nonce, ts \in 0..MaxTime :
             ReceiveEvaluate(hd, r, e, n, ts)
    BY <1>3
  <2> DEFINE q == [op |-> "evaluate", rule |-> r, ts |-> ts, event |-> e, nonce |-> n]
             x == [pc |-> "waiting", work |-> None, req |-> q]
  <2>1. q \in EvalRequest
    BY DEF EvalRequest
  <2>2. /\ x \in [pc : {"idle", "decrypting", "waiting"}, req : Request \cup {None},
                  work : PolicyState \cup {None}]
        /\ x.pc = "waiting" /\ x.req \in Request
    BY <2>1 DEF Request
  <2>3. h' = [h EXCEPT ![hd] = x] /\ UNCHANGED <<snap, consumed, store, cache, lock, signed, accepted>>
    BY DEF ReceiveEvaluate
  <2> HIDE DEF x, q
  <2> QED
    BY <1>1, <2>2, <2>3, QuietStep
<1>4. Idle \in [pc : {"idle", "decrypting", "waiting"}, req : Request \cup {None},
               work : PolicyState \cup {None}] /\ Idle.pc = "idle"
  BY DEF Idle
<1>5. CASE Decrypt(hd)
  <2>1. CASE h' = [h EXCEPT ![hd] = Idle]
    BY <1>1, <1>4, <1>5, <2>1, QuietStep DEF Decrypt
  <2>2. CASE h' = [h EXCEPT ![hd].pc = "waiting"]
    <3> DEFINE x == [h[hd] EXCEPT !.pc = "waiting"]
    <3>1. /\ x \in [pc : {"idle", "decrypting", "waiting"}, req : Request \cup {None},
                    work : PolicyState \cup {None}]
          /\ x.pc = "waiting" /\ x.req \in Request
      BY <1>1, <1>5, RequestTyped DEF Decrypt
    <3>2. h' = [h EXCEPT ![hd] = x]
      BY <1>1, <2>2
    <3> HIDE DEF x
    <3> QED
      BY <1>1, <1>5, <3>1, <3>2, QuietStep DEF Decrypt
  <2> QED
    BY <1>5, <2>1, <2>2 DEF Decrypt
<1>6. CASE CreateRefuse(hd)
  BY <1>1, <1>4, <1>6, QuietStep DEF CreateRefuse
<1>7. CASE Fail(hd)
  <2>1. h[hd].pc \in Locked \/ lock = None
    BY <1>7 DEF Fail, Locked
  <2> QED
    BY <1>1, <1>4, <1>7, <2>1, QuietStep DEF Fail
<1> QED
  BY <1>2, <1>3, <1>5, <1>6, <1>7

\* No other handler stands inside the mutex.
LEMMA Alone ==
  ASSUME IInv, NEW hd \in Handler, lock = None \/ lock = hd,
         NEW k \in Handler, k # hd
  PROVE  h[k].pc \notin Locked
  BY NoneAssumption DEF IInv, MutexHeld

LEMMA CreateSavePreserves ==
  ASSUME IInv, NEW hd \in Handler, CreateSave(hd)
  PROVE  IInv'
<1> DEFINE req == h[hd].req
           s == NewState(req.policy)
<1>1. req \in CreateRequest /\ req \in Request /\ req.rule \in Rule /\ req.policy \in Policy
  BY RequestTyped DEF CreateSave, CreateRequest
<1>2. s \in PolicyState
  BY <1>1 DEF NewState, PolicyState
<1>3. /\ lock' = hd /\ lock = None
      /\ h[hd] \in [pc : {"idle", "decrypting", "waiting"} \cup Locked,
                    req : Request \cup {None}, work : PolicyState \cup {None}]
      /\ h'[hd] = [h[hd] EXCEPT !.pc = "saved", !.work = s]
      /\ \A k \in Handler : k # hd => h'[k] = h[k] /\ h[k].pc \notin Locked
      /\ UNCHANGED <<snap, consumed, cache, signed, accepted>>
  BY Alone DEF CreateSave, IInv, TypeOK
<1>4. /\ h'[hd].pc = "saved" /\ h'[hd].work = s /\ h'[hd].req = req
  BY <1>3
<1>5. cache[req.rule] = None /\ store[req.rule] = None
  BY DEF CreateSave, RuleUnknown
<1>6. store' = [store EXCEPT ![req.rule] = s]
  BY DEF CreateSave
<1>7. \A r \in signed : r.rule # req.rule
  BY <1>5 DEF IInv, StoreRemembers
<1> HIDE DEF s, req
<1>8. TypeOK'
  <2>1. store' \in [Rule -> PolicyState \cup {None}]
    BY <1>1, <1>2, <1>6 DEF IInv, TypeOK
  <2>2. [h[hd] EXCEPT !.pc = "saved", !.work = s]
          \in [pc : {"idle", "decrypting", "waiting"} \cup Locked,
              req : Request \cup {None}, work : PolicyState \cup {None}]
    BY <1>2, <1>3 DEF Locked
  <2>3. h' = [h EXCEPT ![hd] = [h[hd] EXCEPT !.pc = "saved", !.work = s]]
    BY DEF CreateSave, IInv, TypeOK, s, req
  <2>4. h' \in [Handler -> [pc : {"idle", "decrypting", "waiting"} \cup Locked,
                          req : Request \cup {None}, work : PolicyState \cup {None}]]
    BY <2>2, <2>3 DEF IInv, TypeOK
  <2> QED
    BY <1>3, <2>1, <2>4 DEF IInv, TypeOK
<1>9. MutexHeld'
  BY <1>3 DEF MutexHeld
<1>10. RequestShape'
  BY <1>1, <1>2, <1>3, <1>4 DEF IInv, RequestShape, Locked
<1>11. StoreRemembers'
  BY <1>1, <1>3, <1>6, <1>7 DEF IInv, TypeOK, StoreRemembers, Covers
<1>12. CacheRemembers'
  BY <1>3 DEF IInv, CacheRemembers, Remembers, Covers
<1>13. WorkRemembers' /\ NonceFresh'
  BY <1>3, <1>4, <1>7 DEF WorkRemembers, Remembers, NonceFresh, Locked
<1>14. NewResultFits'
  <2>1. req \notin EvalRequest
    BY <1>1 DEF CreateRequest, EvalRequest
  <2> QED
    BY <2>1, <1>3, <1>4 DEF NewResultFits, Locked
<1>15. SavedIsStored'
  <2>1. store'[req.rule] = s
    BY <1>1, <1>6 DEF IInv, TypeOK
  <2> QED
    BY <2>1, <1>3, <1>4 DEF SavedIsStored, Locked
<1>16. SignedFollowsSnapshot' /\ NoOverlap' /\ FrozenOutcome' /\ NonceOnce'
  BY <1>3 DEF IInv, SignedFollowsSnapshot, NoOverlap, FrozenOutcome, Outcome, NonceOnce
<1> QED
  BY <1>8, <1>9, <1>10, <1>11, <1>12, <1>13, <1>14, <1>15, <1>16 DEF IInv

LEMMA CreateAckPreserves ==
  ASSUME IInv, NEW hd \in Handler, CreateAck(hd)
  PROVE  IInv'
<1> DEFINE req == h[hd].req
           s == h[hd].work
<1>1. req \in CreateRequest /\ req.rule \in Rule /\ req.policy \in Policy
  BY RequestTyped DEF CreateAck, CreateRequest
<1>2. h[hd].pc \in Locked /\ lock = hd /\ s \in PolicyState /\ Remembers(s, req.rule)
  BY DEF CreateAck, IInv, MutexHeld, RequestShape, WorkRemembers, Locked
<1>3. /\ lock' = None /\ cache' = [cache EXCEPT ![req.rule] = s]
      /\ h' = [h EXCEPT ![hd] = Idle] /\ Idle.pc = "idle"
      /\ accepted' = accepted \cup {req.policy}
      /\ UNCHANGED <<snap, consumed, store, signed>>
  BY DEF CreateAck, Idle
<1>4. /\ h'[hd] = Idle
      /\ \A k \in Handler : k # hd => h'[k] = h[k] /\ h[k].pc \notin Locked
  BY <1>2, <1>3, Alone DEF IInv, TypeOK
<1> HIDE DEF s, req
<1>5. TypeOK'
  <2>1. cache' \in [Rule -> PolicyState \cup {None}]
    BY <1>1, <1>2, <1>3 DEF IInv, TypeOK
  <2>2. Idle \in [pc : {"idle", "decrypting", "waiting"} \cup Locked,
                 req : Request \cup {None}, work : PolicyState \cup {None}]
    BY DEF Idle
  <2> QED
    BY <1>1, <1>3, <2>1, <2>2 DEF IInv, TypeOK
<1>6. MutexHeld' /\ RequestShape' /\ WorkRemembers' /\ NonceFresh' /\ NewResultFits'
        /\ SavedIsStored'
  BY <1>3, <1>4 DEF IInv, MutexHeld, RequestShape, WorkRemembers, NonceFresh,
    NewResultFits, SavedIsStored, Locked
<1>7. StoreRemembers'
  BY <1>3 DEF IInv, StoreRemembers, Covers
<1>8. CacheRemembers'
  <2>1. \A r \in Rule : cache'[r] = IF r = req.rule THEN s ELSE cache[r]
    BY <1>1, <1>3 DEF IInv, TypeOK
  <2> QED
    BY <1>2, <1>3, <2>1 DEF IInv, CacheRemembers, Remembers, Covers
<1>9. SignedFollowsSnapshot' /\ NoOverlap' /\ FrozenOutcome' /\ NonceOnce'
  BY <1>3 DEF IInv, SignedFollowsSnapshot, NoOverlap, FrozenOutcome, Outcome, NonceOnce
<1> QED
  BY <1>5, <1>6, <1>7, <1>8, <1>9 DEF IInv

\* Whatever copy of a rule's state an evaluation starts from, it remembers
\* every released result.
LEMMA EvalBeginPreserves ==
  ASSUME IInv, NEW hd \in Handler, EvalBegin(hd)
  PROVE  IInv'
<1> DEFINE req == h[hd].req
           s == Known(req.rule)
<1>1. /\ req \in EvalRequest /\ req \in Request /\ req.rule \in Rule
  BY RequestTyped DEF EvalBegin
<1>2. s \in PolicyState \cup {None}
  BY <1>1 DEF Known, IInv, TypeOK
<1>3. s # None => Remembers(s, req.rule)
  BY <1>1 DEF Known, IInv, CacheRemembers, StoreRemembers, Remembers
<1>4. /\ lock = None /\ h[hd].pc = "waiting"
      /\ cache' = [cache EXCEPT ![req.rule] = s]
      /\ UNCHANGED <<snap, consumed, store, signed, accepted>>
  BY DEF EvalBegin
<1>5. \/ /\ s # None /\ NonceUnused(s, req.nonce)
         /\ h' = [h EXCEPT ![hd].pc = "reading", ![hd].work = s] /\ lock' = hd
      \/ h' = [h EXCEPT ![hd] = Idle] /\ lock' = None
  BY <1>4 DEF EvalBegin
<1> DEFINE x == [h[hd] EXCEPT !.pc = "reading", !.work = s]
<1>6. h[hd] \in [pc : {"idle", "decrypting", "waiting"} \cup Locked,
                req : Request \cup {None}, work : PolicyState \cup {None}]
  BY DEF IInv, TypeOK
<1>7. /\ x \in [pc : {"idle", "decrypting", "waiting"} \cup Locked,
                req : Request \cup {None}, work : PolicyState \cup {None}]
      /\ x.pc = "reading" /\ x.work = s /\ x.req = req
  BY <1>2, <1>6 DEF Locked
<1>8. \/ /\ s # None /\ NonceUnused(s, req.nonce)
         /\ h' = [h EXCEPT ![hd] = x] /\ lock' = hd
      \/ h' = [h EXCEPT ![hd] = Idle] /\ lock' = None
  BY <1>5, <1>6 DEF IInv, TypeOK
<1>9. \A k \in Handler : k # hd => h'[k] = h[k] /\ h[k].pc \notin Locked
  BY <1>4, <1>8, Alone DEF IInv, TypeOK
<1>10. \/ /\ s # None /\ NonceUnused(s, req.nonce) /\ h'[hd] = x /\ lock' = hd
       \/ h'[hd] = Idle /\ lock' = None
  BY <1>8 DEF IInv, TypeOK
<1>11. Idle.pc = "idle" /\ Idle \in [pc : {"idle", "decrypting", "waiting"} \cup Locked,
                req : Request \cup {None}, work : PolicyState \cup {None}]
  BY DEF Idle
<1> HIDE DEF s, req, x
<1>12. TypeOK'
  <2>1. cache' \in [Rule -> PolicyState \cup {None}]
    BY <1>1, <1>2, <1>4 DEF IInv, TypeOK
  <2>2. h' \in [Handler -> [pc : {"idle", "decrypting", "waiting"} \cup Locked,
                          req : Request \cup {None}, work : PolicyState \cup {None}]]
    BY <1>7, <1>8, <1>11 DEF IInv, TypeOK
  <2> QED
    BY <1>4, <1>8, <2>1, <2>2 DEF IInv, TypeOK
<1>13. MutexHeld' /\ SavedIsStored' /\ NewResultFits'
  BY <1>7, <1>9, <1>10, <1>11 DEF MutexHeld, SavedIsStored, NewResultFits, Locked
<1>14. RequestShape'
  BY <1>1, <1>2, <1>7, <1>9, <1>10, <1>11 DEF IInv, RequestShape, Locked
<1>15. NonceFresh'
  BY <1>7, <1>9, <1>10, <1>11 DEF NonceFresh, NonceUnused, Locked
<1>16. WorkRemembers'
  BY <1>3, <1>4, <1>7, <1>9, <1>10, <1>11 DEF WorkRemembers, Remembers, Covers, Locked
<1>17. StoreRemembers'
  BY <1>4 DEF IInv, StoreRemembers, Covers
<1>18. CacheRemembers'
  <2>1. \A r \in Rule : cache'[r] = IF r = req.rule THEN s ELSE cache[r]
    BY <1>1, <1>4 DEF IInv, TypeOK
  <2> QED
    BY <1>3, <1>4, <2>1 DEF IInv, CacheRemembers, Remembers, Covers
<1>19. SignedFollowsSnapshot' /\ NoOverlap' /\ FrozenOutcome' /\ NonceOnce'
  BY <1>4 DEF IInv, SignedFollowsSnapshot, NoOverlap, FrozenOutcome, Outcome, NonceOnce
<1> QED
  BY <1>12, <1>13, <1>14, <1>15, <1>16, <1>17, <1>18, <1>19 DEF IInv

LEMMA EvalReadPreserves ==
  ASSUME IInv, NEW hd \in Handler, EvalRead(hd)
  PROVE  IInv'
<1> DEFINE req == h[hd].req
           s == h[hd].work
           v == snap[req.event].value
           t == Evaluated(s, v, req)
<1>1. /\ h[hd].pc = "reading" /\ lock = hd /\ req \in EvalRequest /\ s \in PolicyState
      /\ Remembers(s, req.rule) /\ req.nonce \notin s.nonces
  BY DEF EvalRead, IInv, MutexHeld, RequestShape, WorkRemembers, NonceFresh, Locked
<1>2. req \in Request /\ req.rule \in Rule /\ req.event \in Event
  BY <1>1 DEF Request, EvalRequest
<1>3. /\ snap[req.event] # None /\ snap[req.event].rule = req.rule /\ v \in Nat
      /\ s.auths[req.event] # None => MayRefresh(s.auths[req.event], v, req.ts)
  BY <1>2 DEF EvalRead, Readable, Prepared, GetSnapshot, IInv, TypeOK, Snapshot
<1>4. /\ t \in PolicyState /\ req.nonce \in t.nonces
      /\ t.auths[req.event] # None /\ t.auths[req.event].value = v
  <2> HIDE DEF s, v, req
  <2> QED
    BY <1>1, <1>3, EvaluatedTyped
<1>5. \A r \in signed : r.rule = req.rule =>
        /\ Covers(t, r) /\ r.nonce # req.nonce
        /\ r.event = req.event => r.expiry < req.ts
  <2> TAKE r \in signed
  <2> HAVE r.rule = req.rule
  <2>1. r \in Result /\ Covers(s, r)
    BY <1>1 DEF IInv, TypeOK, Remembers
  <2>2. r.nonce # req.nonce
    BY <1>1, <2>1 DEF Covers
  <2> QED
    BY <1>1, <1>3, <2>1, <2>2, EvaluatedCovers
<1> DEFINE x == [h[hd] EXCEPT !.pc = "saving", !.work = t]
<1>6. h[hd] \in [pc : {"idle", "decrypting", "waiting"} \cup Locked,
                req : Request \cup {None}, work : PolicyState \cup {None}]
  BY DEF IInv, TypeOK
<1>7. h' = [h EXCEPT ![hd] = x]
  BY <1>6 DEF EvalRead, IInv, TypeOK
<1> HIDE DEF t
<1>8. /\ x \in [pc : {"idle", "decrypting", "waiting"} \cup Locked,
                req : Request \cup {None}, work : PolicyState \cup {None}]
      /\ x.pc = "saving" /\ x.work = t /\ x.req = req
  BY <1>4, <1>6 DEF Locked
<1>9. UNCHANGED <<snap, consumed, store, cache, lock, signed, accepted>>
  BY DEF EvalRead
<1> HIDE DEF x, s, req, v
<1>10. /\ h'[hd] = x
       /\ \A k \in Handler : k # hd => h'[k] = h[k] /\ h[k].pc \notin Locked
  BY <1>1, <1>7, Alone DEF IInv, TypeOK
<1>11. TypeOK'
  BY <1>7, <1>8, <1>9 DEF IInv, TypeOK
<1>12. MutexHeld' /\ NonceFresh' /\ SavedIsStored'
  BY <1>1, <1>8, <1>9, <1>10 DEF MutexHeld, NonceFresh, SavedIsStored, Locked
<1>13. RequestShape'
  BY <1>1, <1>2, <1>4, <1>8, <1>10 DEF IInv, RequestShape, Locked
<1>14. WorkRemembers'
  BY <1>5, <1>8, <1>9, <1>10 DEF WorkRemembers, Remembers, Covers, Locked
<1>15. NewResultFits'
  BY <1>3, <1>4, <1>5, <1>8, <1>9, <1>10 DEF NewResultFits, Locked, v
<1>16. StoreRemembers' /\ CacheRemembers'
  BY <1>9 DEF IInv, StoreRemembers, CacheRemembers, Remembers, Covers
<1>17. SignedFollowsSnapshot' /\ NoOverlap' /\ FrozenOutcome' /\ NonceOnce'
  BY <1>9 DEF IInv, SignedFollowsSnapshot, NoOverlap, FrozenOutcome, Outcome, NonceOnce
<1> QED
  BY <1>11, <1>12, <1>13, <1>14, <1>15, <1>16, <1>17 DEF IInv

\* Writing the working copy back forgets nothing that was released.
LEMMA EvalSavePreserves ==
  ASSUME IInv, NEW hd \in Handler, EvalSave(hd)
  PROVE  IInv'
<1> DEFINE req == h[hd].req
           t == h[hd].work
           x == [h[hd] EXCEPT !.pc = "saved"]
<1>1. /\ h[hd].pc = "saving" /\ lock = hd /\ req \in EvalRequest /\ t \in PolicyState
      /\ Remembers(t, req.rule)
  BY DEF EvalSave, IInv, MutexHeld, RequestShape, WorkRemembers, Locked
<1>2. req \in Request /\ req.rule \in Rule
  BY <1>1 DEF Request, EvalRequest
<1>3. h[hd] \in [pc : {"idle", "decrypting", "waiting"} \cup Locked,
                req : Request \cup {None}, work : PolicyState \cup {None}]
  BY DEF IInv, TypeOK
<1>4. /\ h' = [h EXCEPT ![hd] = x] /\ store' = [store EXCEPT ![req.rule] = t]
      /\ UNCHANGED <<snap, consumed, cache, lock, signed, accepted>>
  BY <1>3 DEF EvalSave, IInv, TypeOK
<1>5. /\ x \in [pc : {"idle", "decrypting", "waiting"} \cup Locked,
                req : Request \cup {None}, work : PolicyState \cup {None}]
      /\ x.pc = "saved" /\ x.work = t /\ x.req = req
  BY <1>3 DEF Locked
<1>6. NewResultFits
  BY DEF IInv
<1> HIDE DEF x
<1>7. /\ h'[hd] = x
      /\ \A k \in Handler : k # hd => h'[k] = h[k] /\ h[k].pc \notin Locked
  BY <1>1, <1>4, Alone DEF IInv, TypeOK
<1>8. NewResultFits'
  BY <1>1, <1>4, <1>5, <1>6, <1>7 DEF NewResultFits, Locked
<1> HIDE DEF t, req
<1>9. \A r \in Rule : store'[r] = IF r = req.rule THEN t ELSE store[r]
  BY <1>2, <1>4 DEF IInv, TypeOK
<1>10. TypeOK'
  <2>1. store' \in [Rule -> PolicyState \cup {None}]
    BY <1>1, <1>2, <1>4 DEF IInv, TypeOK
  <2> QED
    BY <1>4, <1>5, <2>1 DEF IInv, TypeOK
<1>11. MutexHeld' /\ NonceFresh'
  BY <1>1, <1>4, <1>5, <1>7 DEF MutexHeld, NonceFresh, Locked
<1>12. RequestShape'
  BY <1>1, <1>2, <1>5, <1>7 DEF IInv, RequestShape, Locked
<1>13. WorkRemembers'
  BY <1>1, <1>4, <1>5, <1>7 DEF WorkRemembers, Remembers, Covers, Locked
<1>14. SavedIsStored'
  BY <1>2, <1>5, <1>7, <1>9 DEF SavedIsStored, Locked
<1>15. StoreRemembers'
  <2> SUFFICES ASSUME NEW r \in signed
               PROVE  store'[r.rule] # None /\ Covers(store'[r.rule], r)
    BY <1>4 DEF StoreRemembers, Covers
  <2>1. r.rule \in Rule /\ store[r.rule] # None /\ Covers(store[r.rule], r)
    BY DEF IInv, TypeOK, Result, StoreRemembers
  <2>2. t # None /\ (r.rule = req.rule => Covers(t, r))
    BY <1>1, NoneAssumption DEF Remembers
  <2> QED
    BY <1>9, <2>1, <2>2
<1>16. CacheRemembers'
  BY <1>4 DEF IInv, CacheRemembers, Remembers, Covers
<1>17. SignedFollowsSnapshot' /\ NoOverlap' /\ FrozenOutcome' /\ NonceOnce'
  BY <1>4 DEF IInv, SignedFollowsSnapshot, NoOverlap, FrozenOutcome, Outcome, NonceOnce
<1> QED
  BY <1>8, <1>10, <1>11, <1>12, <1>13, <1>14, <1>15, <1>16, <1>17 DEF IInv

\* The release: the new result joins those released before it.
LEMMA EvalAckPreserves ==
  ASSUME IInv, NEW hd \in Handler, EvalAck(hd)
  PROVE  IInv'
<1> DEFINE req == h[hd].req
           t == h[hd].work
           a == t.auths[req.event]
           n == ResultOf(req, t)
<1>1. /\ h[hd].pc = "saved" /\ h[hd].pc \in Locked /\ lock = hd
      /\ t \in PolicyState /\ Remembers(t, req.rule) /\ store[req.rule] = t
  BY DEF EvalAck, IInv, MutexHeld, RequestShape, WorkRemembers, SavedIsStored, Locked
<1>2. /\ req \in EvalRequest /\ req.rule \in Rule /\ req.event \in Event
      /\ req.nonce \in Nonce /\ req.ts \in Nat
  BY <1>1, RequestTyped, FccAssumption DEF EvalAck, EvalRequest
<1>3. /\ a # None /\ req.nonce \in t.nonces
      /\ snap[req.event] # None
      /\ snap[req.event].rule = req.rule /\ snap[req.event].value = a.value
      /\ \A r \in signed : r.rule = req.rule =>
           /\ r.nonce # req.nonce
           /\ r.event = req.event => r.expiry < req.ts
  BY <1>1, <1>2 DEF IInv, NewResultFits
<1>4. a \in Auth
  BY <1>1, <1>2, <1>3 DEF PolicyState
<1>5. /\ cache' = [cache EXCEPT ![req.rule] = t] /\ signed' = signed \cup {n}
      /\ h' = [h EXCEPT ![hd] = Idle] /\ Idle.pc = "idle" /\ lock' = None
      /\ UNCHANGED <<snap, consumed, store, accepted>>
  BY DEF EvalAck, Idle
<1>6. /\ h'[hd] = Idle
      /\ \A k \in Handler : k # hd => h'[k] = h[k] /\ h[k].pc \notin Locked
  BY <1>1, <1>5, Alone DEF IInv, TypeOK
<1> HIDE DEF t, req
<1>7. /\ n \in Result
      /\ n.rule = req.rule /\ n.event = req.event /\ n.nonce = req.nonce /\ n.at = req.ts
      /\ n.value = a.value /\ n.triggered = a.triggered /\ n.protected = a.protected
      /\ n.bps = a.bps /\ n.expiry = a.lastExpiry
  BY <1>2, <1>4 DEF ResultOf, Result, Auth
<1>8. Covers(t, n)
  BY <1>3, <1>4, <1>7 DEF Covers, Auth
<1> HIDE DEF n
<1>9. \A r \in signed : r.event = req.event => r.rule = req.rule
  BY <1>3 DEF IInv, SignedFollowsSnapshot
<1>10. TypeOK'
  <2>1. cache' \in [Rule -> PolicyState \cup {None}]
    BY <1>1, <1>2, <1>5 DEF IInv, TypeOK
  <2>2. Idle \in [pc : {"idle", "decrypting", "waiting"} \cup Locked,
                 req : Request \cup {None}, work : PolicyState \cup {None}]
    BY DEF Idle
  <2> QED
    BY <1>5, <1>7, <2>1, <2>2 DEF IInv, TypeOK
<1>11. MutexHeld' /\ RequestShape' /\ WorkRemembers' /\ NonceFresh' /\ NewResultFits'
         /\ SavedIsStored'
  BY <1>5, <1>6 DEF IInv, MutexHeld, RequestShape, WorkRemembers, NonceFresh,
    NewResultFits, SavedIsStored, Locked
<1>12. StoreRemembers'
  <2>1. \A r \in signed : store[r.rule] # None /\ Covers(store[r.rule], r)
    BY DEF IInv, StoreRemembers
  <2>2. store[n.rule] # None /\ Covers(store[n.rule], n)
    BY <1>1, <1>7, <1>8, NoneAssumption
  <2> QED
    BY <1>5, <2>1, <2>2 DEF StoreRemembers, Covers
<1>13. CacheRemembers'
  <2>1. \A r \in Rule : cache'[r] = IF r = req.rule THEN t ELSE cache[r]
    BY <1>2, <1>5 DEF IInv, TypeOK
  <2>2. \A r \in signed' : r.rule = req.rule => Covers(t, r)
    BY <1>1, <1>5, <1>8 DEF Remembers
  <2>3. \A q \in Rule : q # req.rule /\ cache[q] # None =>
          \A r \in signed' : r.rule = q => Covers(cache[q], r)
    BY <1>5, <1>7 DEF IInv, CacheRemembers, Remembers
  <2> QED
    BY <2>1, <2>2, <2>3 DEF CacheRemembers, Remembers, Covers
<1>14. SignedFollowsSnapshot'
  BY <1>3, <1>5, <1>7 DEF IInv, SignedFollowsSnapshot
<1>15. NoOverlap'
  <2>1. \A r \in signed : r.event = n.event => r.expiry < n.at
    BY <1>3, <1>7, <1>9
  <2> QED
    BY <1>5, <2>1 DEF IInv, NoOverlap
<1>16. FrozenOutcome'
  <2>1. \A r \in signed : r.event = n.event => Outcome(r) = Outcome(n)
    BY <1>1, <1>7, <1>9 DEF Remembers, Covers, Outcome
  <2>2. \A r \in signed' : Outcome(r)' = Outcome(r)
    BY DEF Outcome
  <2> QED
    BY <1>5, <2>1 DEF IInv, FrozenOutcome, Outcome
<1>17. NonceOnce'
  <2>1. \A r \in signed : r.rule = n.rule => r.nonce # n.nonce
    BY <1>3, <1>7
  <2> QED
    BY <1>5, <2>1 DEF IInv, NonceOnce
<1> QED
  BY <1>10, <1>11, <1>12, <1>13, <1>14, <1>15, <1>16, <1>17 DEF IInv

\* A restart of a process with a durable store, and the chain's own steps.
LEMMA CrashPreserves ==
  ASSUME IInv, Durable, Crash
  PROVE  IInv'
<1>1. /\ h' = [hd \in Handler |-> Idle] /\ cache' = [r \in Rule |-> None] /\ lock' = None
      /\ UNCHANGED <<store, snap, consumed, signed, accepted>>
  BY DEF Crash
<1>2. \A hd \in Handler : h'[hd] = Idle /\ Idle.pc = "idle"
  BY <1>1 DEF Idle
<1>3. TypeOK'
  BY <1>1 DEF IInv, TypeOK, Idle
<1>4. MutexHeld' /\ RequestShape' /\ WorkRemembers' /\ NonceFresh' /\ NewResultFits'
        /\ SavedIsStored'
  BY <1>2 DEF MutexHeld, RequestShape, WorkRemembers, NonceFresh, NewResultFits,
    SavedIsStored, Locked
<1>5. StoreRemembers' /\ CacheRemembers'
  BY <1>1 DEF IInv, StoreRemembers, CacheRemembers, Covers
<1>6. SignedFollowsSnapshot' /\ NoOverlap' /\ FrozenOutcome' /\ NonceOnce'
  BY <1>1 DEF IInv, SignedFollowsSnapshot, NoOverlap, FrozenOutcome, Outcome, NonceOnce
<1> QED
  BY <1>3, <1>4, <1>5, <1>6 DEF IInv

LEMMA ChainPreserves ==
  ASSUME IInv,
         \/ \E e \in Event, r \in Rule, v \in Values : Prepare(e, r, v)
         \/ \E e \in Event : Consume(e)
  PROVE  IInv'
<1>1. UNCHANGED <<store, cache, lock, h, signed, accepted>>
  BY DEF Prepare, Consume
<1>2. /\ \A e \in Event : snap[e] # None => snap'[e] = snap[e]
      /\ snap' \in [Event -> Snapshot \cup {None}] /\ consumed' \in SUBSET Event
  <2>1. CASE \E e \in Event, r \in Rule, v \in Values : Prepare(e, r, v)
    BY <2>1, FccAssumption DEF Prepare, IInv, TypeOK, Snapshot
  <2>2. CASE \E e \in Event : Consume(e)
    BY <2>2 DEF Consume, IInv, TypeOK
  <2> QED
    BY <2>1, <2>2
<1>3. TypeOK'
  BY <1>1, <1>2 DEF IInv, TypeOK
<1>4. MutexHeld' /\ RequestShape' /\ WorkRemembers' /\ NonceFresh' /\ SavedIsStored'
        /\ StoreRemembers' /\ CacheRemembers'
  BY <1>1 DEF IInv, MutexHeld, RequestShape, WorkRemembers, Remembers, Covers, NonceFresh,
    SavedIsStored, StoreRemembers, CacheRemembers
<1>5. NewResultFits'
  <2>1. \A hd \in Handler : h[hd].req \in EvalRequest => h[hd].req.event \in Event
    BY DEF EvalRequest
  <2> QED
    BY <1>1, <1>2, <2>1 DEF IInv, NewResultFits
<1>6. SignedFollowsSnapshot'
  BY <1>1, <1>2 DEF IInv, TypeOK, Result, SignedFollowsSnapshot
<1>7. NoOverlap' /\ FrozenOutcome' /\ NonceOnce'
  BY <1>1 DEF IInv, NoOverlap, FrozenOutcome, Outcome, NonceOnce
<1> QED
  BY <1>3, <1>4, <1>5, <1>6, <1>7 DEF IInv

LEMMA StepInvariant ==
  ASSUME IInv, Durable, [Next]_vars
  PROVE  IInv'
<1>1. CASE UNCHANGED vars
  BY <1>1 DEF vars, IInv, TypeOK, MutexHeld, RequestShape, StoreRemembers, CacheRemembers,
    Remembers, Covers, WorkRemembers, NonceFresh, NewResultFits, SavedIsStored,
    SignedFollowsSnapshot, NoOverlap, FrozenOutcome, Outcome, NonceOnce
<1>2. CASE Crash
  BY <1>2, CrashPreserves
<1>3. CASE \E e \in Event, r \in Rule, v \in Values : Prepare(e, r, v)
  BY <1>3, ChainPreserves
<1>4. CASE \E e \in Event : Consume(e)
  BY <1>4, ChainPreserves
<1>5. ASSUME NEW hd \in Handler,
             \/ \E p \in Policies, ts \in 0..MaxTime : ReceiveCreate(hd, p, ts)
             \/ \E r \in Rule, e \in Event, n \in Nonce, ts \in 0..MaxTime :
                  ReceiveEvaluate(hd, r, e, n, ts)
             \/ Serve(hd)
      PROVE  IInv'
  BY <1>5, QuietActions, CreateSavePreserves, CreateAckPreserves, EvalBeginPreserves,
    EvalReadPreserves, EvalSavePreserves, EvalAckPreserves DEF Serve
<1> QED
  BY <1>1, <1>2, <1>3, <1>4, <1>5 DEF Next

-----------------------------------------------------------------------------
(* Theorems *)

\* The inductive invariant holds throughout, whatever the handlers, the store's
\* answers, restarts and instruction timestamps do.
THEOREM InductiveInvariant == Durable => (Spec => []IInv)
<1> SUFFICES ASSUME Durable PROVE Spec => []IInv
  OBVIOUS
<1>1. Init => IInv
  BY InitInvariant
<1>2. IInv /\ [Next]_vars => IInv'
  BY StepInvariant
<1> QED
  BY <1>1, <1>2, PTL DEF Spec

\* Every variable keeps its type.
THEOREM TypeCorrect == Durable => (Spec => []TypeOK)
<1>1. IInv => TypeOK
  BY DEF IInv
<1> QED
  BY <1>1, InductiveInvariant, PTL

\* Authorizations of one event never overlap (processEvaluateGuard's strict
\* comparison with LastExpiry, and the durable write before the release).
THEOREM WindowsNeverOverlap == Durable => (Spec => []NoOverlap)
<1>1. IInv => NoOverlap
  BY DEF IInv
<1> QED
  BY <1>1, InductiveInvariant, PTL

\* Every authorization of an event repeats its first decision.
THEOREM DecisionsAreFrozen == Durable => (Spec => []FrozenOutcome)
<1>1. IInv => FrozenOutcome
  BY DEF IInv
<1> QED
  BY <1>1, InductiveInvariant, PTL

\* A nonce is used for one result of its rule.
THEOREM NoncesAreUnique == Durable => (Spec => []NonceOnce)
<1>1. IInv => NonceOnce
  BY DEF IInv
<1> QED
  BY <1>1, InductiveInvariant, PTL

\* The durable store remembers everything that was released.
THEOREM ReleasesAreDurable == Durable => (Spec => []SignedIsDurable)
<1>1. IInv => SignedIsDurable
  BY DEF IInv, StoreRemembers, SignedIsDurable
<1> QED
  BY <1>1, InductiveInvariant, PTL

-----------------------------------------------------------------------------
(* Policies and cooldowns *)

\* The sum of the last trigger and the cooldown stays below 2^64.
CooldownsFit == \A p \in Policies : MaxTime + p.cooldown < Word

\* No event was triggered after the last trigger the state records, so that one
\* comparison keeps a new trigger clear of all of them.
UpToLast(s) ==
  \A e \in Event : s.auths[e] # None /\ s.auths[e].triggered =>
    s.auths[e].at > 0 /\ s.auths[e].at <= s.last

\* What every copy of a rule's state satisfies on its own.
StateFits(s) ==
  /\ s.policy \in Policies /\ s.last \in 0..MaxTime
  /\ CooldownsFit => UpToLast(s) /\ Spaced(s)

\* Every copy has the policy the store has for its rule.
SamePolicy(s, r) == store[r] # None /\ s.policy = store[r].policy

\* A handler's request is as it was received, and whoever holds the mutex works on
\* a copy that fits and, once it has stored a creation, holds the policy asked for.
Asked(x) ==
  /\ x.req.op = "create" => x.req.policy \in Policies /\ x.req.rule = x.req.policy.rule
  /\ x.req.op = "evaluate" => x.req.ts # 0

HandlerFits(x) ==
  /\ x.pc # "idle" => Asked(x)
  /\ x.pc \in Locked => StateFits(x.work) /\ SamePolicy(x.work, x.req.rule)
  /\ x.pc = "saved" /\ x.req.op = "create" => x.work.policy = x.req.policy

HandlersFit == \A hd \in Handler : HandlerFits(h[hd])
StoreFits == \A r \in Rule : store[r] # None => StateFits(store[r])
CacheFits == \A r \in Rule : cache[r] # None => StateFits(cache[r]) /\ SamePolicy(cache[r], r)

AcceptedFits ==
  \A p \in accepted : p.rule \in Rule /\ store[p.rule] # None /\ store[p.rule].policy = p

\* The inductive invariant, on top of IInv.
PolicyInv == HandlersFit /\ StoreFits /\ CacheFits /\ AcceptedFits

-----------------------------------------------------------------------------
(* One rule's state *)

LEMMA NewStateFits ==
  ASSUME NEW p \in Policies
  PROVE  StateFits(NewState(p)) /\ NewState(p).policy = p
<1>1. p \in Policy /\ MaxTime \in Nat
  BY FccAssumption
<1> QED
  BY <1>1 DEF NewState, StateFits, UpToLast, Spaced

\* A cooldown that is over really is: the sum it is compared with did not wrap.
LEMMA CooldownOver ==
  ASSUME NEW s \in PolicyState, StateFits(s), CooldownsFit, NEW ts \in 0..MaxTime,
         ~CoolingDown(s, ts), s.last > 0
  PROVE  s.last + s.policy.cooldown <= ts
<1>1. /\ s.policy \in Policies /\ s.policy.cooldown \in Nat /\ s.last \in Nat
      /\ MaxTime \in Nat /\ Word \in Nat \ {0} /\ s.last <= MaxTime
      /\ MaxTime + s.policy.cooldown < Word
  BY FccAssumption DEF StateFits, CooldownsFit, PolicyState, Policy
<1> DEFINE sum == s.last + s.policy.cooldown
<1>2. sum \in Nat /\ sum < Word
  BY <1>1
<1>3. sum % Word = sum
  <2> HIDE DEF sum
  <2> QED
    BY <1>1, <1>2
<1>4. ts >= sum
  <2>1. ~(ts < Wrap(sum))
    BY DEF CoolingDown
  <2> HIDE DEF sum
  <2> QED
    BY <1>1, <1>2, <1>3, <2>1 DEF Wrap
<1> QED
  BY <1>4

LEMMA EvaluatedFits ==
  ASSUME NEW s \in PolicyState, StateFits(s), NEW v \in Nat,
         NEW req \in EvalRequest, req.ts # 0,
         s.auths[req.event] # None => MayRefresh(s.auths[req.event], v, req.ts)
  PROVE  StateFits(Evaluated(s, v, req)) /\ Evaluated(s, v, req).policy = s.policy
<1> DEFINE a == s.auths[req.event]
           b == IF a = None THEN Decide(s, v, req.ts) ELSE Refresh(a, req.ts)
           t == Evaluated(s, v, req)
           new == a = None /\ b.triggered
           c == s.policy.cooldown
<1>1. /\ req.event \in Event /\ req.ts \in 0..MaxTime /\ req.ts \in Nat /\ MaxTime \in Nat
      /\ req.ts > 0
  BY FccAssumption DEF EvalRequest
<1>2. /\ s.policy \in Policies /\ s.last \in 0..MaxTime /\ c \in Nat
      /\ s.auths \in [Event -> Auth \cup {None}]
  BY DEF StateFits, PolicyState, Policy
<1>3. /\ t.policy = s.policy
      /\ t.last = IF new THEN req.ts ELSE s.last
      /\ t.auths = [s.auths EXCEPT ![req.event] = b]
  <2> DEFINE x == [s.auths EXCEPT ![req.event] = b]
             y == s.nonces \cup {req.nonce}
             z == IF new THEN req.ts ELSE s.last
  <2>1. t = [s EXCEPT !.auths = x, !.last = z, !.nonces = y]
    BY DEF Evaluated
  <2> HIDE DEF t, x, y, z
  <2>2. t.policy = s.policy /\ t.last = z /\ t.auths = x
    BY <2>1 DEF PolicyState
  <2> QED
    BY <2>2 DEF x, z
<1>4. /\ t.auths[req.event] = b
      /\ \A e \in Event : e # req.event => t.auths[e] = s.auths[e]
  BY <1>1, <1>2, <1>3
<1>5. t.last \in 0..MaxTime
  BY <1>1, <1>2, <1>3
<1>6. ASSUME CooldownsFit PROVE UpToLast(t) /\ Spaced(t)
  <2>1. UpToLast(s) /\ Spaced(s)
    BY <1>6 DEF StateFits
  <2>2. \A e \in Event : s.auths[e] # None => s.auths[e] \in Auth /\ s.auths[e].at \in Nat
    BY <1>2 DEF Auth
\* A first decision that triggers is later than every trigger by the cooldown.
  <2>3. CASE new
    <3>1. Triggers(s, v, req.ts) /\ b.at = req.ts
      BY <2>3 DEF Decide
    <3>2. ~CoolingDown(s, req.ts)
      BY <3>1 DEF Triggers
    <3>3. s.last = 0 \/ s.last + c <= req.ts
      BY <1>1, <1>2, <1>6, <3>2, CooldownOver
    <3> HIDE DEF b, t, c, a
    <3>4. \A e \in Event : s.auths[e] # None /\ s.auths[e].triggered =>
            /\ s.auths[e].at \in Nat /\ s.auths[e].at > 0 /\ s.auths[e].at <= s.last
            /\ s.auths[e].at + c <= req.ts /\ s.auths[e].at <= req.ts
      BY <1>1, <1>2, <2>1, <2>2, <3>3 DEF UpToLast
    <3>5. t.last = req.ts
      BY <1>3, <2>3
    <3>6. UpToLast(t)
      BY <1>1, <1>4, <3>1, <3>4, <3>5 DEF UpToLast
    <3>7. Spaced(t)
      <4> SUFFICES ASSUME NEW e \in Event, NEW f \in Event, e # f,
                          t.auths[e] # None, t.auths[f] # None,
                          t.auths[e].triggered, t.auths[f].triggered,
                          t.auths[e].at <= t.auths[f].at
                   PROVE  t.auths[e].at + c <= t.auths[f].at
        BY <1>3 DEF Spaced, c
      <4>1. CASE e # req.event /\ f # req.event
        BY <4>1, <1>4, <2>1 DEF Spaced, c
      <4>2. CASE f = req.event
        BY <4>2, <1>4, <3>1, <3>4
      <4>3. CASE e = req.event
        <5>1. /\ t.auths[f] = s.auths[f] /\ t.auths[e].at = req.ts
          BY <4>3, <1>4, <3>1
        <5>2. s.auths[f].at + c <= req.ts /\ req.ts <= s.auths[f].at /\ s.auths[f].at \in Nat
          BY <5>1, <3>4
        <5> QED
          BY <5>1, <5>2, <1>1, <1>2
      <4> QED
        BY <4>1, <4>2, <4>3
    <3> QED
      BY <3>6, <3>7
\* A refresh keeps the decision and its time; a release is not triggered.
  <2>4. CASE ~new
    <3>1. b.triggered => a # None /\ a.triggered /\ b.at = a.at
      <4>1. CASE a = None
        BY <4>1, <2>4
      <4>2. CASE a # None
        <5>1. a \in Auth
          BY <4>2, <1>1, <1>2
        <5> QED
          BY <4>2, <5>1 DEF Refresh, Auth
      <4> QED
        BY <4>1, <4>2
    <3> HIDE DEF b, t, c
    <3>2. \A e \in Event : t.auths[e] # None /\ t.auths[e].triggered =>
            s.auths[e] # None /\ s.auths[e].triggered /\ t.auths[e].at = s.auths[e].at
      BY <1>1, <1>4, <3>1
    <3>3. t.last = s.last
      BY <1>3, <2>4
    <3> QED
      BY <1>3, <2>1, <3>2, <3>3 DEF UpToLast, Spaced
  <2> QED
    BY <2>3, <2>4
<1> HIDE DEF t
<1> QED
  BY <1>2, <1>3, <1>5, <1>6 DEF StateFits, t

-----------------------------------------------------------------------------
(* The inductive invariant *)

LEMMA InitPolicy == Init => PolicyInv
  BY DEF Init, Idle, PolicyInv, HandlersFit, HandlerFits, StoreFits, CacheFits, AcceptedFits,
    Locked

\* What a step may do to each part of the state.
StoreStep ==
  \A r \in Rule : \/ store'[r] = store[r]
                  \/ /\ store'[r] # None /\ StateFits(store'[r])
                     /\ store[r] # None => store'[r].policy = store[r].policy

CacheStep ==
  \A r \in Rule : \/ cache'[r] = cache[r] \/ cache'[r] = None
                  \/ StateFits(cache'[r]) /\ SamePolicy(cache[r], r)'

HandlerStep ==
  \A k \in Handler : \/ h'[k] = h[k] /\ (h[k].pc \in Locked => h[k].req.rule \in Rule)
                     \/ h'[k] = Idle
                     \/ HandlerFits(h[k])'

AcceptedStep ==
  \A p \in accepted' :
    \/ p \in accepted
    \/ p.rule \in Rule /\ store'[p.rule] # None /\ store'[p.rule].policy = p

\* A stored state keeps its policy, and what is written fits.
LEMMA FittingStep ==
  ASSUME PolicyInv, StoreStep, CacheStep, HandlerStep, AcceptedStep
  PROVE  PolicyInv'
<1>1. \A r \in Rule : store[r] # None =>
        store'[r] # None /\ store'[r].policy = store[r].policy
  BY DEF StoreStep
<1>2. HandlersFit'
  <2> SUFFICES ASSUME NEW k \in Handler PROVE HandlerFits(h[k])'
    BY DEF HandlersFit
  <2>1. CASE h'[k] = h[k] /\ (h[k].pc \in Locked => h[k].req.rule \in Rule)
    <3>1. HandlerFits(h[k])
      BY DEF PolicyInv, HandlersFit
    <3> QED
      BY <1>1, <2>1, <3>1 DEF HandlerFits, Asked, SamePolicy
  <2>2. CASE h'[k] = Idle
    BY <2>2 DEF HandlerFits, Idle, Locked
  <2> QED
    BY <2>1, <2>2 DEF HandlerStep
<1>3. StoreFits'
  BY DEF PolicyInv, StoreFits, StoreStep
<1>4. CacheFits'
  BY <1>1 DEF PolicyInv, CacheFits, SamePolicy, CacheStep
<1>5. AcceptedFits'
  BY <1>1 DEF PolicyInv, AcceptedFits, AcceptedStep
<1> QED
  BY <1>2, <1>3, <1>4, <1>5 DEF PolicyInv

\* A step that moves one handler is a handler step when its new record fits.
LEMMA OthersStay ==
  ASSUME IInv, NEW hd \in Handler, NEW x, h' = [h EXCEPT ![hd] = x]
  PROVE  /\ h'[hd] = x
         /\ x = Idle \/ HandlerFits(h[hd])' => HandlerStep
<1>1. \A k \in Handler : h[k].pc \in Locked => h[k].req.rule \in Rule
  BY RequestTyped DEF Locked
<1>2. h'[hd] = x /\ \A k \in Handler : k # hd => h'[k] = h[k]
  BY DEF IInv, TypeOK
<1> QED
  BY <1>1, <1>2 DEF HandlerStep

LEMMA QuietPolicy ==
  ASSUME IInv, PolicyInv, NEW hd \in Handler,
         \/ \E p \in Policies, ts \in 0..MaxTime : ReceiveCreate(hd, p, ts)
         \/ \E r \in Rule, e \in Event, n \in Nonce, ts \in 0..MaxTime :
              ReceiveEvaluate(hd, r, e, n, ts)
         \/ Decrypt(hd) \/ CreateRefuse(hd) \/ Fail(hd)
  PROVE  PolicyInv'
<1>1. UNCHANGED <<store, cache, accepted>>
  BY DEF ReceiveCreate, ReceiveEvaluate, Decrypt, CreateRefuse, Fail
<1>2. ASSUME NEW x, h' = [h EXCEPT ![hd] = x], x = Idle \/ (x.pc \notin Locked /\ Asked(x))
      PROVE  PolicyInv'
  <2>1. x = Idle \/ HandlerFits(h[hd])'
    BY <1>2, OthersStay DEF HandlerFits, Asked, Locked
  <2>2. HandlerStep
    BY <1>2, <2>1, OthersStay
  <2>3. StoreStep /\ CacheStep /\ AcceptedStep
    BY <1>1 DEF StoreStep, CacheStep, AcceptedStep
  <2> QED
    BY <2>2, <2>3, FittingStep
<1>3. CASE \E p \in Policies, ts \in 0..MaxTime : ReceiveCreate(hd, p, ts)
  <2> PICK p \in Policies, ts \in 0..MaxTime : ReceiveCreate(hd, p, ts)
    BY <1>3
  <2> DEFINE x == [pc |-> "decrypting", work |-> None,
               req |-> [op |-> "create", rule |-> p.rule, ts |-> ts, policy |-> p]]
  <2>1. x.pc \notin Locked /\ Asked(x)
    BY DEF Locked, Asked
  <2>2. h' = [h EXCEPT ![hd] = x]
    BY DEF ReceiveCreate
  <2> HIDE DEF x
  <2> QED
    BY <1>2, <2>1, <2>2
<1>4. CASE \E r \in Rule, e \in Event, n \in Nonce, ts \in 0..MaxTime :
             ReceiveEvaluate(hd, r, e, n, ts)
  <2> PICK r \in Rule, e \in Event, n \in Nonce, ts \in 0..MaxTime :
             ReceiveEvaluate(hd, r, e, n, ts)
    BY <1>4
  <2> DEFINE x == [pc |-> "waiting", work |-> None,
               req |-> [op |-> "evaluate", rule |-> r, ts |-> ts, event |-> e, nonce |-> n]]
  <2>1. x.pc \notin Locked /\ Asked(x)
    BY DEF Locked, Asked, ReceiveEvaluate
  <2>2. h' = [h EXCEPT ![hd] = x]
    BY DEF ReceiveEvaluate
  <2> HIDE DEF x
  <2> QED
    BY <1>2, <2>1, <2>2
<1>5. CASE Decrypt(hd)
  <2> DEFINE x == [h[hd] EXCEPT !.pc = "waiting"]
  <2>1. h' = [h EXCEPT ![hd] = Idle] \/ h' = [h EXCEPT ![hd] = x]
    BY <1>5 DEF Decrypt, IInv, TypeOK
  <2>2. x.pc \notin Locked /\ Asked(x)
    <3>1. Asked(h[hd])
      BY <1>5 DEF Decrypt, PolicyInv, HandlersFit, HandlerFits
    <3>2. x.pc = "waiting" /\ x.req = h[hd].req
      BY DEF IInv, TypeOK
    <3> HIDE DEF x
    <3> QED
      BY <3>1, <3>2 DEF Asked, Locked
  <2> HIDE DEF x
  <2> QED
    BY <1>2, <2>1, <2>2
<1>6. CASE CreateRefuse(hd)
  BY <1>2, <1>6 DEF CreateRefuse
<1>7. CASE Fail(hd)
  BY <1>2, <1>7 DEF Fail
<1> QED
  BY <1>3, <1>4, <1>5, <1>6, <1>7

\* A rule is created where neither the store nor the cache knows it.
LEMMA CreateSavePolicy ==
  ASSUME IInv, PolicyInv, NEW hd \in Handler, CreateSave(hd)
  PROVE  PolicyInv'
<1> DEFINE req == h[hd].req
           s == NewState(req.policy)
           x == [h[hd] EXCEPT !.pc = "saved", !.work = s]
<1>1. req.rule \in Rule /\ req.policy \in Policies /\ Asked(h[hd])
  BY RequestTyped DEF CreateSave, PolicyInv, HandlersFit, HandlerFits, Asked
<1>2. StateFits(s) /\ s.policy = req.policy
  BY <1>1, NewStateFits
<1>3. s # None
  BY <1>1, NoneAssumption, FccAssumption DEF NewState, PolicyState
<1> HIDE DEF s
<1>4. /\ h' = [h EXCEPT ![hd] = x] /\ store' = [store EXCEPT ![req.rule] = s]
      /\ store[req.rule] = None /\ UNCHANGED <<cache, accepted>>
  BY DEF CreateSave, RuleUnknown, IInv, TypeOK, s
<1>5. x.pc = "saved" /\ x.work = s /\ x.req = req
  BY DEF IInv, TypeOK
<1> HIDE DEF x
<1>6. \A r \in Rule : store'[r] = IF r = req.rule THEN s ELSE store[r]
  BY <1>4 DEF IInv, TypeOK
<1>7. HandlerFits(h[hd])'
  <2>1. h'[hd] = x
    BY <1>4, OthersStay
  <2>2. Asked(x)
    BY <1>1, <1>5 DEF Asked
  <2> HIDE DEF req
  <2> QED
    BY <1>1, <1>2, <1>3, <1>5, <1>6, <2>1, <2>2 DEF HandlerFits, Asked, SamePolicy
<1>8. HandlerStep
  BY <1>4, <1>7, OthersStay
<1> HIDE DEF req
<1>9. StoreStep /\ CacheStep /\ AcceptedStep
  BY <1>2, <1>3, <1>4, <1>6 DEF StoreStep, CacheStep, AcceptedStep
<1> QED
  BY <1>8, <1>9, FittingStep

LEMMA CreateAckPolicy ==
  ASSUME IInv, PolicyInv, NEW hd \in Handler, CreateAck(hd)
  PROVE  PolicyInv'
<1> DEFINE req == h[hd].req
           s == h[hd].work
<1>1. /\ req.rule \in Rule /\ req.rule = req.policy.rule
      /\ StateFits(s) /\ SamePolicy(s, req.rule) /\ s.policy = req.policy
  BY RequestTyped DEF CreateAck, PolicyInv, HandlersFit, HandlerFits, Asked, Locked
<1>2. /\ h' = [h EXCEPT ![hd] = Idle] /\ cache' = [cache EXCEPT ![req.rule] = s]
      /\ accepted' = accepted \cup {req.policy} /\ UNCHANGED store
  BY DEF CreateAck
<1>3. \A r \in Rule : cache'[r] = IF r = req.rule THEN s ELSE cache[r]
  BY <1>2 DEF IInv, TypeOK
<1> HIDE DEF req, s
<1>4. StoreStep /\ CacheStep
  BY <1>1, <1>2, <1>3 DEF SamePolicy, StoreStep, CacheStep
<1>5. AcceptedStep
  <2>1. store[req.rule] # None /\ store[req.rule].policy = req.policy
    BY <1>1 DEF SamePolicy
  <2> DEFINE q == req.policy
  <2>2. /\ q.rule \in Rule /\ store'[q.rule] # None /\ store'[q.rule].policy = q
        /\ accepted' = accepted \cup {q}
    BY <1>1, <1>2, <2>1
  <2> HIDE DEF q
  <2> QED
    BY <2>2 DEF AcceptedStep
<1>6. HandlerStep
  BY <1>2, OthersStay
<1> QED
  BY <1>4, <1>5, <1>6, FittingStep

LEMMA EvalBeginPolicy ==
  ASSUME IInv, PolicyInv, NEW hd \in Handler, EvalBegin(hd)
  PROVE  PolicyInv'
<1> DEFINE req == h[hd].req
           s == Known(req.rule)
           x == [h[hd] EXCEPT !.pc = "reading", !.work = s]
<1>1. req.rule \in Rule /\ Asked(h[hd]) /\ req.op = "evaluate"
  BY RequestTyped DEF EvalBegin, PolicyInv, HandlersFit, HandlerFits
<1>2. s # None => StateFits(s) /\ SamePolicy(s, req.rule)
  BY <1>1 DEF Known, PolicyInv, StoreFits, CacheFits, SamePolicy
<1>3. /\ cache' = [cache EXCEPT ![req.rule] = s] /\ UNCHANGED <<store, accepted>>
      /\ h' = [h EXCEPT ![hd] = Idle] \/ (s # None /\ h' = [h EXCEPT ![hd] = x])
  BY DEF EvalBegin, IInv, TypeOK
<1>4. x.pc = "reading" /\ x.work = s /\ x.req = req
  BY DEF IInv, TypeOK
<1>5. \A r \in Rule : cache'[r] = IF r = req.rule THEN s ELSE cache[r]
  BY <1>1, <1>3 DEF IInv, TypeOK
<1>6. Asked(x)
  BY <1>1, <1>4 DEF Asked
<1> HIDE DEF s, x, req
<1>7. StoreStep /\ CacheStep /\ AcceptedStep
  BY <1>2, <1>3, <1>5 DEF SamePolicy, StoreStep, CacheStep, AcceptedStep
<1>8. HandlerStep
  <2>1. CASE h' = [h EXCEPT ![hd] = Idle]
    BY <2>1, OthersStay
  <2>2. CASE s # None /\ h' = [h EXCEPT ![hd] = x]
    <3>1. h'[hd] = x
      BY <2>2, OthersStay
    <3>2. HandlerFits(h[hd])'
      BY <1>2, <1>3, <1>4, <1>6, <2>2, <3>1 DEF HandlerFits, Asked, SamePolicy
    <3> QED
      BY <2>2, <3>2, OthersStay
  <2> QED
    BY <1>3, <2>1, <2>2
<1> QED
  BY <1>7, <1>8, FittingStep

LEMMA EvalReadPolicy ==
  ASSUME IInv, PolicyInv, NEW hd \in Handler, EvalRead(hd)
  PROVE  PolicyInv'
<1> DEFINE req == h[hd].req
           s == h[hd].work
           v == snap[req.event].value
           t == Evaluated(s, v, req)
           x == [h[hd] EXCEPT !.pc = "saving", !.work = t]
<1>1. /\ h[hd].pc = "reading" /\ req \in EvalRequest /\ s \in PolicyState
      /\ StateFits(s) /\ SamePolicy(s, req.rule) /\ Asked(h[hd])
  BY DEF EvalRead, IInv, RequestShape, PolicyInv, HandlersFit, HandlerFits, Locked
<1>2. req.event \in Event /\ req.ts # 0 /\ req.op = "evaluate"
  BY <1>1 DEF EvalRequest, Asked
<1>3. /\ v \in Nat
      /\ s.auths[req.event] # None => MayRefresh(s.auths[req.event], v, req.ts)
  BY <1>2 DEF EvalRead, Readable, Prepared, IInv, TypeOK, Snapshot
<1>4. StateFits(t) /\ t.policy = s.policy
  <2> HIDE DEF s, v, req
  <2> QED
    BY <1>1, <1>2, <1>3, EvaluatedFits
<1> HIDE DEF t
<1>5. h' = [h EXCEPT ![hd] = x] /\ UNCHANGED <<store, cache, accepted>>
  BY DEF EvalRead, IInv, TypeOK, t
<1>6. x.pc = "saving" /\ x.work = t /\ x.req = req
  BY DEF IInv, TypeOK
<1>7. Asked(x)
  BY <1>1, <1>6 DEF Asked
<1> HIDE DEF x, v, s, req
<1>8. HandlerFits(h[hd])'
  BY <1>1, <1>2, <1>4, <1>5, <1>6, <1>7, OthersStay DEF HandlerFits, Asked, SamePolicy
<1>9. StoreStep /\ CacheStep /\ AcceptedStep
  BY <1>5 DEF StoreStep, CacheStep, AcceptedStep
<1> QED
  BY <1>5, <1>8, <1>9, OthersStay, FittingStep

LEMMA EvalSavePolicy ==
  ASSUME IInv, PolicyInv, NEW hd \in Handler, EvalSave(hd)
  PROVE  PolicyInv'
<1> DEFINE req == h[hd].req
           t == h[hd].work
           x == [h[hd] EXCEPT !.pc = "saved"]
<1>1. /\ h[hd].pc = "saving" /\ req \in EvalRequest /\ req.rule \in Rule /\ t \in PolicyState
      /\ StateFits(t) /\ SamePolicy(t, req.rule) /\ Asked(h[hd])
  BY DEF EvalSave, IInv, RequestShape, EvalRequest, PolicyInv, HandlersFit, HandlerFits, Locked
<1>2. t # None /\ req.op = "evaluate"
  BY <1>1, NoneAssumption DEF EvalRequest
<1>3. /\ h' = [h EXCEPT ![hd] = x] /\ store' = [store EXCEPT ![req.rule] = t]
      /\ UNCHANGED <<cache, accepted>>
  BY DEF EvalSave, IInv, TypeOK
<1>4. x.pc = "saved" /\ x.work = t /\ x.req = req
  BY DEF IInv, TypeOK
<1>5. \A r \in Rule : store'[r] = IF r = req.rule THEN t ELSE store[r]
  BY <1>3 DEF IInv, TypeOK
<1>6. Asked(x)
  BY <1>1, <1>4 DEF Asked
<1> HIDE DEF x, t, req
<1>7. HandlerFits(h[hd])'
  BY <1>1, <1>2, <1>3, <1>4, <1>5, <1>6, OthersStay DEF HandlerFits, Asked, SamePolicy
<1>8. StoreStep /\ CacheStep /\ AcceptedStep
  BY <1>1, <1>2, <1>3, <1>5 DEF SamePolicy, StoreStep, CacheStep, AcceptedStep
<1> QED
  BY <1>3, <1>7, <1>8, OthersStay, FittingStep

LEMMA EvalAckPolicy ==
  ASSUME IInv, PolicyInv, NEW hd \in Handler, EvalAck(hd)
  PROVE  PolicyInv'
<1> DEFINE req == h[hd].req
           t == h[hd].work
<1>1. req.rule \in Rule /\ StateFits(t) /\ SamePolicy(t, req.rule)
  BY RequestTyped DEF EvalAck, PolicyInv, HandlersFit, HandlerFits, Locked
<1>2. /\ h' = [h EXCEPT ![hd] = Idle] /\ cache' = [cache EXCEPT ![req.rule] = t]
      /\ UNCHANGED <<store, accepted>>
  BY DEF EvalAck
<1>3. \A r \in Rule : cache'[r] = IF r = req.rule THEN t ELSE cache[r]
  BY <1>2 DEF IInv, TypeOK
<1> HIDE DEF req, t
<1>4. StoreStep /\ CacheStep /\ AcceptedStep
  BY <1>1, <1>2, <1>3 DEF SamePolicy, StoreStep, CacheStep, AcceptedStep
<1> QED
  BY <1>2, <1>4, OthersStay, FittingStep

LEMMA StepPolicy ==
  ASSUME IInv, PolicyInv, Durable, [Next]_vars
  PROVE  PolicyInv'
<1>0. \A k \in Handler : h[k].pc \in Locked => h[k].req.rule \in Rule
  BY RequestTyped DEF Locked
<1>1. CASE UNCHANGED vars
  BY <1>0, <1>1, FittingStep
    DEF vars, StoreStep, CacheStep, HandlerStep, AcceptedStep
<1>2. CASE Crash
  BY <1>2, FittingStep
    DEF Crash, StoreStep, CacheStep, HandlerStep, AcceptedStep
<1>3. CASE \E e \in Event, r \in Rule, v \in Values : Prepare(e, r, v)
  BY <1>0, <1>3, FittingStep
    DEF Prepare, StoreStep, CacheStep, HandlerStep, AcceptedStep
<1>4. CASE \E e \in Event : Consume(e)
  BY <1>0, <1>4, FittingStep
    DEF Consume, StoreStep, CacheStep, HandlerStep, AcceptedStep
<1>5. ASSUME NEW hd \in Handler,
             \/ \E p \in Policies, ts \in 0..MaxTime : ReceiveCreate(hd, p, ts)
             \/ \E r \in Rule, e \in Event, n \in Nonce, ts \in 0..MaxTime :
                  ReceiveEvaluate(hd, r, e, n, ts)
             \/ Serve(hd)
      PROVE  PolicyInv'
  BY <1>5, QuietPolicy, CreateSavePolicy, CreateAckPolicy, EvalBeginPolicy, EvalReadPolicy,
    EvalSavePolicy, EvalAckPolicy DEF Serve
<1> QED
  BY <1>1, <1>2, <1>3, <1>4, <1>5 DEF Next

-----------------------------------------------------------------------------
(* Theorems *)

\* The policies of all copies agree and their decisions are spaced, throughout.
THEOREM PolicyInvariant == Durable => (Spec => []PolicyInv)
<1> SUFFICES ASSUME Durable PROVE Spec => []PolicyInv
  OBVIOUS
<1>1. Init => PolicyInv
  BY InitPolicy
<1>2. IInv /\ PolicyInv /\ [Next]_vars => PolicyInv'
  BY StepPolicy
<1>3. Spec => []IInv
  BY InductiveInvariant
<1> QED
  BY <1>1, <1>2, <1>3, PTL DEF Spec

\* An acknowledged policy is never replaced, whatever creations race with it or
\* repeat it (the two existence checks of processCreatePolicy).
THEOREM PoliciesStand == Durable => (Spec => []AcceptedPolicyStands)
<1>1. PolicyInv => AcceptedPolicyStands
  BY DEF PolicyInv, AcceptedFits, AcceptedPolicyStands
<1> QED
  BY <1>1, PolicyInvariant, PTL

\* Triggered decisions of a rule are a cooldown apart, in whatever order their
\* instructions arrive, for policies whose cooldown cannot wrap the sum it is
\* added to (the comparison with LastTriggered in processEvaluateGuard).
THEOREM CooldownsHold == Durable /\ CooldownsFit => (Spec => []CooldownRespected)
<1> SUFFICES ASSUME Durable, CooldownsFit PROVE Spec => []CooldownRespected
  OBVIOUS
<1>1. PolicyInv => CooldownRespected
  BY DEF PolicyInv, StoreFits, StateFits, CooldownRespected
<1> QED
  BY <1>1, PolicyInvariant, PTL

=============================================================================

---- MODULE WebApplicationProofs ----
(***************************************************************************)
(* The safety properties of the two flows of the web application: of the   *)
(* payment page (PaymentFlow) for any tabs, payments and lifetimes, and of *)
(* the creation page (GuardCreation) for any number of runs.               *)
(***************************************************************************)
EXTENDS PaymentFlow, GuardCreation, TLAPS

\* A blank page is a page, for any stage.
LEMMA BlankTyped ==
  ASSUME NEW pc \in Rest \cup Busy, NEW offers \in BOOLEAN
  PROVE  Blank(pc, offers) \in Page
  <1>1. PICK e \in Events : TRUE
    BY Payments
  <1>2. (CHOOSE x \in Events : TRUE) \in Events
    BY <1>1
  <1>3. -1 \in -1..Validity
    BY Times
  <1> DEFINE first == CHOOSE x \in Events : TRUE
  <1> HIDE DEF first
  <1>5. [pc |-> pc, ev |-> first, left |-> -1, early |-> FALSE, offers |-> offers] \in Page
    <2>1. first \in Events
      BY <1>2 DEF first
    <2> QED BY <2>1, <1>3 DEF Page
  <1> QED BY <1>5 DEF Blank, first

LEMMA InitTyped == Init => TypeOK
  <1> SUFFICES ASSUME Init PROVE TypeOK
    OBVIOUS
  <1>1. Blank("idle", TRUE) \in Page
    <2>1. "idle" \in Rest \cup Busy
      BY DEF Rest
    <2> QED BY <2>1, BlankTyped
  <1>2. tab \in [Tabs -> Page]
    BY <1>1 DEF Init
  <1>3. left \in [Events -> NoTime..Validity]
    BY Times DEF Init, NoTime
  <1>4. winner \in [Events -> Tabs \cup {Gone, None}] /\ faults \in 0..MaxFaults /\ Awaited
    BY Bounds DEF Init, Awaited
  <1>5. mempool = {} /\ instrs = {} /\ prepared = {} /\ asked = {} /\ index = None
    BY DEF Init
  <1>6. allowance \in Nat /\ balance \in Nat /\ dust \in BOOLEAN /\ expired \in BOOLEAN
    BY DEF Init
  <1> QED BY <1>2, <1>3, <1>4, <1>5, <1>6 DEF TypeOK

\* Steps of a page that send nothing keep the types: they leave stages in which nothing is awaited.
LEMMA QuietTyped ==
  ASSUME TypeOK, NEW t \in Tabs, tab[t].pc \notin Waiting \cup {"answer"},
         NEW p \in Page, tab' = [tab EXCEPT ![t] = p],
         UNCHANGED <<chain, mempool, tee, faults>>, index' \in Events \cup {None}
  PROVE TypeOK'
  <1>1. tab' \in [Tabs -> Page]
    BY DEF TypeOK
  <1>2. Awaited'
    <2>1. \A m \in mempool : m.by # Gone => tab'[m.by].pc = m.kind
      BY DEF TypeOK, Awaited, Txs
    <2>2. \A i \in instrs : i.by # Gone => tab'[i.by].pc = "answer"
      BY DEF TypeOK, Awaited, Instrs
    <2> QED BY <2>1, <2>2 DEF TypeOK, Awaited, tee, chain
  <1> QED BY <1>1, <1>2 DEF TypeOK, tee, chain

LEMMA RunTyped == ASSUME TypeOK, NEW t \in Tabs, NEW e \in Events, Run(t, e) PROVE TypeOK'
  <1> DEFINE p == [Blank("request", TRUE) EXCEPT !.ev = e]
  <1>1. p \in Page
    <2>1. "request" \in Rest \cup Busy
      BY DEF Busy, Signing
    <2>2. Blank("request", TRUE) \in Page
      BY <2>1, BlankTyped
    <2> QED BY <2>2 DEF Page
  <1>2. tab[t].pc \notin Waiting \cup {"answer"}
    BY DEF Run, Rest, Waiting
  <1>3. tab' = [tab EXCEPT ![t] = p] /\ index' \in Events \cup {None} /\ UNCHANGED <<chain, mempool, tee, faults>>
    BY DEF Run, TypeOK
  <1> HIDE DEF p
  <1> QED BY <1>1, <1>2, <1>3, QuietTyped

\* Moving to another stage keeps a page.
LEMMA Moved ==
  ASSUME TypeOK, NEW t \in Tabs, NEW pc \in Rest \cup Busy
  PROVE  /\ [tab[t] EXCEPT !.pc = pc] \in Page
         /\ [tab EXCEPT ![t].pc = pc] = [tab EXCEPT ![t] = [tab[t] EXCEPT !.pc = pc]]
  BY DEF TypeOK, Page

\* Stepping on or failing, without sending anything.
LEMMA PageTyped ==
  ASSUME TypeOK, NEW t \in Tabs, tab[t].pc \notin Waiting \cup {"answer"},
         NEW pc \in Rest \cup Busy, Goto(t, pc) \/ tab' = Failed(t),
         UNCHANGED <<chain, mempool, tee, faults>>, index' \in Events \cup {None}
  PROVE TypeOK'
  <1>1. CASE Goto(t, pc)
    <2> DEFINE p == [tab[t] EXCEPT !.pc = pc]
    <2>1. p \in Page /\ tab' = [tab EXCEPT ![t] = p]
      BY <1>1, Moved DEF Goto
    <2> HIDE DEF p
    <2> QED BY <2>1, QuietTyped
  <1>2. CASE tab' = Failed(t)
    <2> DEFINE p == [tab[t] EXCEPT !.pc = "failed"]
    <2>1. tab[t] \in Page /\ "failed" \in Rest \cup Busy
      BY DEF TypeOK, Rest
    <2>2. p \in Page
      BY <2>1 DEF Page
    <2>3. tab' = [tab EXCEPT ![t] = p]
      BY <1>2, <2>1 DEF Failed, TypeOK, Page
    <2> HIDE DEF p
    <2> QED BY <2>2, <2>3, QuietTyped
  <1> QED BY <1>1, <1>2

LEMMA ProofTyped == ASSUME TypeOK, NEW t \in Tabs, Proof(t) PROVE TypeOK'
  <1>1. tab[t].pc \notin Waiting \cup {"answer"} /\ index' \in Events \cup {None}
    BY DEF Proof, Waiting, TypeOK, Page
  <1>2. "snapshot" \in Rest \cup Busy /\ "unprepared" \in Rest \cup Busy
    BY DEF Busy
  <1>3. PICK pc \in Rest \cup Busy : Goto(t, pc) \/ tab' = Failed(t)
    BY <1>2 DEF Proof
  <1> QED BY <1>1, <1>3, PageTyped DEF Proof

LEMMA SimulatePrepareTyped == ASSUME TypeOK, NEW t \in Tabs, SimulatePrepare(t) PROVE TypeOK'
  <1>1. tab[t].pc \notin Waiting \cup {"answer"} /\ index' \in Events \cup {None}
    BY DEF SimulatePrepare, Waiting, TypeOK
  <1>2. "prepare" \in Rest \cup Busy
    BY DEF Busy, Signing
  <1>3. Goto(t, "prepare") \/ tab' = Failed(t)
    BY DEF SimulatePrepare
  <1> QED BY <1>1, <1>2, <1>3, PageTyped DEF SimulatePrepare

LEMMA SnapshotTyped == ASSUME TypeOK, NEW t \in Tabs, Snapshot(t) PROVE TypeOK'
  <1>1. tab[t].pc \notin Waiting \cup {"answer"} /\ index' \in Events \cup {None}
    BY DEF Snapshot, Waiting, TypeOK
  <1>2. "evaluate" \in Rest \cup Busy
    BY DEF Busy, Signing
  <1>3. Goto(t, "evaluate") \/ tab' = Failed(t)
    BY DEF Snapshot
  <1> QED BY <1>1, <1>2, <1>3, PageTyped DEF Snapshot

LEMMA FinishTyped == ASSUME TypeOK, NEW t \in Tabs, Finish(t) PROVE TypeOK'
  <1>1. tab[t].pc \notin Waiting \cup {"answer"} /\ index' \in Events \cup {None}
    BY DEF Finish, Waiting, TypeOK
  <1>2. "approve" \in Rest \cup Busy /\ "execute" \in Rest \cup Busy
    BY DEF Busy, Signing, Holding
  <1>3. PICK pc \in Rest \cup Busy : Goto(t, pc) \/ tab' = Failed(t)
    BY <1>2 DEF Finish
  <1> QED BY <1>1, <1>3, PageTyped DEF Finish

LEMMA SimulateExecuteTyped == ASSUME TypeOK, NEW t \in Tabs, SimulateExecute(t) PROVE TypeOK'
  <1>1. tab[t].pc \notin Waiting \cup {"answer"} /\ index' \in Events \cup {None}
    BY DEF SimulateExecute, Waiting, TypeOK
  <1>2. "sign" \in Rest \cup Busy
    BY DEF Busy, Signing
  <1>3. Goto(t, "sign") \/ tab' = Failed(t)
    BY DEF SimulateExecute
  <1> QED BY <1>1, <1>2, <1>3, PageTyped DEF SimulateExecute

LEMMA ConfirmTyped == ASSUME TypeOK, NEW t \in Tabs, Confirm(t) PROVE TypeOK'
  <1>1. tab[t].pc \notin Waiting \cup {"answer"} /\ index' \in Events \cup {None}
    BY DEF Confirm, Waiting, TypeOK
  <1>2. CASE tab' = Failed(t)
    BY <1>1, <1>2, PageTyped DEF Confirm, Rest
  <1>3. CASE tab' = [tab EXCEPT ![t].pc = "complete", ![t].offers = Offered]
    <2> DEFINE p == [tab[t] EXCEPT !.pc = "complete", !.offers = Offered]
    <2>1. Offered \in BOOLEAN
      BY DEF Offered
    <2>2. p \in Page
      BY <2>1 DEF TypeOK, Page, Rest
    <2>3. tab' = [tab EXCEPT ![t] = p]
      BY <1>3 DEF TypeOK, Page
    <2> HIDE DEF p
    <2> QED BY <1>1, <2>2, <2>3, QuietTyped DEF Confirm
  <1> QED BY <1>2, <1>3 DEF Confirm

\* What a page signs is the one transaction it then waits for.
LEMMA SignTyped == ASSUME TypeOK, NEW t \in Tabs, Sign(t) PROVE TypeOK'
  <1> DEFINE kind == Sent[tab[t].pc]
             m == [kind |-> kind, ev |-> tab[t].ev, by |-> t, left |-> tab[t].left, early |-> tab[t].early]
  <1>1. kind \in Waiting /\ tab[t].pc \notin Waiting \cup {"answer"}
    BY DEF Sign, Sent, Signing, Waiting
  <1>2. tab[t] \in Page /\ m \in Txs
    BY <1>1 DEF TypeOK, Page, Txs
  <1>3. tab' \in [Tabs -> Page] /\ tab'[t].pc = kind /\ \A u \in Tabs \ {t} : tab'[u] = tab[u]
    BY <1>1, <1>2 DEF Sign, Goto, TypeOK, Page, Busy
  <1>4. \A n \in mempool : n.by # t
    BY <1>1, TabNames DEF TypeOK, Awaited, Txs, Gone
  <1>5. \A i \in instrs : i.by # t
    BY <1>1, TabNames DEF TypeOK, Awaited, Instrs, Gone
  <1>6. mempool' = mempool \cup {m}
    BY DEF Sign
  <1> HIDE DEF kind
  <1>7. Awaited'
    <2>1. \A n \in mempool' : n.by # Gone => tab'[n.by].pc = n.kind
      BY <1>3, <1>4, <1>6 DEF TypeOK, Awaited, Txs
    <2>2. \A i \in instrs : i.by # Gone => tab'[i.by].pc = "answer"
      BY <1>3, <1>5 DEF TypeOK, Awaited, Instrs
    <2>3. \A n, o \in mempool' : n.by = o.by /\ n.by # Gone => n = o
      BY <1>4, <1>6 DEF TypeOK, Awaited
    <2> QED BY <2>1, <2>2, <2>3 DEF Sign, TypeOK, Awaited, tee
  <1> QED BY <1>2, <1>3, <1>6, <1>7 DEF Sign, TypeOK, chain, tee

-----------------------------------------------------------------------------
\* Taking a transaction keeps the types: its tab stops waiting, nobody else waited for it.
LEMMA TakenTyped ==
  ASSUME TypeOK, NEW m \in mempool, mempool' = mempool \ {m}, instrs' = instrs,
         NEW p \in Page, tab' = IF m.by = Gone THEN tab ELSE [tab EXCEPT ![m.by] = p]
  PROVE  mempool' \subseteq Txs /\ tab' \in [Tabs -> Page] /\ Awaited'
  <1>1. m \in Txs /\ mempool' \subseteq Txs
    BY DEF TypeOK
  <1>2. tab' \in [Tabs -> Page] /\ \A t \in Tabs : t # m.by => tab'[t] = tab[t]
    BY <1>1 DEF TypeOK, Txs
  <1>3. \A n \in mempool' : n.by # Gone => n.by # m.by /\ n.by \in Tabs
    BY <1>1 DEF TypeOK, Awaited, Txs
  <1>4. \A i \in instrs : i.by # Gone => i.by # m.by /\ i.by \in Tabs
    <2>1. m.by # Gone => tab[m.by].pc # "answer"
      BY <1>1 DEF TypeOK, Awaited, Txs, Waiting
    <2> QED BY <2>1 DEF TypeOK, Awaited, Instrs
  <1> QED BY <1>1, <1>2, <1>3, <1>4 DEF TypeOK, Awaited

\* A receipt moves the tab that waits, if any, to a page.
LEMMA ReceiptPage ==
  ASSUME TypeOK, NEW m \in mempool, NEW ok, NEW next \in Busy, Receipt(m, ok, next)
  PROVE  \E p \in Page : tab' = IF m.by = Gone THEN tab ELSE [tab EXCEPT ![m.by] = p]
  <1>1. CASE m.by = Gone
    <2>1. Blank("idle", TRUE) \in Page
      BY BlankTyped DEF Rest
    <2> QED BY <1>1, <2>1 DEF Receipt
  <1>2. CASE m.by # Gone
    <2>1. m.by \in Tabs /\ tab[m.by] \in Page
      BY <1>2 DEF TypeOK, Txs
    <2>2. CASE ok
      <3>1. [tab[m.by] EXCEPT !.pc = next] \in Page
        BY <2>1 DEF Page
      <3>2. tab' = [tab EXCEPT ![m.by] = [tab[m.by] EXCEPT !.pc = next]]
        BY <1>2, <2>1, <2>2 DEF Receipt, TypeOK, Page
      <3> QED BY <1>2, <3>1, <3>2
    <2>3. CASE ~ok
      <3>1. [tab[m.by] EXCEPT !.pc = "failed"] \in Page
        BY <2>1 DEF Page, Rest
      <3>2. tab' = [tab EXCEPT ![m.by] = [tab[m.by] EXCEPT !.pc = "failed"]]
        BY <1>2, <2>1, <2>3 DEF Receipt, Failed, TypeOK, Page
      <3> QED BY <1>2, <3>1, <3>2
    <2> QED BY <2>2, <2>3
  <1> QED BY <1>1, <1>2

LEMMA NeedTyped == \A e \in Events : Need(e) \in Nat
  BY Payments DEF Need

LEMMA IncludeRequestTyped == ASSUME TypeOK, NEW m \in mempool, IncludeRequest(m) PROVE TypeOK'
  <1>1. "proof" \in Busy /\ Receipt(m, TRUE, "proof")
    BY DEF Busy, IncludeRequest
  <1>2. PICK p \in Page : tab' = IF m.by = Gone THEN tab ELSE [tab EXCEPT ![m.by] = p]
    BY <1>1, ReceiptPage
  <1>3. mempool' = mempool \ {m} /\ instrs' = instrs
    BY DEF IncludeRequest, Take, tee
  <1>4. mempool' \subseteq Txs /\ tab' \in [Tabs -> Page] /\ Awaited'
    BY <1>2, <1>3, TakenTyped
  <1>5. m.ev \in Events
    BY DEF TypeOK, Txs
  <1> QED BY <1>4, <1>5 DEF IncludeRequest, TypeOK, tee

LEMMA IncludePrepareTyped == ASSUME TypeOK, NEW m \in mempool, IncludePrepare(m) PROVE TypeOK'
  <1> DEFINE ok == m.ev \notin prepared /\ winner[m.ev] = None
  <1>1. "snapshot" \in Busy /\ Receipt(m, ok, "snapshot")
    BY DEF Busy, IncludePrepare
  <1> HIDE DEF ok
  <1>2. PICK p \in Page : tab' = IF m.by = Gone THEN tab ELSE [tab EXCEPT ![m.by] = p]
    BY <1>1, ReceiptPage
  <1>3. mempool' = mempool \ {m} /\ instrs' = instrs
    BY DEF IncludePrepare, Take, tee
  <1>4. mempool' \subseteq Txs /\ tab' \in [Tabs -> Page] /\ Awaited'
    BY <1>2, <1>3, TakenTyped
  <1>5. m.ev \in Events
    BY DEF TypeOK, Txs
  <1>6. prepared' \subseteq Events
    BY <1>5 DEF IncludePrepare, TypeOK
  <1> QED BY <1>4, <1>6 DEF IncludePrepare, TypeOK, tee

LEMMA IncludeApproveTyped == ASSUME TypeOK, NEW m \in mempool, IncludeApprove(m) PROVE TypeOK'
  <1>1. "execute" \in Busy /\ Receipt(m, TRUE, "execute")
    BY DEF Busy, Holding, IncludeApprove
  <1>2. PICK p \in Page : tab' = IF m.by = Gone THEN tab ELSE [tab EXCEPT ![m.by] = p]
    BY <1>1, ReceiptPage
  <1>3. mempool' = mempool \ {m} /\ instrs' = instrs
    BY DEF IncludeApprove, Take, tee
  <1>4. mempool' \subseteq Txs /\ tab' \in [Tabs -> Page] /\ Awaited'
    BY <1>2, <1>3, TakenTyped
  <1>5. allowance' \in Nat
    BY NeedTyped DEF TypeOK, Txs, IncludeApprove, Approval
  <1> QED BY <1>4, <1>5 DEF IncludeApprove, TypeOK, tee

\* What executeGuard takes was held and approved.
LEMMA Affordable ==
  ASSUME TypeOK, NEW e \in Events, NEW valid, NEW early, Executable(e, valid, early)
  PROVE  Need(e) <= allowance /\ Need(e) <= balance
  BY DEF Executable, Need, TypeOK

LEMMA IncludeExecuteTyped == ASSUME TypeOK, NEW m \in mempool, IncludeExecute(m) PROVE TypeOK'
  <1> DEFINE ok == Executable(m.ev, m.left, m.early)
             paid == IF ok THEN Need(m.ev) ELSE 0
  <1>1. "confirm" \in Busy /\ Receipt(m, TRUE, "confirm")
    BY DEF Busy, IncludeExecute
  <1>2. PICK p \in Page : tab' = IF m.by = Gone THEN tab ELSE [tab EXCEPT ![m.by] = p]
    BY <1>1, ReceiptPage
  <1>3. mempool' = mempool \ {m} /\ instrs' = instrs
    BY DEF IncludeExecute, Take, tee
  <1>4. mempool' \subseteq Txs /\ tab' \in [Tabs -> Page] /\ Awaited'
    BY <1>2, <1>3, TakenTyped
  <1>5. m.ev \in Events /\ m.by \in Tabs \cup {Gone}
    BY DEF TypeOK, Txs
  <1>6. paid \in Nat /\ paid <= allowance /\ paid <= balance
    BY <1>5, NeedTyped, Affordable DEF TypeOK
  <1>7. allowance' = allowance - paid /\ balance' = balance - paid
    BY DEF IncludeExecute
  <1>8. allowance' \in Nat /\ balance' \in Nat
    <2> HIDE DEF paid
    <2> QED BY <1>6, <1>7 DEF TypeOK
  <1>9. winner' \in [Events -> Tabs \cup {Gone, None}]
    BY <1>5 DEF IncludeExecute, TypeOK
  <1> QED BY <1>4, <1>8, <1>9 DEF IncludeExecute, TypeOK, tee

\* The instruction takes its transaction's place.
LEMMA IncludeEvaluateTyped == ASSUME TypeOK, NEW m \in mempool, IncludeEvaluate(m) PROVE TypeOK'
  <1> DEFINE i == [ev |-> m.ev, by |-> m.by, age |-> 0, early |-> m.ev \notin prepared, late |-> expired]
  <1>1. m \in Txs /\ i \in Instrs
    BY Times DEF TypeOK, Txs, Instrs
  <1>2. mempool' = mempool \ {m} /\ instrs' = instrs \cup {i}
    BY DEF IncludeEvaluate, Take
  <1>3. tab' = IF m.by = Gone THEN tab ELSE [tab EXCEPT ![m.by].pc = "answer"]
    BY DEF IncludeEvaluate, Receipt
  <1>4. tab' \in [Tabs -> Page] /\ \A t \in Tabs : tab'[t].pc = IF t = m.by THEN "answer" ELSE tab[t].pc
    <2>1. CASE m.by = Gone
      BY <1>3, <2>1, TabNames DEF TypeOK, Gone
    <2>2. CASE m.by # Gone
      <3>1. m.by \in Tabs /\ tab[m.by] \in Page
        BY <1>1, <2>2 DEF TypeOK, Txs
      <3>2. [tab[m.by] EXCEPT !.pc = "answer"] \in Page /\ [tab[m.by] EXCEPT !.pc = "answer"].pc = "answer"
        BY <3>1 DEF Page, Busy
      <3>3. tab' = [tab EXCEPT ![m.by] = [tab[m.by] EXCEPT !.pc = "answer"]]
        BY <1>3, <2>2, <3>1 DEF TypeOK
      <3> QED BY <3>1, <3>2, <3>3 DEF TypeOK
    <2> QED BY <2>1, <2>2
  <1>5. \A n \in mempool' : n.by # Gone => n.by # m.by /\ n.by \in Tabs
    BY <1>1, <1>2 DEF TypeOK, Awaited, Txs
  <1>6. \A j \in instrs : j.by # Gone => j.by # m.by /\ j.by \in Tabs
    <2>1. m.by # Gone => tab[m.by].pc # "answer"
      BY <1>1 DEF TypeOK, Awaited, Txs, Waiting
    <2> QED BY <2>1 DEF TypeOK, Awaited, Instrs
  <1>7. i.by = m.by /\ (m.by # Gone => m.by \in Tabs)
    BY <1>1 DEF Txs
  <1> HIDE DEF i
  <1>8. Awaited'
    <2>1. \A n \in mempool' : n.by # Gone => tab'[n.by].pc = n.kind
      BY <1>2, <1>4, <1>5 DEF TypeOK, Awaited
    <2>2. \A j \in instrs' : j.by # Gone => tab'[j.by].pc = "answer"
      BY <1>2, <1>4, <1>6, <1>7 DEF TypeOK, Awaited
    <2>3. \A n, o \in mempool' : n.by = o.by /\ n.by # Gone => n = o
      BY <1>2 DEF TypeOK, Awaited
    <2>4. \A j, k \in instrs' : j.by = k.by /\ j.by # Gone => j = k
      BY <1>2, <1>6, <1>7 DEF TypeOK, Awaited
    <2> QED BY <2>1, <2>2, <2>3, <2>4 DEF Awaited
  <1> QED BY <1>1, <1>2, <1>4, <1>8 DEF IncludeEvaluate, TypeOK, chain

-----------------------------------------------------------------------------
\* An answered instruction is gone, and the tab that waited moves on.
LEMMA AnsweredTyped ==
  ASSUME TypeOK, NEW i \in instrs, instrs' = instrs \ {i}, mempool' = mempool, NEW ok, tab' = Answer(i, ok)
  PROVE  instrs' \subseteq Instrs /\ tab' \in [Tabs -> Page] /\ Awaited'
  <1>1. i \in Instrs /\ instrs' \subseteq Instrs
    BY DEF TypeOK
  <1>2. tab' \in [Tabs -> Page] /\ \A t \in Tabs : t # i.by => tab'[t] = tab[t]
    <2>1. CASE i.by = Gone
      BY <2>1 DEF Answer, TypeOK
    <2>2. CASE i.by # Gone
      <3>1. i.by \in Tabs /\ tab[i.by] \in Page
        BY <1>1, <2>2 DEF TypeOK, Instrs
      <3>2. CASE ok
        <4> DEFINE p == [tab[i.by] EXCEPT !.pc = "answered", !.left = Validity - i.age, !.early = i.early]
        <4>1. Validity - i.age \in -1..Validity /\ i.early \in BOOLEAN
          BY <1>1, Times DEF Instrs
        <4>2. p \in Page
          BY <3>1, <4>1 DEF Page, Busy, Holding
        <4>3. tab' = [tab EXCEPT ![i.by] = p]
          BY <2>2, <3>1, <3>2 DEF Answer, TypeOK
        <4> HIDE DEF p
        <4> QED BY <4>2, <4>3 DEF TypeOK
      <3>3. CASE ~ok
        <4> DEFINE p == [tab[i.by] EXCEPT !.pc = "failed"]
        <4>1. p \in Page
          BY <3>1 DEF Page, Rest
        <4>2. tab' = [tab EXCEPT ![i.by] = p]
          BY <2>2, <3>1, <3>3 DEF Answer, Failed, TypeOK
        <4> HIDE DEF p
        <4> QED BY <4>1, <4>2 DEF TypeOK
      <3> QED BY <3>2, <3>3
    <2> QED BY <2>1, <2>2
  <1>3. \A j \in instrs' : j.by # Gone => j.by # i.by /\ j.by \in Tabs
    BY <1>1 DEF TypeOK, Awaited, Instrs
  <1>4. \A n \in mempool : n.by # Gone => n.by # i.by /\ n.by \in Tabs
    <2>1. i.by # Gone => tab[i.by].pc = "answer"
      BY DEF TypeOK, Awaited
    <2>2. \A n \in mempool : n.kind # "answer" /\ n.by \in Tabs \cup {Gone}
      BY DEF TypeOK, Txs, Waiting
    <2> QED BY <2>1, <2>2 DEF TypeOK, Awaited
  <1> QED BY <1>2, <1>3, <1>4, <1>1 DEF TypeOK, Awaited

LEMMA EvaluateGuardTyped == ASSUME TypeOK, NEW i \in instrs, EvaluateGuard(i) PROVE TypeOK'
  <1>1. instrs' \subseteq Instrs /\ tab' \in [Tabs -> Page] /\ Awaited'
    BY AnsweredTyped DEF EvaluateGuard
  <1>2. left' \in [Events -> NoTime..Validity]
    <2>1. i.ev \in Events /\ Validity - i.age \in NoTime..Validity
      BY Times DEF TypeOK, Instrs, NoTime
    <2> QED BY <2>1 DEF EvaluateGuard, TypeOK
  <1> QED BY <1>1, <1>2 DEF EvaluateGuard, TypeOK, chain

LEMMA EvaluateFailsTyped == ASSUME TypeOK, NEW i \in instrs, EvaluateFails(i) PROVE TypeOK'
  <1>1. instrs' \subseteq Instrs /\ tab' \in [Tabs -> Page] /\ Awaited'
    BY AnsweredTyped DEF EvaluateFails
  <1>2. faults' \in 0..MaxFaults
    BY Bounds DEF EvaluateFails, TypeOK
  <1> QED BY <1>1, <1>2 DEF EvaluateFails, TypeOK, chain

\* Time passes for what is held, sent and authorized; who waits for what stays.
LEMMA TickTyped == ASSUME TypeOK, Tick PROVE TypeOK'
  <1>1. \A n \in -1..Validity : Less(n, -1) \in -1..Validity
    BY Times DEF Less
  <1>2. left' \in [Events -> NoTime..Validity]
    <2>1. \A n \in NoTime..Validity : Less(n, NoTime) \in NoTime..Validity
      BY Times DEF Less, NoTime
    <2> QED BY <2>1 DEF Tick, TypeOK
  <1>3. tab' = [t \in Tabs |-> [tab[t] EXCEPT !.left = Less(@, -1)]]
    BY DEF Tick
  <1>4. \A p \in Page : [p EXCEPT !.left = Less(@, -1)] \in Page /\ [p EXCEPT !.left = Less(@, -1)].pc = p.pc
    BY <1>1 DEF Page
  <1>5. tab' \in [Tabs -> Page] /\ \A t \in Tabs : tab'[t].pc = tab[t].pc
    BY <1>3, <1>4 DEF TypeOK
  <1>6. mempool' = {[m EXCEPT !.left = Less(@, -1)] : m \in mempool}
    BY DEF Tick
  <1>7. \A m \in Txs : LET n == [m EXCEPT !.left = Less(@, -1)] IN n \in Txs /\ n.by = m.by /\ n.kind = m.kind
    BY <1>1 DEF Txs
  <1>8. instrs' = {[i EXCEPT !.age = @ + 1] : i \in instrs} /\ \A i \in instrs : i.age < Lag
    BY DEF Tick
  <1>9. \A i \in Instrs : i.age < Lag => LET j == [i EXCEPT !.age = @ + 1] IN j \in Instrs /\ j.by = i.by
    BY Times DEF Instrs
  <1>10. mempool' \subseteq Txs
    BY <1>6, <1>7 DEF TypeOK
  <1>11. instrs' \subseteq Instrs
    BY <1>8, <1>9 DEF TypeOK
  <1>12. Awaited'
    <2>1. \A n \in mempool' : n.by # Gone => tab'[n.by].pc = n.kind
      <3> TAKE n \in mempool'
      <3>1. PICK m \in mempool : n = [m EXCEPT !.left = Less(@, -1)]
        BY <1>6
      <3>2. m \in Txs /\ n.by = m.by /\ n.kind = m.kind
        BY <3>1, <1>7 DEF TypeOK
      <3> HAVE n.by # Gone
      <3>3. m.by \in Tabs /\ tab[m.by].pc = m.kind
        BY <3>2 DEF TypeOK, Awaited, Txs
      <3> QED BY <3>2, <3>3, <1>5
    <2>2. \A j \in instrs' : j.by # Gone => tab'[j.by].pc = "answer"
      <3> TAKE j \in instrs'
      <3>1. PICK i \in instrs : j = [i EXCEPT !.age = @ + 1]
        BY <1>8
      <3>2. i \in Instrs /\ j.by = i.by
        BY <3>1, <1>8, <1>9 DEF TypeOK
      <3> HAVE j.by # Gone
      <3>3. i.by \in Tabs /\ tab[i.by].pc = "answer"
        BY <3>2 DEF TypeOK, Awaited, Instrs
      <3> QED BY <3>2, <3>3, <1>5
    <2>3. \A m, n \in mempool' : m.by = n.by /\ m.by # Gone => m = n
      <3> TAKE m, n \in mempool'
      <3>1. PICK x \in mempool : m = [x EXCEPT !.left = Less(@, -1)]
        BY <1>6
      <3>2. PICK y \in mempool : n = [y EXCEPT !.left = Less(@, -1)]
        BY <1>6
      <3>3. m.by = x.by /\ n.by = y.by
        BY <3>1, <3>2, <1>7 DEF TypeOK
      <3>4. x.by = y.by /\ x.by # Gone => x = y
        BY DEF TypeOK, Awaited
      <3> QED BY <3>1, <3>2, <3>3, <3>4
    <2>4. \A i, j \in instrs' : i.by = j.by /\ i.by # Gone => i = j
      <3> TAKE i, j \in instrs'
      <3>1. PICK x \in instrs : i = [x EXCEPT !.age = @ + 1]
        BY <1>8
      <3>2. PICK y \in instrs : j = [y EXCEPT !.age = @ + 1]
        BY <1>8
      <3>3. i.by = x.by /\ j.by = y.by
        BY <3>1, <3>2, <1>8, <1>9 DEF TypeOK
      <3>4. x.by = y.by /\ x.by # Gone => x = y
        BY DEF TypeOK, Awaited
      <3> QED BY <3>1, <3>2, <3>3, <3>4
    <2> QED BY <2>1, <2>2, <2>3, <2>4 DEF Awaited
  <1>13. faults' \in 0..MaxFaults
    BY Bounds DEF Tick, TypeOK
  <1> QED BY <1>2, <1>5, <1>10, <1>11, <1>12, <1>13 DEF Tick, TypeOK, chain

\* A page that gives up leaves its transaction or instruction to nobody.
LEMMA AbandonTyped ==
  ASSUME TypeOK, NEW t \in Tabs, Abandon(t), NEW p \in Page, tab' = [tab EXCEPT ![t] = p]
  PROVE  mempool' \subseteq Txs /\ instrs' \subseteq Instrs /\ tab' \in [Tabs -> Page] /\ Awaited'
  <1>1. mempool' = {IF m.by = t THEN [m EXCEPT !.by = Gone] ELSE m : m \in mempool}
    BY DEF Abandon
  <1>2. instrs' = {IF i.by = t THEN [i EXCEPT !.by = Gone] ELSE i : i \in instrs}
    BY DEF Abandon
  <1>3. \A m \in Txs : [m EXCEPT !.by = Gone] \in Txs /\ [m EXCEPT !.by = Gone].by = Gone
    BY DEF Txs
  <1>4. \A i \in Instrs : [i EXCEPT !.by = Gone] \in Instrs /\ [i EXCEPT !.by = Gone].by = Gone
    BY DEF Instrs
  <1>5. mempool' \subseteq Txs /\ \A n \in mempool' : n.by # Gone => n \in mempool /\ n.by \in Tabs \ {t}
    <2> SUFFICES ASSUME NEW n \in mempool'
                 PROVE  n \in Txs /\ (n.by # Gone => n \in mempool /\ n.by \in Tabs \ {t})
      OBVIOUS
    <2>1. PICK m \in mempool : n = IF m.by = t THEN [m EXCEPT !.by = Gone] ELSE m
      BY <1>1
    <2>2. m \in Txs /\ m.by \in Tabs \cup {Gone}
      BY DEF TypeOK, Txs
    <2> QED BY <2>1, <2>2, <1>3
  <1>6. instrs' \subseteq Instrs /\ \A j \in instrs' : j.by # Gone => j \in instrs /\ j.by \in Tabs \ {t}
    <2> SUFFICES ASSUME NEW j \in instrs'
                 PROVE  j \in Instrs /\ (j.by # Gone => j \in instrs /\ j.by \in Tabs \ {t})
      OBVIOUS
    <2>1. PICK i \in instrs : j = IF i.by = t THEN [i EXCEPT !.by = Gone] ELSE i
      BY <1>2
    <2>2. i \in Instrs /\ i.by \in Tabs \cup {Gone}
      BY DEF TypeOK, Instrs
    <2> QED BY <2>1, <2>2, <1>4
  <1>7. tab' \in [Tabs -> Page] /\ \A u \in Tabs \ {t} : tab'[u] = tab[u]
    BY DEF TypeOK
  <1> QED BY <1>5, <1>6, <1>7 DEF TypeOK, Awaited

LEMMA FailTyped == ASSUME TypeOK, NEW t \in Tabs, Fail(t) PROVE TypeOK'
  <1> DEFINE p == [tab[t] EXCEPT !.pc = "failed"]
  <1>1. tab[t] \in Page
    BY DEF TypeOK
  <1>2. p \in Page
    BY <1>1 DEF Page, Rest
  <1>3. tab' = [tab EXCEPT ![t] = p]
    BY <1>1 DEF Fail, Failed, TypeOK
  <1> HIDE DEF p
  <1>4. mempool' \subseteq Txs /\ instrs' \subseteq Instrs /\ tab' \in [Tabs -> Page] /\ Awaited'
    BY <1>2, <1>3, AbandonTyped DEF Fail
  <1> QED BY <1>4, Bounds DEF Fail, TypeOK, chain

LEMMA ReloadTyped == ASSUME TypeOK, NEW t \in Tabs, Reload(t) PROVE TypeOK'
  <1> DEFINE p == Blank("idle", Offered)
  <1>1. p \in Page
    BY BlankTyped DEF Rest, Offered
  <1>2. tab' = [tab EXCEPT ![t] = p]
    BY DEF Reload
  <1> HIDE DEF p
  <1>3. mempool' \subseteq Txs /\ instrs' \subseteq Instrs /\ tab' \in [Tabs -> Page] /\ Awaited'
    BY <1>1, <1>2, AbandonTyped DEF Reload
  <1>4. faults' \in 0..MaxFaults
    BY Bounds DEF Reload, TypeOK
  <1> QED BY <1>3, <1>4 DEF Reload, TypeOK, chain

\* The steps outside any page.
LEMMA WorldTyped == ASSUME TypeOK, PolicyExpires \/ Fund \/ Receive PROVE TypeOK'
  <1>1. CASE PolicyExpires
    BY <1>1 DEF PolicyExpires, TypeOK, Awaited, chain
  <1>2. CASE Fund
    BY <1>2, NeedTyped DEF Fund, TypeOK, Awaited, tee
  <1>3. CASE Receive
    BY <1>3, Bounds DEF Receive, TypeOK, Awaited, tee
  <1> QED BY <1>1, <1>2, <1>3

-----------------------------------------------------------------------------
\* Every step of Next is one of these.
LEMMA Steps ==
  ASSUME Next
  PROVE  \/ \E t \in Tabs : \/ Sign(t) \/ Proof(t) \/ SimulatePrepare(t) \/ Snapshot(t) \/ Finish(t)
                            \/ SimulateExecute(t) \/ Confirm(t) \/ Fail(t) \/ Reload(t)
                            \/ \E e \in Events : Run(t, e)
         \/ \E m \in mempool : \/ IncludeRequest(m) \/ IncludePrepare(m) \/ IncludeEvaluate(m)
                               \/ IncludeApprove(m) \/ IncludeExecute(m)
         \/ \E i \in instrs : EvaluateGuard(i) \/ EvaluateFails(i)
         \/ Tick
         \/ PolicyExpires \/ Fund \/ Receive
  BY DEF Next, Step, Include

\* Every variable keeps its type, and a tab waits for one transaction or
\* instruction at most, also when it gives up and starts again
\* (process-payment-flow.tsx keeps one run per page).
THEOREM TypeCorrect == Spec => []TypeOK
  <1>1. TypeOK /\ [Next]_vars => TypeOK'
    <2> SUFFICES ASSUME TypeOK, [Next]_vars PROVE TypeOK'
      OBVIOUS
    <2>1. CASE UNCHANGED vars
      BY <2>1 DEF vars, chain, tee, TypeOK, Awaited
    <2>2. ASSUME NEW t \in Tabs,
                 Sign(t) \/ Proof(t) \/ SimulatePrepare(t) \/ Snapshot(t) \/ Finish(t) \/ SimulateExecute(t)
          PROVE  TypeOK'
      BY <2>2, SignTyped, ProofTyped, SimulatePrepareTyped, SnapshotTyped, FinishTyped, SimulateExecuteTyped
    <2>3. ASSUME NEW t \in Tabs, Confirm(t) \/ Fail(t) \/ Reload(t) \/ \E e \in Events : Run(t, e)
          PROVE  TypeOK'
      BY <2>3, ConfirmTyped, FailTyped, ReloadTyped, RunTyped
    <2>4. ASSUME NEW m \in mempool, \/ IncludeRequest(m) \/ IncludePrepare(m) \/ IncludeEvaluate(m)
                                    \/ IncludeApprove(m) \/ IncludeExecute(m)
          PROVE  TypeOK'
      BY <2>4, IncludeRequestTyped, IncludePrepareTyped, IncludeEvaluateTyped, IncludeApproveTyped, IncludeExecuteTyped
    <2>5. ASSUME NEW i \in instrs, EvaluateGuard(i) \/ EvaluateFails(i) PROVE TypeOK'
      BY <2>5, EvaluateGuardTyped, EvaluateFailsTyped
    <2>6. CASE Tick \/ PolicyExpires \/ Fund \/ Receive
      BY <2>6, TickTyped, WorldTyped
    <2> QED BY <2>1, <2>2, <2>3, <2>4, <2>5, <2>6, Steps
  <1> QED BY <1>1, InitTyped, PTL DEF Spec

-----------------------------------------------------------------------------
\* Which stages a step may enter: "evaluate" of a prepared payment only,
\* "complete" of a payment the tab itself consumed only.
Entered(t) ==
  tab'[t].pc \in {"evaluate", "complete"} =>
    /\ tab'[t].ev = tab[t].ev
    /\ \/ tab'[t].pc = tab[t].pc
       \/ tab'[t].pc = "evaluate" /\ tab[t].ev \in prepared
       \/ tab'[t].pc = "complete" /\ winner[tab[t].ev] = t

\* A step of one tab leaves the others where they are.
LEMMA OthersStay ==
  ASSUME TypeOK, NEW u \in Tabs, NEW p, tab' = [tab EXCEPT ![u] = p],
         \/ p.pc \notin {"evaluate", "complete"}
         \/ p.ev = tab[u].ev /\ p.pc = "evaluate" /\ tab[u].ev \in prepared
         \/ p.ev = tab[u].ev /\ p.pc = "complete" /\ winner[tab[u].ev] = u
  PROVE  \A t \in Tabs : Entered(t)
  BY DEF TypeOK, Entered

LEMMA TabsEnter == ASSUME TypeOK, Next, NEW t \in Tabs PROVE Entered(t)
  <1>1. ASSUME NEW u \in Tabs, NEW pc, Goto(u, pc),
               pc \notin {"evaluate", "complete"} \/ (pc = "evaluate" /\ tab[u].ev \in prepared)
        PROVE  Entered(t)
    <2> DEFINE p == [tab[u] EXCEPT !.pc = pc]
    <2>1. tab' = [tab EXCEPT ![u] = p] /\ p.pc = pc /\ p.ev = tab[u].ev
      BY <1>1 DEF Goto, TypeOK, Page
    <2> HIDE DEF p
    <2> QED BY <1>1, <2>1, OthersStay
  <1>2. ASSUME NEW u \in Tabs, tab' = Failed(u) PROVE Entered(t)
    <2> DEFINE p == [tab[u] EXCEPT !.pc = "failed"]
    <2>1. tab' = [tab EXCEPT ![u] = p] /\ p.pc = "failed"
      BY <1>2 DEF Failed, TypeOK, Page
    <2> HIDE DEF p
    <2> QED BY <2>1, OthersStay
  <1>3. ASSUME tab' = tab PROVE Entered(t)
    BY <1>3 DEF Entered
  <1>4. ASSUME NEW u \in Tabs, Sign(u) PROVE Entered(t)
    <2> DEFINE kind == Sent[tab[u].pc]
               p == [tab[u] EXCEPT !.pc = kind]
    <2>1. kind \in Waiting /\ tab[u] \in Page
      BY <1>4 DEF Sign, Sent, Signing, Waiting, TypeOK
    <2>2. tab' = [tab EXCEPT ![u] = p] /\ p.pc = kind
      BY <1>4, <2>1 DEF Sign, Goto, TypeOK, Page
    <2>3. p.pc \notin {"evaluate", "complete"}
      BY <2>1, <2>2 DEF Waiting
    <2> HIDE DEF p
    <2> QED BY <2>2, <2>3, OthersStay
  <1>5. ASSUME NEW u \in Tabs, Proof(u) \/ SimulatePrepare(u) \/ Snapshot(u) \/ Finish(u) \/ SimulateExecute(u)
        PROVE  Entered(t)
    <2>1. CASE Proof(u)
      BY <1>1, <1>2, <2>1 DEF Proof
    <2>2. CASE SimulatePrepare(u)
      BY <1>1, <1>2, <2>2 DEF SimulatePrepare
    <2>3. CASE Snapshot(u)
      BY <1>1, <1>2, <2>3 DEF Snapshot
    <2>4. CASE Finish(u)
      BY <1>1, <1>2, <2>4 DEF Finish
    <2>5. CASE SimulateExecute(u)
      BY <1>1, <1>2, <2>5 DEF SimulateExecute
    <2> QED BY <1>5, <2>1, <2>2, <2>3, <2>4, <2>5
  <1>6. ASSUME NEW u \in Tabs, Confirm(u) PROVE Entered(t)
    <2>1. CASE Confirmed(u)
      <3> DEFINE p == [tab[u] EXCEPT !.pc = "complete", !.offers = Offered]
      <3>1. tab' = [tab EXCEPT ![u] = p] /\ p.pc = "complete" /\ p.ev = tab[u].ev
        BY <1>6, <2>1 DEF Confirm, TypeOK, Page
      <3>2. winner[tab[u].ev] = u
        BY <2>1 DEF Confirmed
      <3> HIDE DEF p
      <3> QED BY <3>1, <3>2, OthersStay
    <2>2. CASE ~Confirmed(u)
      BY <1>2, <1>6, <2>2 DEF Confirm
    <2> QED BY <2>1, <2>2
  <1>7. ASSUME NEW u \in Tabs, Fail(u) PROVE Entered(t)
    BY <1>2, <1>7 DEF Fail
  <1>8. ASSUME NEW u \in Tabs, Reload(u) PROVE Entered(t)
    <2> DEFINE p == Blank("idle", Offered)
    <2>1. tab' = [tab EXCEPT ![u] = p] /\ p.pc = "idle"
      BY <1>8 DEF Reload, Blank
    <2> HIDE DEF p
    <2> QED BY <2>1, OthersStay
  <1>9. ASSUME NEW u \in Tabs, NEW e \in Events, Run(u, e) PROVE Entered(t)
    <2> DEFINE p == [Blank("request", TRUE) EXCEPT !.ev = e]
    <2>1. tab' = [tab EXCEPT ![u] = p] /\ p.pc = "request"
      BY <1>9 DEF Run, Blank
    <2> HIDE DEF p
    <2> QED BY <2>1, OthersStay
  <1>10. ASSUME NEW m \in mempool, NEW ok, NEW next, next \notin {"evaluate", "complete"}, Receipt(m, ok, next)
         PROVE  Entered(t)
    <2>1. m.by \in Tabs \cup {Gone}
      BY DEF TypeOK, Txs
    <2>2. CASE m.by # Gone /\ ok
      BY <1>1, <1>10, <2>1, <2>2 DEF Receipt, Goto
    <2>3. CASE m.by # Gone /\ ~ok
      BY <1>2, <1>10, <2>1, <2>3 DEF Receipt
    <2>4. CASE m.by = Gone
      BY <1>3, <1>10, <2>4 DEF Receipt
    <2> QED BY <2>2, <2>3, <2>4
  <1>11. ASSUME NEW m \in mempool, \/ IncludeRequest(m) \/ IncludePrepare(m) \/ IncludeEvaluate(m)
                                   \/ IncludeApprove(m) \/ IncludeExecute(m)
         PROVE  Entered(t)
    <2>1. PICK next \in {"proof", "snapshot", "answer", "execute", "confirm"} :
            Receipt(m, TRUE, next) \/ Receipt(m, m.ev \notin prepared /\ winner[m.ev] = None, next)
      BY <1>11 DEF IncludeRequest, IncludePrepare, IncludeEvaluate, IncludeApprove, IncludeExecute
    <2>2. next \notin {"evaluate", "complete"}
      OBVIOUS
    <2> QED BY <1>10, <2>1, <2>2
  <1>12. ASSUME NEW i \in instrs, NEW ok, tab' = Answer(i, ok) PROVE Entered(t)
    <2>1. i.by \in Tabs \cup {Gone}
      BY DEF TypeOK, Instrs
    <2>2. CASE i.by # Gone /\ ok
      <3> DEFINE p == [tab[i.by] EXCEPT !.pc = "answered", !.left = Validity - i.age, !.early = i.early]
      <3>1. i.by \in Tabs /\ tab[i.by] \in Page
        BY <2>1, <2>2 DEF TypeOK
      <3>2. tab' = [tab EXCEPT ![i.by] = p] /\ p.pc = "answered"
        BY <1>12, <2>2, <3>1 DEF Answer, TypeOK, Page
      <3> HIDE DEF p
      <3> QED BY <3>1, <3>2, OthersStay
    <2>3. CASE i.by # Gone /\ ~ok
      BY <1>2, <1>12, <2>1, <2>3 DEF Answer
    <2>4. CASE i.by = Gone
      BY <1>3, <1>12, <2>4 DEF Answer
    <2> QED BY <2>2, <2>3, <2>4
  <1>13. ASSUME NEW i \in instrs, EvaluateGuard(i) \/ EvaluateFails(i) PROVE Entered(t)
    BY <1>12, <1>13 DEF EvaluateGuard, EvaluateFails
  <1>14. CASE Tick
    BY <1>14 DEF Tick, TypeOK, Page, Entered
  <1>15. CASE PolicyExpires \/ Fund \/ Receive
    BY <1>3, <1>15 DEF PolicyExpires, Fund, Receive
  <1> QED BY <1>4, <1>5, <1>6, <1>7, <1>8, <1>9, <1>11, <1>13, <1>14, <1>15, Steps

\* Snapshots stay, and what was consumed keeps the result it was consumed with.
LEMMA ChainGrows ==
  ASSUME TypeOK, Next
  PROVE  prepared \subseteq prepared' /\ \A e \in Events : winner[e] # None => winner'[e] = winner[e]
  <1>1. ASSUME NEW m \in mempool, IncludePrepare(m)
        PROVE  prepared \subseteq prepared' /\ winner' = winner
    BY <1>1 DEF IncludePrepare
  <1>2. ASSUME NEW m \in mempool, IncludeExecute(m)
        PROVE  prepared' = prepared /\ \A e \in Events : winner[e] # None => winner'[e] = winner[e]
    <2>1. m.ev \in Events
      BY DEF TypeOK, Txs
    <2>2. \A e \in Events \ {m.ev} : winner'[e] = winner[e]
      BY <1>2, <2>1 DEF IncludeExecute, TypeOK
    <2>3. winner[m.ev] # None => winner'[m.ev] = winner[m.ev]
      BY <1>2, <2>1 DEF IncludeExecute, Executable, TypeOK
    <2> QED BY <1>2, <2>2, <2>3 DEF IncludeExecute
  <1>3. ASSUME NEW m \in mempool, IncludeRequest(m) \/ IncludeEvaluate(m) \/ IncludeApprove(m)
        PROVE  prepared' = prepared /\ winner' = winner
    BY <1>3 DEF IncludeRequest, IncludeEvaluate, IncludeApprove, chain
  <1>4. ASSUME NEW t \in Tabs,
               \/ Sign(t) \/ Proof(t) \/ SimulatePrepare(t) \/ Snapshot(t) \/ Finish(t)
               \/ SimulateExecute(t) \/ Confirm(t) \/ Fail(t) \/ Reload(t) \/ \E e \in Events : Run(t, e)
        PROVE  prepared' = prepared /\ winner' = winner
    BY <1>4 DEF Sign, Proof, SimulatePrepare, Snapshot, Finish, SimulateExecute, Confirm, Fail, Reload, Run, chain
  <1>5. ASSUME NEW i \in instrs, EvaluateGuard(i) \/ EvaluateFails(i) PROVE prepared' = prepared /\ winner' = winner
    BY <1>5 DEF EvaluateGuard, EvaluateFails, chain
  <1>6. ASSUME Tick \/ PolicyExpires \/ Fund \/ Receive PROVE prepared' = prepared /\ winner' = winner
    BY <1>6 DEF Tick, PolicyExpires, Fund, Receive, chain
  <1> QED BY <1>1, <1>2, <1>3, <1>4, <1>5, <1>6, Steps

\* "Protection activated" is said of a payment this tab's own result consumed, not another
\* tab's and not one given up before (process-payment-flow.tsx:29, lib/payment-flow.ts).
THEOREM CompletionOwn == Spec => []CompleteIsOwn
  <1>1. Init => CompleteIsOwn
    BY DEF Init, CompleteIsOwn, Blank
  <1>2. TypeOK /\ CompleteIsOwn /\ [Next]_vars => CompleteIsOwn'
    <2> SUFFICES ASSUME TypeOK, CompleteIsOwn, [Next]_vars, NEW t \in Tabs, tab'[t].pc = "complete"
                 PROVE  winner'[tab'[t].ev] = t
      BY DEF CompleteIsOwn
    <2>1. CASE UNCHANGED vars
      BY <2>1 DEF vars, chain, CompleteIsOwn
    <2>2. CASE Next
      <3>1. tab'[t].ev = tab[t].ev /\ (tab[t].pc = "complete" \/ winner[tab[t].ev] = t)
        BY <2>2, TabsEnter DEF Entered
      <3>2. winner[tab[t].ev] = t /\ tab[t].ev \in Events /\ t # None
        BY <3>1, TabNames DEF CompleteIsOwn, TypeOK, Page, None
      <3> QED BY <2>2, <3>1, <3>2, ChainGrows
    <2> QED BY <2>1, <2>2
  <1> QED BY <1>1, <1>2, TypeCorrect, PTL DEF Spec

-----------------------------------------------------------------------------
\* An evaluation waiting to be mined was waiting before, or is asked for now.
LEMMA EvaluationsSent ==
  ASSUME TypeOK, Next, NEW n \in mempool', n.kind = "evaluating"
  PROVE  \/ \E m \in mempool : m.kind = "evaluating" /\ m.ev = n.ev
         \/ \E t \in Tabs : tab[t].pc = "evaluate" /\ tab[t].ev = n.ev
  <1> DEFINE Before == \E m \in mempool : m.kind = "evaluating" /\ m.ev = n.ev
  <1>1. ASSUME NEW t \in Tabs, Sign(t)
        PROVE  Before \/ (tab[t].pc = "evaluate" /\ tab[t].ev = n.ev)
    <2>1. CASE n \in mempool
      BY <2>1
    <2>2. CASE n \notin mempool
      <3>1. n.kind = Sent[tab[t].pc] /\ n.ev = tab[t].ev
        BY <1>1, <2>2 DEF Sign
      <3>2. tab[t].pc = "evaluate"
        BY <1>1, <3>1 DEF Sign, Sent, Signing
      <3> QED BY <3>1, <3>2
    <2> QED BY <2>1, <2>2
  <1>2. ASSUME n \in mempool PROVE Before
    BY <1>2
  <1>3. ASSUME NEW t \in Tabs,
               \/ Proof(t) \/ SimulatePrepare(t) \/ Snapshot(t) \/ Finish(t)
               \/ SimulateExecute(t) \/ Confirm(t) \/ \E e \in Events : Run(t, e)
        PROVE  Before
    BY <1>2, <1>3 DEF Proof, SimulatePrepare, Snapshot, Finish, SimulateExecute, Confirm, Run
  <1>4. ASSUME NEW t \in Tabs, Fail(t) \/ Reload(t) PROVE Before
    <2>1. PICK m \in mempool : n = IF m.by = t THEN [m EXCEPT !.by = Gone] ELSE m
      BY <1>4 DEF Fail, Reload, Abandon
    <2>2. m \in Txs
      BY DEF TypeOK
    <2>3. n.kind = m.kind /\ n.ev = m.ev
      BY <2>1, <2>2 DEF Txs
    <2> QED BY <2>3
  <1>5. ASSUME NEW m \in mempool, \/ IncludeRequest(m) \/ IncludePrepare(m) \/ IncludeEvaluate(m)
                                  \/ IncludeApprove(m) \/ IncludeExecute(m)
        PROVE  Before
    BY <1>2, <1>5 DEF IncludeRequest, IncludePrepare, IncludeEvaluate, IncludeApprove, IncludeExecute, Take
  <1>6. ASSUME NEW i \in instrs, EvaluateGuard(i) \/ EvaluateFails(i) PROVE Before
    BY <1>2, <1>6 DEF EvaluateGuard, EvaluateFails
  <1>7. CASE Tick
    <2>1. PICK m \in mempool : n = [m EXCEPT !.left = Less(@, -1)]
      BY <1>7 DEF Tick
    <2>2. m \in Txs
      BY DEF TypeOK
    <2>3. n.kind = m.kind /\ n.ev = m.ev
      BY <2>1, <2>2 DEF Txs
    <2> QED BY <2>3
  <1>8. CASE PolicyExpires \/ Fund \/ Receive
    BY <1>2, <1>8 DEF PolicyExpires, Fund, Receive
  <1> QED BY <1>1, <1>3, <1>4, <1>5, <1>6, <1>7, <1>8, Steps

\* An instruction was on its way before, or its transaction is mined now.
LEMMA EvaluationsMined ==
  ASSUME TypeOK, Next, NEW j \in instrs'
  PROVE  \/ \E i \in instrs : i.early = j.early
         \/ \E m \in mempool : m.kind = "evaluating" /\ j.early = (m.ev \notin prepared)
  <1>1. ASSUME j \in instrs PROVE \E i \in instrs : i.early = j.early
    BY <1>1
  <1>2. ASSUME NEW t \in Tabs,
               \/ Sign(t) \/ Proof(t) \/ SimulatePrepare(t) \/ Snapshot(t) \/ Finish(t)
               \/ SimulateExecute(t) \/ Confirm(t) \/ \E e \in Events : Run(t, e)
        PROVE  j \in instrs
    BY <1>2 DEF Sign, Proof, SimulatePrepare, Snapshot, Finish, SimulateExecute, Confirm, Run, tee
  <1>3. ASSUME NEW t \in Tabs, Fail(t) \/ Reload(t) PROVE \E i \in instrs : i.early = j.early
    <2>1. PICK i \in instrs : j = IF i.by = t THEN [i EXCEPT !.by = Gone] ELSE i
      BY <1>3 DEF Fail, Reload, Abandon
    <2>2. i \in Instrs
      BY DEF TypeOK
    <2>3. j.early = i.early
      BY <2>1, <2>2 DEF Instrs
    <2> QED BY <2>3
  <1>4. ASSUME NEW m \in mempool, IncludeRequest(m) \/ IncludePrepare(m) \/ IncludeApprove(m) \/ IncludeExecute(m)
        PROVE  j \in instrs
    BY <1>4 DEF IncludeRequest, IncludePrepare, IncludeApprove, IncludeExecute, tee
  <1>5. ASSUME NEW m \in mempool, IncludeEvaluate(m), j \notin instrs
        PROVE  m.kind = "evaluating" /\ j.early = (m.ev \notin prepared)
    BY <1>5 DEF IncludeEvaluate, Take
  <1>6. ASSUME NEW i \in instrs, EvaluateGuard(i) \/ EvaluateFails(i) PROVE j \in instrs
    BY <1>6 DEF EvaluateGuard, EvaluateFails
  <1>7. ASSUME Tick PROVE \E i \in instrs : i.early = j.early
    <2>1. PICK i \in instrs : j = [i EXCEPT !.age = @ + 1]
      BY <1>7 DEF Tick
    <2>2. i \in Instrs
      BY DEF TypeOK
    <2>3. j.early = i.early
      BY <2>1, <2>2 DEF Instrs
    <2> QED BY <2>3
  <1>8. ASSUME PolicyExpires \/ Fund \/ Receive PROVE j \in instrs
    BY <1>8 DEF PolicyExpires, Fund, Receive, tee
  <1> QED BY <1>1, <1>2, <1>3, <1>4, <1>5, <1>6, <1>7, <1>8, Steps

\* Wherever an evaluation is on its way, from the click to the instruction, its payment has its snapshot.
Usable ==
  /\ DecisionsUsable
  /\ \A m \in mempool : m.kind = "evaluating" => m.ev \in prepared
  /\ \A t \in Tabs : tab[t].pc = "evaluate" => tab[t].ev \in prepared

\* No decision is dated before the snapshot it is about, whatever was signed, given up and
\* signed again (process-payment-flow.tsx:25-26, internal/extension/extension.go:255).
THEOREM NeverEarly == Spec => []DecisionsUsable
  <1>1. Init => Usable
    BY DEF Init, Usable, DecisionsUsable, Blank
  <1>2. TypeOK /\ Usable /\ [Next]_vars => Usable'
    <2> SUFFICES ASSUME TypeOK, Usable, [Next]_vars PROVE Usable'
      OBVIOUS
    <2>1. CASE UNCHANGED vars
      BY <2>1 DEF vars, chain, tee, Usable, DecisionsUsable
    <2>2. CASE Next
      <3>1. prepared \subseteq prepared'
        BY <2>2, ChainGrows
      <3>2. ASSUME NEW j \in instrs' PROVE ~j.early
        BY <2>2, <3>2, EvaluationsMined DEF Usable, DecisionsUsable, TypeOK, Instrs
      <3>3. ASSUME NEW n \in mempool', n.kind = "evaluating" PROVE n.ev \in prepared'
        BY <2>2, <3>1, <3>3, EvaluationsSent DEF Usable
      <3>4. ASSUME NEW t \in Tabs, tab'[t].pc = "evaluate" PROVE tab'[t].ev \in prepared'
        BY <2>2, <3>1, <3>4, TabsEnter DEF Usable, Entered
      <3> QED BY <3>2, <3>3, <3>4 DEF Usable, DecisionsUsable
    <2> QED BY <2>1, <2>2
  <1>3. Usable => DecisionsUsable
    BY DEF Usable
  <1> QED BY <1>1, <1>2, <1>3, TypeCorrect, PTL DEF Spec

-----------------------------------------------------------------------------
(* The creation page: a system of its own, none of whose variables is one *)
(* of the payment page's.                                                 *)

CreationTxs == [kind : {"policy", "guard"}, rule : 1..MaxRuns, held : BOOLEAN]

\* What the page waits for is its own, and there is one of it.
Held ==
  /\ \A m \in signed : m.held =>
       /\ m.rule = run.rule
       /\ run.pc = IF m.kind = "policy" THEN "policy-confirmation" ELSE "guard-confirmation"
  /\ \A i \in requests : i.held => i.rule = run.rule /\ run.pc = "policy-processing"

\* From the verified acceptance on, the run's policy is in the extension's store.
Stored ==
  /\ run.pc = "answered" /\ run.accepted => run.rule \in policies
  /\ run.pc = "guard-signature" => run.rule \in policies
  /\ \A m \in signed : m.kind = "guard" => m.rule \in policies

\* GuardHasPolicy is not inductive: the transaction that registers a guard may
\* be mined after its page is gone, and the answer that allowed it is older still.
CreationInv ==
  /\ run \in [pc : Resting \cup Creating, rule : 0..MaxRuns, accepted : BOOLEAN]
  /\ run.pc \in Creating => run.rule # 0
  /\ drawn \in 0..MaxRuns /\ failures \in 0..MaxFailures
  /\ signed \subseteq CreationTxs /\ requests \subseteq Requests
  /\ policies \subseteq 1..MaxRuns /\ guards \subseteq policies /\ listed \subseteq guards
  /\ Held /\ Stored

LEMMA CreationInitInv == CreationInit => CreationInv
  BY CreationBounds DEF CreationInit, CreationInv, Held, Stored, Resting, Creating

LEMMA CreateGuardInv == ASSUME CreationInv, CreateGuard PROVE CreationInv'
  <1>1. run' = [pc |-> "preparing", rule |-> drawn + 1, accepted |-> FALSE] /\ drawn' = drawn + 1 /\ drawn < MaxRuns
    BY DEF CreateGuard, RuleOf
  <1>2. drawn + 1 \in 1..MaxRuns
    BY <1>1, CreationBounds DEF CreationInv
  <1>3. \A m \in signed : ~m.held
    BY DEF CreationInv, Held, CreateGuard, Resting
  <1>4. \A i \in requests : ~i.held
    BY DEF CreationInv, Held, CreateGuard, Resting
  <1>5. Held' /\ Stored'
    BY <1>1, <1>3, <1>4 DEF CreationInv, Held, Stored, CreateGuard, world
  <1>6. run' \in [pc : Resting \cup Creating, rule : 0..MaxRuns, accepted : BOOLEAN]
    BY <1>1, <1>2 DEF Creating
  <1> QED BY <1>1, <1>2, <1>5, <1>6 DEF CreationInv, CreateGuard, world

\* A stage in which nothing is held.
LEMMA NothingHeld ==
  ASSUME CreationInv, run.pc \notin {"policy-confirmation", "guard-confirmation", "policy-processing"}
  PROVE  (\A m \in signed : ~m.held) /\ (\A i \in requests : ~i.held)
  BY DEF CreationInv, Held, CreationTxs

LEMMA PrepareInv == ASSUME CreationInv, Prepare PROVE CreationInv'
  <1>1. run' = [run EXCEPT !.pc = "policy-signature"] /\ run.pc = "preparing"
    BY DEF Prepare, Stage
  <1>2. (\A m \in signed : ~m.held) /\ (\A i \in requests : ~i.held)
    BY <1>1, NothingHeld
  <1>3. run' \in [pc : Resting \cup Creating, rule : 0..MaxRuns, accepted : BOOLEAN] /\ run'.pc = "policy-signature" /\ run'.rule # 0
    BY <1>1 DEF CreationInv, Creating
  <1> QED BY <1>2, <1>3 DEF CreationInv, Held, Stored, Prepare, world

LEMMA SendPolicyInv == ASSUME CreationInv, SendPolicy PROVE CreationInv'
  <1> DEFINE m == [kind |-> "policy", rule |-> run.rule, held |-> TRUE]
  <1>1. run' = [run EXCEPT !.pc = "policy-confirmation"] /\ run.pc = "policy-signature" /\ signed' = signed \cup {m}
    BY DEF SendPolicy, Send, Stage
  <1>2. (\A n \in signed : ~n.held) /\ (\A i \in requests : ~i.held)
    BY <1>1, NothingHeld
  <1>3. /\ run' \in [pc : Resting \cup Creating, rule : 0..MaxRuns, accepted : BOOLEAN]
        /\ run'.pc = "policy-confirmation" /\ run'.rule = run.rule /\ run.rule \in 1..MaxRuns
    BY <1>1, CreationBounds DEF CreationInv, Creating
  <1>4. m \in CreationTxs /\ m.kind = "policy" /\ m.rule = run.rule
    BY <1>3 DEF CreationTxs
  <1> HIDE DEF m
  <1>5. Held' /\ Stored'
    BY <1>1, <1>2, <1>3, <1>4 DEF CreationInv, Held, Stored, SendPolicy, Send
  <1> QED BY <1>1, <1>3, <1>4, <1>5 DEF CreationInv, SendPolicy, Send

LEMMA SendGuardInv == ASSUME CreationInv, SendGuard PROVE CreationInv'
  <1> DEFINE m == [kind |-> "guard", rule |-> run.rule, held |-> TRUE]
  <1>1. run' = [run EXCEPT !.pc = "guard-confirmation"] /\ run.pc = "guard-signature" /\ signed' = signed \cup {m}
    BY DEF SendGuard, Send, Stage
  <1>2. (\A n \in signed : ~n.held) /\ (\A i \in requests : ~i.held)
    BY <1>1, NothingHeld
  <1>3. /\ run' \in [pc : Resting \cup Creating, rule : 0..MaxRuns, accepted : BOOLEAN]
        /\ run'.pc = "guard-confirmation" /\ run'.rule = run.rule /\ run.rule \in 1..MaxRuns
    BY <1>1, CreationBounds DEF CreationInv, Creating
  <1>4. m \in CreationTxs /\ m.kind = "guard" /\ m.rule = run.rule /\ run.rule \in policies
    BY <1>1, <1>3 DEF CreationTxs, CreationInv, Stored
  <1> HIDE DEF m
  <1>5. Held' /\ Stored'
    BY <1>1, <1>2, <1>3, <1>4 DEF CreationInv, Held, Stored, SendGuard, Send
  <1> QED BY <1>1, <1>3, <1>4, <1>5 DEF CreationInv, SendGuard, Send

LEMMA PolicyResultInv == ASSUME CreationInv, PolicyResult PROVE CreationInv'
  <1>1. PICK pc \in {"guard-signature", "failed"} :
          run' = [run EXCEPT !.pc = pc] /\ run.pc = "answered" /\ (pc = "guard-signature" => run.accepted)
    BY DEF PolicyResult, Stage, VerifiedResult
  <1>2. (\A n \in signed : ~n.held) /\ (\A i \in requests : ~i.held)
    BY <1>1, NothingHeld
  <1>3. run' \in [pc : Resting \cup Creating, rule : 0..MaxRuns, accepted : BOOLEAN] /\ run'.pc = pc /\ run'.rule = run.rule
    BY <1>1 DEF CreationInv, Creating, Resting
  <1>4. run.rule # 0
    BY <1>1 DEF CreationInv, Creating
  <1> QED BY <1>1, <1>2, <1>3, <1>4 DEF CreationInv, Held, Stored, PolicyResult, world

LEMMA VerifyGuardInv == ASSUME CreationInv, VerifyGuard PROVE CreationInv'
  <1>1. PICK pc \in {"complete", "failed"} : run' = [run EXCEPT !.pc = pc] /\ run.pc = "verifying"
    BY DEF VerifyGuard, Stage
  <1>2. (\A n \in signed : ~n.held) /\ (\A i \in requests : ~i.held)
    BY <1>1, NothingHeld
  <1>3. run' \in [pc : Resting \cup Creating, rule : 0..MaxRuns, accepted : BOOLEAN] /\ run'.pc = pc /\ run'.pc \notin Creating
    BY <1>1 DEF CreationInv, Creating, Resting
  <1>4. listed' \subseteq guards
    BY DEF VerifyGuard, CreationInv
  <1> QED BY <1>2, <1>3, <1>4 DEF CreationInv, Held, Stored, VerifyGuard, world

LEMMA IncludePolicyInv == ASSUME CreationInv, IncludePolicy PROVE CreationInv'
  <1>1. PICK m \in signed :
          /\ m.kind = "policy" /\ signed' = signed \ {m}
          /\ requests' = requests \cup {[rule |-> m.rule, held |-> m.held]}
          /\ IF m.held THEN run' = [run EXCEPT !.pc = "policy-processing"] ELSE run' = run
          /\ UNCHANGED <<drawn, policies, guards, listed, failures>>
    BY DEF IncludePolicy, Stage
  <1>2. m \in CreationTxs /\ [rule |-> m.rule, held |-> m.held] \in Requests
    BY DEF CreationInv, CreationTxs, Requests
  <1>3. signed' \subseteq CreationTxs /\ requests' \subseteq Requests
    BY <1>1, <1>2 DEF CreationInv
  <1>4. CASE m.held
    <2>1. run.pc = "policy-confirmation" /\ m.rule = run.rule
      BY <1>1, <1>4 DEF CreationInv, Held
    <2>2. \A n \in signed' : ~n.held
      BY <1>1, <1>2, <1>4, <2>1 DEF CreationInv, Held, CreationTxs
    <2>3. /\ run' \in [pc : Resting \cup Creating, rule : 0..MaxRuns, accepted : BOOLEAN]
          /\ run'.pc = "policy-processing" /\ run'.rule = run.rule /\ run.rule # 0
      BY <1>1, <1>4, <2>1 DEF CreationInv, Creating
    <2>4. \A i \in requests : ~i.held
      BY <2>1 DEF CreationInv, Held
    <2>5. Held' /\ Stored'
      BY <1>1, <2>1, <2>2, <2>3, <2>4 DEF CreationInv, Held, Stored
    <2> QED BY <1>1, <1>3, <2>3, <2>5 DEF CreationInv
  <1>5. CASE ~m.held
    <2>1. Held' /\ Stored'
      BY <1>1, <1>5 DEF CreationInv, Held, Stored
    <2> QED BY <1>1, <1>3, <1>5, <2>1 DEF CreationInv
  <1> QED BY <1>4, <1>5

LEMMA IncludeGuardInv == ASSUME CreationInv, IncludeGuard PROVE CreationInv'
  <1>1. PICK m \in signed :
          /\ m.kind = "guard" /\ signed' = signed \ {m} /\ guards' = guards \cup {m.rule}
          /\ IF m.held THEN Stage(IF m.rule \in guards THEN "failed" ELSE "verifying") ELSE run' = run
          /\ UNCHANGED <<drawn, requests, policies, listed, failures>>
    BY DEF IncludeGuard
  <1>2. m \in CreationTxs /\ m.rule \in policies /\ guards' \subseteq policies /\ listed \subseteq guards'
    BY <1>1 DEF CreationInv, Stored
  <1>3. CASE m.held
    <2>1. run.pc = "guard-confirmation" /\ m.rule = run.rule
      BY <1>1, <1>3 DEF CreationInv, Held
    <2>2. \A n \in signed' : ~n.held
      BY <1>1, <1>2, <1>3, <2>1 DEF CreationInv, Held, CreationTxs
    <2>3. PICK pc \in {"failed", "verifying"} : run' = [run EXCEPT !.pc = pc]
      BY <1>1, <1>3 DEF Stage
    <2>4. /\ run' \in [pc : Resting \cup Creating, rule : 0..MaxRuns, accepted : BOOLEAN]
          /\ run'.pc = pc /\ run'.rule = run.rule /\ run.rule # 0
      BY <2>1, <2>3 DEF CreationInv, Creating, Resting
    <2>5. \A i \in requests : ~i.held
      BY <2>1 DEF CreationInv, Held
    <2>6. Held' /\ Stored'
      BY <1>1, <2>2, <2>4, <2>5 DEF CreationInv, Held, Stored
    <2> QED BY <1>1, <1>2, <2>4, <2>6 DEF CreationInv
  <1>4. CASE ~m.held
    <2>1. Held' /\ Stored'
      BY <1>1, <1>4 DEF CreationInv, Held, Stored
    <2> QED BY <1>1, <1>2, <1>4, <2>1 DEF CreationInv
  <1> QED BY <1>3, <1>4

\* An answer, with or without its policy in the store: an acceptance only with it.
LEMMA ReplyInv ==
  ASSUME CreationInv, NEW i \in requests, requests' = requests \ {i}, NEW ok \in BOOLEAN, Reply(i, ok),
         policies' \in {policies, policies \cup {i.rule}}, ok => i.rule \in policies',
         UNCHANGED <<drawn, signed, guards, listed>>, failures' \in 0..MaxFailures
  PROVE  CreationInv'
  <1>1. i \in Requests /\ policies \subseteq policies' /\ policies' \subseteq 1..MaxRuns /\ requests' \subseteq Requests
    BY DEF CreationInv, Requests
  <1>2. CASE i.held
    <2>1. run.pc = "policy-processing" /\ run.rule = i.rule
      BY <1>2 DEF CreationInv, Held
    <2>2. (\A m \in signed : ~m.held) /\ \A j \in requests' : ~j.held
      BY <1>1, <1>2, <2>1 DEF CreationInv, Held, Requests
    <2>3. run' = [run EXCEPT !.pc = "answered", !.accepted = ok]
      BY <1>2 DEF Reply
    <2>4. /\ run' \in [pc : Resting \cup Creating, rule : 0..MaxRuns, accepted : BOOLEAN]
          /\ run'.pc = "answered" /\ run'.rule = run.rule /\ run'.accepted = ok /\ run.rule # 0
      BY <2>1, <2>3 DEF CreationInv, Creating
    <2>5. Held' /\ Stored'
      BY <1>1, <2>1, <2>2, <2>4 DEF CreationInv, Held, Stored
    <2> QED BY <1>1, <2>4, <2>5 DEF CreationInv
  <1>3. CASE ~i.held
    <2>1. run' = run
      BY <1>3 DEF Reply
    <2>2. Held' /\ Stored'
      BY <1>1, <2>1 DEF CreationInv, Held, Stored
    <2> QED BY <1>1, <2>1, <2>2 DEF CreationInv
  <1> QED BY <1>2, <1>3

\* Whatever was sent goes on, with the page waiting for nothing.
LEMMA ReleaseInv ==
  ASSUME CreationInv, Release, run' \in [pc : Resting, rule : 0..MaxRuns, accepted : BOOLEAN], failures' \in 0..MaxFailures
  PROVE  CreationInv'
  <1>1. \A m \in CreationTxs : LET n == [m EXCEPT !.held = FALSE] IN n \in CreationTxs /\ ~n.held /\ n.rule = m.rule /\ n.kind = m.kind
    BY DEF CreationTxs
  <1>2. \A i \in Requests : LET j == [i EXCEPT !.held = FALSE] IN j \in Requests /\ ~j.held
    BY DEF Requests
  <1>3. signed' \subseteq CreationTxs /\ \A n \in signed' : ~n.held /\ (n.kind = "guard" => n.rule \in policies)
    <2> SUFFICES ASSUME NEW n \in signed'
                 PROVE  n \in CreationTxs /\ ~n.held /\ (n.kind = "guard" => n.rule \in policies)
      OBVIOUS
    <2>1. PICK m \in signed : n = [m EXCEPT !.held = FALSE]
      BY DEF Release
    <2>2. m \in CreationTxs /\ (m.kind = "guard" => m.rule \in policies)
      BY DEF CreationInv, Stored
    <2> QED BY <2>1, <2>2, <1>1
  <1>4. requests' \subseteq Requests /\ \A j \in requests' : ~j.held
    BY <1>2 DEF Release, CreationInv
  <1>5. run'.pc \notin Creating \cup {"answered", "guard-signature"} /\ run' \in [pc : Resting \cup Creating, rule : 0..MaxRuns, accepted : BOOLEAN]
    BY DEF Resting, Creating
  <1> QED BY <1>3, <1>4, <1>5 DEF CreationInv, Held, Stored, Release

LEMMA CreationNextInv == CreationInv /\ [CreationNext]_creationVars => CreationInv'
  <1> SUFFICES ASSUME CreationInv, [CreationNext]_creationVars PROVE CreationInv'
    OBVIOUS
  <1>1. CASE UNCHANGED creationVars
    BY <1>1 DEF creationVars, world, CreationInv, Held, Stored
  <1>2. CASE CreateGuard
    BY <1>2, CreateGuardInv
  <1>3. CASE CreationPage
    BY <1>3, PrepareInv, SendPolicyInv, PolicyResultInv, SendGuardInv, VerifyGuardInv DEF CreationPage
  <1>4. CASE IncludePolicy \/ IncludeGuard
    BY <1>4, IncludePolicyInv, IncludeGuardInv
  <1>5. ASSUME NEW i \in requests, CreatePolicy(i) PROVE CreationInv'
    <2> DEFINE ok == i.rule \notin policies
    <2>1. Reply(i, ok) /\ ok \in BOOLEAN /\ policies' = policies \cup {i.rule} /\ requests' = requests \ {i}
      BY <1>5 DEF CreatePolicy
    <2>2. failures' \in 0..MaxFailures /\ UNCHANGED <<drawn, signed, guards, listed>>
      BY <1>5 DEF CreatePolicy, CreationInv
    <2> HIDE DEF ok
    <2> QED BY <2>1, <2>2, ReplyInv
  <1>6. ASSUME NEW i \in requests, CreatePolicyFails(i) PROVE CreationInv'
    <2>1. Reply(i, FALSE) /\ policies' \in {policies, policies \cup {i.rule}} /\ requests' = requests \ {i}
      BY <1>6 DEF CreatePolicyFails
    <2>2. failures' \in 0..MaxFailures /\ UNCHANGED <<drawn, signed, guards, listed>>
      BY <1>6, CreationBounds DEF CreatePolicyFails, CreationInv
    <2> QED BY <2>1, <2>2, ReplyInv
  <1>7. CASE CreationFails \/ CreationReload
    <2>1. Release /\ failures' \in 0..MaxFailures
      BY <1>7, CreationBounds DEF CreationFails, CreationReload, CreationInv
    <2>2. CASE CreationFails
      <3>1. run' = [run EXCEPT !.pc = "failed"]
        BY <2>2 DEF CreationFails, Stage
      <3>2. run' \in [pc : Resting, rule : 0..MaxRuns, accepted : BOOLEAN]
        BY <3>1 DEF CreationInv, Resting
      <3> QED BY <2>1, <3>2, ReleaseInv
    <2>3. CASE CreationReload
      <3>1. run' \in [pc : Resting, rule : 0..MaxRuns, accepted : BOOLEAN]
        BY <2>3, CreationBounds DEF CreationReload, Resting, CreationInv
      <3> QED BY <2>1, <3>1, ReleaseInv
    <2> QED BY <1>7, <2>2, <2>3
  <1> QED BY <1>1, <1>2, <1>3, <1>4, <1>5, <1>6, <1>7 DEF CreationNext

\* Every variable keeps its type, and only guards read back from the chain are
\* indexed (create-guard-flow.tsx).
THEOREM CreationTypeCorrect == CreationSpec => []CreationTypeOK
  <1>1. CreationInv => CreationTypeOK
    BY DEF CreationInv, CreationTypeOK, CreationTxs
  <1> QED BY <1>1, CreationInitInv, CreationNextInv, PTL DEF CreationSpec

\* A guard on chain has its policy in the extension's store, whatever failed,
\* was closed or came late (create-guard-flow.tsx, policy-app-helper's verify).
THEOREM GuardsHavePolicies == CreationSpec => []GuardHasPolicy
  <1>1. CreationInv => GuardHasPolicy
    BY DEF CreationInv, GuardHasPolicy
  <1> QED BY <1>1, CreationInitInv, CreationNextInv, PTL DEF CreationSpec
=============================================================================

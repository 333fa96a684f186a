--------------------------- MODULE RunTestProofs ---------------------------
(***************************************************************************)
(* For every number of process starts, kills, instructions and scenarios,  *)
(* with machines that join the set at any time: no restore goes to an      *)
(* older machine than it is encrypted for, none is submitted while an      *)
(* earlier one may still be answered, nothing is submitted on the strength *)
(* of a mistaken ban, and POLICY_RESTORED is true when it is said.         *)
(***************************************************************************)
EXTENDS RunTest, ArithmeticProofs, SequenceTheorems, TLAPS

-----------------------------------------------------------------------------
(* The inductive invariant *)

Stages == {"idle", "validate", "list", "ban", "gate", "prior", "send", "await", "count"}
Nodes == 0..(MaxNodes + 1)
Instruction ==
  [op : {"create", "malformed", "evaluate"}, rule : 0..MaxExtra, event : Prepared \cup {"random"},
   want : {"ok", "refused"}, key : Nodes, to : Nodes, status : {"pending", "ok", "refused"}]
Run ==
  [mode : Modes \cup {"none"}, pc : Stages, tee : Nodes, ban : SUBSET Nodes, at : Nat, k : 0..6]

WorldTyped ==
  /\ sent \in Seq(Instruction) /\ machines \in SUBSET Nodes
  /\ live \in 1..(MaxNodes + 1) /\ barred \in BOOLEAN
  /\ durable \in BOOLEAN /\ store \in SUBSET (0..MaxExtra) /\ cache \in SUBSET store
  /\ active \in SUBSET Prepared
SeenTyped == printed \in SUBSET (DOMAIN sent) /\ saved \in 0..Len(sent) /\ reported \in BOOLEAN
RunTyped ==
  /\ run \in Run /\ run.at \in 0..Len(sent) /\ extra \in 0..MaxExtra
  /\ run.pc # "idle" => run.mode \in Modes
  /\ run.mode \in {"default", "create"} => run.k # 0 /\ extra # 0
  /\ run.pc = "await" => run.at # 0
  /\ run.mode = "resume" => run.pc \in {"validate", "await", "count"}

\* The machine instruction i was sent to.
To(i) == sent[i].to

\* Machines are numbered by starts.  One that is not in the set, since it is not
\* registered yet or was banned, has been sent nothing and serves nothing; those
\* of other owners stay.
Registry ==
  /\ machines \subseteq 0..live
  /\ barred => live \notin machines
  /\ \A i \in DOMAIN sent : (To(i) <= live) /\ (To(i) \in Others => To(i) \in machines)
  /\ live \notin machines => cache = {} /\ \A i \in DOMAIN sent : To(i) # live

\* The running process serves every rule whose creation it has answered.
CacheHolds ==
  \A i \in DOMAIN sent :
    sent[i].op = "create" /\ sent[i].status = "ok" /\ To(i) = live => sent[i].rule \in cache

\* The TEE of /info stays in the set while the tool runs; past the gate all that
\* has joined since is newer or another owner's, and the process is not banned.
Chosen ==
  run.pc \notin {"idle", "validate"} =>
    /\ run.tee \in machines /\ run.tee <= live /\ run.tee \notin Others
    /\ (run.pc = "ban" => run.tee \notin run.ban)
    /\ (run.pc \in {"list", "ban", "gate", "prior"} => run.mode \in Restores)
    /\ (run.pc \in {"prior", "send"} /\ run.mode \in Restores =>
          \A m \in machines : m \in Others \/ m >= run.tee)
    /\ (run.pc \notin {"list", "ban", "gate"} => ~barred)

\* During a restore, a process that has started since /info was read serves
\* nothing, and has been sent nothing but that restore.
Newer ==
  run.pc \notin {"idle", "validate"} /\ run.mode \in Restores \cup {"resume"} /\ live # run.tee =>
    /\ cache = {}
    /\ \A i \in DOMAIN sent :
         To(i) = live => run.mode \in Restores /\ run.pc \in {"await", "count"} /\ i = run.at

\* The restores whose ids are known went to machines in the order of their
\* starts, but for the last, and only the last for a machine may be unanswered.
Restoring(i) == sent[i].op = "create" /\ sent[i].rule = Kept /\ sent[i].want = "ok"
Before(i, j) ==
  /\ To(i) \notin Others /\ (To(j) \in Others \/ To(i) <= To(j))
  /\ To(i) = To(j) => ~Pending(i)
InTurn ==
  /\ \A i \in printed : Restoring(i)
  /\ \A i, j \in printed : i < j => Before(i, j)

\* What the tool waits for, and that its restore will be the next in turn.
Awaiting ==
  /\ run.pc = "count" =>
       run.mode \in Restores \cup {"resume"} /\ sent[run.at].status = "ok" /\ To(run.at) = run.tee
  /\ run.mode = "resume" => run.at \in printed
  /\ run.mode \in Restores /\ run.pc \notin {"idle", "validate"} =>
       (\A i \in printed : To(i) <= run.tee)
  /\ run.mode \in Restores /\ run.pc \in {"prior", "send", "await", "count"} =>
       (\A i \in printed : To(i) \notin Others)
  /\ run.mode \in Restores /\ run.pc \in {"send", "await", "count"} =>
       (\A i \in printed : ~(To(i) = run.tee /\ Pending(i)))
  /\ run.mode \in Restores /\ run.pc \in {"await", "count"} =>
       /\ run.at # 0 /\ Restoring(run.at) /\ sent[run.at].key = run.tee
       /\ To(run.at) \in Others \/ To(run.at) >= run.tee
       /\ \A i \in printed : i < run.at

IInv ==
  /\ WorldTyped /\ SeenTyped /\ RunTyped /\ Registry /\ CacheHolds /\ Chosen /\ Newer /\ InTurn
  /\ Awaiting /\ NeverToObsolete

-----------------------------------------------------------------------------
(* Instructions and ids *)

LEMMA SentFacts ==
  ASSUME WorldTyped
  PROVE  /\ Len(sent) \in Nat /\ DOMAIN sent = 1..Len(sent)
         /\ \A i \in DOMAIN sent : sent[i] \in Instruction /\ To(i) \in Nat
<1>1. Len(sent) \in Nat /\ DOMAIN sent = 1..Len(sent) /\ \A i \in DOMAIN sent : sent[i] \in Instruction
  BY ElementOfSeq DEF WorldTyped
<1>2. Nodes \subseteq Nat
  BY RunTestAssumption DEF Nodes
<1> QED
  BY <1>1, <1>2 DEF Instruction, To

\* A bounded set of numbers that is not empty has a greatest element.
LEMMA GreatestElement ==
  ASSUME NEW n \in Nat, NEW S \in SUBSET (1..n), S # {}
  PROVE  \E m \in S : \A j \in S : j <= m
<1> DEFINE T == {n - j : j \in S}
<1>1. \A j \in S : n - j \in Nat /\ n - j \in T
  OBVIOUS
<1> HIDE DEF T
<1>2. T \in SUBSET Nat /\ T # {}
  BY <1>1 DEF T
<1>3. PICK t \in T : \A u \in T : t <= u
  BY <1>2, LeastElement
<1>4. PICK m \in S : t = n - m
  BY DEF T
<1>5. ASSUME NEW j \in S PROVE j <= m
  <2>1. n - m <= n - j
    BY <1>1, <1>3, <1>4
  <2> QED
    BY <2>1
<1> QED
  BY <1>5

LEMMA KnownIsLast ==
  ASSUME WorldTyped, SeenTyped, printed # {}
  PROVE  Known \in printed /\ \A j \in printed : j <= Known
<1>1. \E m \in printed : \A j \in printed : j <= m
  BY SentFacts, GreatestElement DEF SeenTyped
<1> QED
  BY <1>1 DEF Known

\* Nothing the operator knows of is pending at a machine the gate lets through.
LEMMA Resolved ==
  ASSUME WorldTyped, SeenTyped, InTurn, NEW t \in Nodes,
         \A i \in printed : (To(i) <= t) /\ To(i) \notin Others, PriorResolved(t)
  PROVE  \A i \in printed : ~(To(i) = t /\ Pending(i))
<1> SUFFICES ASSUME NEW i \in printed, To(i) = t, Pending(i) PROVE FALSE
  OBVIOUS
<1>1. Known \in printed /\ i <= Known /\ printed \subseteq 1..Len(sent) /\ Len(sent) \in Nat
  BY KnownIsLast, SentFacts DEF SeenTyped
<1>2. Known \in Nat /\ i \in Nat /\ Known # 0 /\ To(Known) \in Nat /\ t \in Nat
  BY <1>1, SentFacts, RunTestAssumption DEF Nodes
<1>3. CASE i = Known
  BY <1>2, <1>3 DEF PriorResolved, To
<1>4. CASE i < Known
  <2>1. To(i) <= To(Known) /\ To(Known) <= t /\ To(i) # To(Known)
    BY <1>1, <1>4 DEF InTurn, Before
  <2> QED
    BY <2>1, <1>2
<1> QED
  BY <1>1, <1>2, <1>3, <1>4

-----------------------------------------------------------------------------
(* Steps of the tool *)

LEMMA InitInv == Init => IInv
<1> SUFFICES ASSUME Init PROVE IInv
  OBVIOUS
<1>1. /\ sent = << >> /\ run = Idle /\ store = {} /\ cache = {} /\ active = {} /\ printed = {}
      /\ saved = 0 /\ reported = FALSE /\ extra = 0 /\ live = 1 /\ durable \in BOOLEAN
      /\ machines = {1} /\ barred = FALSE
  BY RunTestAssumption DEF Init
<1>2. Len(sent) = 0 /\ DOMAIN sent = {} /\ sent \in Seq(Instruction)
  BY <1>1
<1>3. 0 \in Nodes /\ 1 \in 1..(MaxNodes + 1) /\ 1 \in Nodes /\ 0 \in 0..MaxExtra
  BY RunTestAssumption DEF Nodes
<1>4. WorldTyped
  BY <1>1, <1>2, <1>3 DEF WorldTyped
<1>5. SeenTyped
  <2>1. printed \in SUBSET (DOMAIN sent)
    BY <1>1
  <2>2. saved \in 0..Len(sent)
    BY <1>1, <1>2
  <2> QED
    BY <1>1, <2>1, <2>2 DEF SeenTyped
<1>6. RunTyped
  BY <1>1, <1>2, <1>3 DEF RunTyped, Run, Idle, Stages
<1>7. Registry /\ CacheHolds /\ NeverToObsolete
  BY <1>1, <1>2 DEF Registry, CacheHolds, NeverToObsolete
<1>8. Chosen /\ Newer /\ InTurn /\ Awaiting
  BY <1>1 DEF Chosen, Newer, InTurn, Awaiting, Idle, Restores
<1> QED
  BY <1>4, <1>5, <1>6, <1>7, <1>8 DEF IInv

\* A step of the tool alone.
LEMMA ToolInv ==
  ASSUME IInv, UNCHANGED <<world, printed>>, saved' \in 0..Len(sent), reported' \in BOOLEAN,
         RunTyped', Chosen', Newer', Awaiting'
  PROVE  IInv'
BY DEF IInv, world, WorldTyped, SeenTyped, Registry, CacheHolds, InTurn, Before, Restoring, To, Pending,
       NeverToObsolete

\* The tool stops, having printed an id or not.
LEMMA StopInv ==
  ASSUME IInv, UNCHANGED <<world, extra>>, Stop, saved' \in 0..Len(sent), reported' \in BOOLEAN,
         printed' \in SUBSET (DOMAIN sent), InTurn'
  PROVE  IInv'
<1>1. RunTyped'
  <2>1. Idle \in Run
    BY RunTestAssumption DEF Idle, Run, Stages, Nodes
  <2>2. Idle.at \in 0..Len(sent) /\ Idle.pc = "idle" /\ Idle.mode = "none"
    BY SentFacts DEF IInv, Idle
  <2> QED
    BY <2>1, <2>2 DEF RunTyped, Stop, world, IInv
<1>2. Chosen' /\ Newer' /\ Awaiting'
  BY DEF Stop, Idle, Chosen, Newer, Awaiting, Restores
<1> QED
  BY <1>1, <1>2
  DEF IInv, world, WorldTyped, SeenTyped, Registry, CacheHolds, To, NeverToObsolete

LEMMA StopQuietInv ==
  ASSUME IInv, UNCHANGED <<world, printed, extra>>, Stop, saved' \in 0..Len(sent),
         reported' \in BOOLEAN
  PROVE  IInv'
<1>1. InTurn' /\ printed' \in SUBSET (DOMAIN sent)
  BY DEF IInv, InTurn, Before, Restoring, To, Pending, world, SeenTyped
<1> QED
  BY <1>1, StopInv

\* An id is printed in its turn.
LEMMA ShownInTurn ==
  ASSUME IInv, run.pc \in {"await", "count"}, ShowId(run.at), UNCHANGED sent
  PROVE  InTurn' /\ printed' \in SUBSET (DOMAIN sent)
<1>1. CASE run.mode \notin Restores
  <2>1. printed' = printed
    BY <1>1 DEF ShowId, IInv, Awaiting
  <2> QED
    BY <2>1 DEF IInv, InTurn, Before, Restoring, To, Pending, SeenTyped
<1>2. CASE run.mode \in Restores
  <2> DEFINE n == run.at
  <2>1. /\ printed' = printed \cup {n} /\ n \in DOMAIN sent /\ printed \subseteq DOMAIN sent
        /\ Len(sent) \in Nat /\ DOMAIN sent = 1..Len(sent)
    BY <1>2, SentFacts DEF ShowId, IInv, Awaiting, SeenTyped, RunTyped
  <2>2. /\ Restoring(n) /\ (To(n) \in Others \/ To(n) >= run.tee)
        /\ \A i \in printed : /\ i < n /\ To(i) <= run.tee /\ To(i) \notin Others
                             /\ ~(To(i) = run.tee /\ Pending(i))
    BY <1>2 DEF IInv, Awaiting
  <2>3. run.tee \in Nat /\ \A i \in DOMAIN sent : To(i) \in Nat
    BY SentFacts, RunTestAssumption DEF IInv, RunTyped, Run, Nodes
  <2> HIDE DEF n
  <2>4. \A i \in printed : Before(i, n)
    BY <2>1, <2>2, <2>3 DEF Before
  <2>5. \A i, j \in printed' : i < j => (j # n /\ i # n) \/ (j = n /\ i \in printed)
    BY <2>1, <2>2
  <2>6. \A i, j \in printed' : i < j => Before(i, j)
    BY <2>1, <2>4, <2>5 DEF IInv, InTurn
  <2> QED
    BY <2>1, <2>2, <2>6 DEF IInv, InTurn, Before, Restoring, To, Pending
<1> QED
  BY <1>1, <1>2

LEMMA StartInv ==
  ASSUME IInv, NEW mode \in Modes, Start(mode)
  PROVE  IInv'
<1>1. CASE mode = "resume"
  <2>1. Known # 0 /\ run' = [Idle EXCEPT !.mode = mode, !.pc = "validate", !.at = Known]
    BY <1>1 DEF Start
  <2>2. printed # {}
    BY <2>1 DEF Known
  <2>3. Known \in printed /\ Known \in 0..Len(sent) /\ Known \in Nat
    BY <2>2, KnownIsLast, SentFacts DEF IInv, SeenTyped
  <2>4. RunTyped'
    <3>1. 0 \in Nodes
      BY RunTestAssumption DEF Nodes
    <3>2. run' = [mode |-> mode, pc |-> "validate", tee |-> 0, ban |-> {}, at |-> Known, k |-> 0]
      BY <2>1 DEF Idle
    <3>3. run' \in Run
      BY <2>3, <3>1, <3>2 DEF Run, Stages
    <3>4. sent' = sent /\ extra' = extra
      BY <1>1 DEF Start, Needed, world
    <3> QED
      BY <1>1, <2>3, <3>2, <3>3, <3>4 DEF RunTyped, IInv
  <2>5. Chosen' /\ Newer' /\ Awaiting'
    BY <1>1, <2>1, <2>3 DEF Start, Idle, Chosen, Newer, Awaiting, Restores
  <2> QED
    BY <2>4, <2>5, ToolInv DEF Start, IInv, SeenTyped
<1>2. CASE mode # "resume"
  <2>1. run' = [Idle EXCEPT !.mode = mode, !.pc = "validate", !.k = 1]
    BY <1>2 DEF Start
  <2>2. extra' \in 0..MaxExtra /\ (mode \in {"default", "create"} => extra' # 0)
    BY RunTestAssumption DEF Start, Needed, Restores, IInv, RunTyped
  <2>3. 0 \in 0..Len(sent)
    BY SentFacts DEF IInv
  <2>4. RunTyped'
    <3>1. 0 \in Nodes
      BY RunTestAssumption DEF Nodes
    <3>2. run' = [mode |-> mode, pc |-> "validate", tee |-> 0, ban |-> {}, at |-> 0, k |-> 1]
      BY <2>1 DEF Idle
    <3>3. run' \in Run
      BY <3>1, <3>2 DEF Run, Stages
    <3>4. sent' = sent
      BY DEF Start, world
    <3> QED
      BY <2>2, <2>3, <3>2, <3>3, <3>4 DEF RunTyped
  <2>5. Chosen' /\ Newer' /\ Awaiting'
    BY <1>2, <2>1 DEF Start, Idle, Chosen, Newer, Awaiting, Restores
  <2> QED
    BY <2>4, <2>5, ToolInv DEF Start, IInv, SeenTyped
<1> QED
  BY <1>1, <1>2

\* The step of the tool changes, and the rest of it is typed as before.
LEMMA GotoTyped ==
  ASSUME RunTyped, WorldTyped, UNCHANGED <<sent, extra>>, NEW pc \in Stages, NEW tee \in Nodes,
         NEW ban \in SUBSET Nodes, pc = "await" => run.at # 0, run.pc # "idle",
         run.mode = "resume" => pc \in {"validate", "await", "count"},
         run' = [run EXCEPT !.pc = pc, !.tee = tee, !.ban = ban]
  PROVE  RunTyped'
BY DEF RunTyped, Run

LEMMA ValidateInv ==
  ASSUME IInv, Validate
  PROVE  IInv'
<1>1. CASE live \in machines
  <2>1. run' = [run EXCEPT !.tee = live, !.pc = AfterValidate] /\ run \in Run /\ run.pc = "validate"
    BY <1>1 DEF Validate, IInv, RunTyped
  <2>2. /\ AfterValidate \in {"list", "gate", "await", "send"}
        /\ AfterValidate = "await" <=> run.mode = "resume"
        /\ AfterValidate = "send" => run.mode \notin Restores
        /\ AfterValidate \in {"list", "gate"} => run.mode \in Restores
    BY DEF AfterValidate, Restores
  <2>3. run.mode = "resume" => run.at \in printed /\ run.at # 0
    BY SentFacts DEF IInv, Awaiting, SeenTyped
  <2>4. RunTyped'
    <3>1. live \in Nodes
      BY <1>1 DEF IInv, WorldTyped
    <3>2. run' = [run EXCEPT !.pc = AfterValidate, !.tee = live, !.ban = run.ban]
      BY <2>1 DEF Run
    <3>3. AfterValidate \in Stages /\ run.ban \in SUBSET Nodes
      BY <2>1, <2>2 DEF Stages, Run
    <3>4. UNCHANGED <<sent, extra>> /\ RunTyped /\ WorldTyped
      BY DEF Validate, world, IInv
    <3>5. /\ run.pc # "idle" /\ (AfterValidate = "await" => run.at # 0)
          /\ run.mode = "resume" => AfterValidate \in {"validate", "await", "count"}
      BY <2>1, <2>2, <2>3
    <3> QED
      BY <3>1, <3>2, <3>3, <3>4, <3>5, GotoTyped
  <2>5. /\ run'.mode = run.mode /\ run'.tee = live /\ run'.at = run.at
        /\ run'.pc = AfterValidate
    BY <2>1 DEF Run
  <2>6. \A i \in printed : To(i) <= live
    BY DEF IInv, Registry, SeenTyped
  <2>7. live \notin Others /\ live <= live /\ ~barred
    BY <1>1, RunTestAssumption DEF IInv, WorldTyped, Registry
  <2>8. Chosen' /\ Newer' /\ Awaiting'
    BY <1>1, <2>2, <2>3, <2>5, <2>6, <2>7
    DEF Validate, world, seen, Chosen, Newer, Awaiting, Restores, To
  <2> QED
    BY <2>4, <2>8, ToolInv DEF Validate, world, seen, IInv, SeenTyped
<1>2. CASE live \notin machines
  BY <1>2, StopQuietInv DEF Validate, world, seen, IInv, SeenTyped
<1> QED
  BY <1>1, <1>2

LEMMA ListActiveInv ==
  ASSUME IInv, ListActive
  PROVE  IInv'
<1>1. /\ run' = [run EXCEPT !.pc = "ban", !.ban = machines \ {run.tee}] /\ run \in Run
      /\ run.pc = "list"
  BY DEF ListActive, IInv, RunTyped
<1>2. /\ run'.mode = run.mode /\ run'.tee = run.tee /\ run'.at = run.at
      /\ run'.pc = "ban" /\ run'.ban = machines \ {run.tee}
  BY <1>1 DEF Run
<1>3. RunTyped'
  <2> DEFINE b == machines \ {run.tee}
  <2>1. run' = [run EXCEPT !.pc = "ban", !.tee = run.tee, !.ban = b]
    BY <1>1 DEF Run
  <2>2. /\ "ban" \in Stages /\ "ban" # "await" /\ run.pc # "idle" /\ run.mode # "resume" /\ run.tee \in Nodes
        /\ b \in SUBSET Nodes
    BY <1>1 DEF Stages, Run, RunTyped, IInv, WorldTyped
  <2>3. UNCHANGED <<sent, extra>> /\ RunTyped /\ WorldTyped
    BY DEF ListActive, world, IInv
  <2> HIDE DEF b
  <2> QED
    BY <2>1, <2>2, <2>3, GotoTyped
<1>4. Chosen' /\ Newer'
  BY <1>1, <1>2 DEF IInv, Chosen, Newer, ListActive, world, To
<1>5. Awaiting'
  BY <1>1, <1>2 DEF IInv, Awaiting, ListActive, world, seen, To, Restores
<1> QED
  BY <1>3, <1>4, <1>5, ToolInv DEF ListActive, world, seen, IInv, SeenTyped

\* Also a ban of the process that serves by now: it has served nothing yet.
LEMMA BanInv ==
  ASSUME IInv, Ban
  PROVE  IInv'
<1>1. PICK m \in run.ban :
        IF Obsolete(m)
        THEN /\ machines' = machines \ {m} /\ barred' = (barred \/ m = live)
             /\ run' = [run EXCEPT !.ban = @ \ {m}]
        ELSE Stop /\ UNCHANGED <<machines, barred>>
  BY DEF Ban
<1>2. CASE ~Obsolete(m)
  BY <1>1, <1>2, StopQuietInv DEF Ban, world, seen, IInv, SeenTyped
<1>3. CASE Obsolete(m)
  <2>1. /\ machines' = machines \ {m} /\ run' = [run EXCEPT !.ban = run.ban \ {m}]
        /\ run \in Run /\ run.pc = "ban" /\ m \notin Others
        /\ UNCHANGED <<live, durable, store, cache, active, sent, printed, reported, saved, extra>>
    BY <1>1, <1>3 DEF IInv, RunTyped, Ban, seen, Obsolete
  <2>2. /\ run'.mode = run.mode /\ run'.tee = run.tee /\ run'.at = run.at
        /\ run'.pc = "ban" /\ run'.ban = run.ban \ {m}
    BY <2>1 DEF Run
  <2>3. RunTyped'
    <3>1. run' = [run EXCEPT !.pc = "ban", !.tee = run.tee, !.ban = run.ban \ {m}]
      BY <2>1 DEF Run
    <3>2. "ban" \in Stages /\ "ban" # "await" /\ run.pc # "idle" /\ run.mode # "resume" /\ run.tee \in Nodes /\ run.ban \ {m} \in SUBSET Nodes
      BY <2>1 DEF Stages, Run, RunTyped, IInv
    <3>3. UNCHANGED <<sent, extra>> /\ RunTyped /\ WorldTyped
      BY <2>1 DEF IInv
    <3> QED
      BY <2>1, <3>1, <3>2, <3>3, GotoTyped
  <2>4. m # run.tee /\ run.tee \in machines /\ run.tee <= live /\ run.tee \notin Others /\ run.mode \in Restores
    BY <2>1 DEF IInv, Chosen
  <2>5. Chosen' /\ Newer'
    <3>1. Chosen'
      BY <2>1, <2>2, <2>4 DEF IInv, Chosen
    <3>2. Newer'
      BY <2>1, <2>2 DEF IInv, Newer, To
    <3> QED
      BY <3>1, <3>2
  <2>6. Awaiting'
    BY <2>1, <2>2 DEF IInv, Awaiting, To, Restores
  <2>7. barred' = (barred \/ m = live)
    BY <1>1, <1>3
  <2>8. m = live => cache = {} /\ \A i \in DOMAIN sent : To(i) # live
    BY <2>1, <2>4 DEF IInv, Newer
  <2>9. Registry'
    BY <2>1, <2>7, <2>8 DEF IInv, Registry, To
  <2>10. barred' \in BOOLEAN
    BY <2>7
  <2>11. WorldTyped' /\ SeenTyped' /\ CacheHolds' /\ InTurn' /\ NeverToObsolete'
    BY <2>1, <2>10
    DEF IInv, WorldTyped, SeenTyped, CacheHolds, InTurn, Before, Restoring, To, Pending, NeverToObsolete
  <2> QED
    BY <2>3, <2>5, <2>6, <2>9, <2>11 DEF IInv
<1> QED
  BY <1>2, <1>3

LEMMA RetiredInv ==
  ASSUME IInv, Retired
  PROVE  IInv'
<1>1. CASE machines # {run.tee}
  BY <1>1, StopQuietInv DEF Retired, world, seen, IInv, SeenTyped
<1>2. CASE machines = {run.tee}
  <2>1. run' = [run EXCEPT !.pc = "gate"] /\ run \in Run /\ run.pc = "ban"
    BY <1>2 DEF Retired, Goto, IInv, RunTyped
  <2>2. run'.mode = run.mode /\ run'.tee = run.tee /\ run'.at = run.at /\ run'.pc = "gate"
    BY <2>1 DEF Run
  <2>3. RunTyped'
    <3>1. run' = [run EXCEPT !.pc = "gate", !.tee = run.tee, !.ban = run.ban]
      BY <2>1 DEF Run
    <3>2. "gate" \in Stages /\ "gate" # "await" /\ run.pc # "idle" /\ run.mode # "resume" /\ run.tee \in Nodes /\ run.ban \in SUBSET Nodes
      BY <2>1 DEF Stages, Run, RunTyped, IInv
    <3>3. UNCHANGED <<sent, extra>> /\ RunTyped /\ WorldTyped
      BY DEF Retired, world, IInv
    <3> QED
      BY <2>1, <3>1, <3>2, <3>3, GotoTyped
  <2>4. Chosen' /\ Newer' /\ Awaiting'
    BY <2>1, <2>2 DEF IInv, Chosen, Newer, Awaiting, Retired, world, seen, To, Restores
  <2> QED
    BY <2>3, <2>4, ToolInv DEF Retired, world, seen, IInv, SeenTyped
<1> QED
  BY <1>1, <1>2

\* The first half of the gate: the set is the machine alone, so nothing has gone
\* to another owner's.  The second: the last restore the operator knows of.
LEMMA ReadinessGateInv ==
  ASSUME IInv, ReadinessGate
  PROVE  IInv'
<1>1. CASE Stop
  BY <1>1, StopQuietInv DEF ReadinessGate, world, seen, IInv, SeenTyped
<1>2. ASSUME NEW pc \in {"prior", "send"}, Goto(pc), run.pc \in {"gate", "prior"},
             pc = "prior" => run.pc = "gate" /\ Ready(run.tee),
             pc = "send" => run.pc = "prior" /\ PriorResolved(run.tee)
      PROVE  IInv'
  <2>1. run' = [run EXCEPT !.pc = pc] /\ run \in Run /\ run.mode \in Restores /\ run.tee \in Nodes
    BY <1>2 DEF Goto, IInv, RunTyped, Run, Chosen
  <2>2. run'.mode = run.mode /\ run'.tee = run.tee /\ run'.at = run.at /\ run'.pc = pc
    BY <2>1 DEF Run
  <2>3. RunTyped'
    <3>1. run' = [run EXCEPT !.pc = pc, !.tee = run.tee, !.ban = run.ban]
      BY <2>1 DEF Run
    <3>2. pc \in Stages /\ pc # "await" /\ run.pc # "idle" /\ run.mode # "resume" /\ run.ban \in SUBSET Nodes
      BY <1>2, <2>1 DEF Stages, Run, Restores
    <3>3. UNCHANGED <<sent, extra>> /\ RunTyped /\ WorldTyped
      BY DEF ReadinessGate, world, IInv
    <3> QED
      BY <2>1, <3>1, <3>2, <3>3, GotoTyped
  <2>4. /\ \A i \in printed : (To(i) <= run.tee) /\ To(i) \notin Others
        /\ \A m \in machines : m \in Others \/ m >= run.tee
        /\ ~barred
    <3>1. CASE pc = "prior"
      <4>1. machines = {run.tee} /\ live = run.tee /\ run.tee \notin Others /\ run.tee >= run.tee
        BY <1>2, <2>1, <3>1, RunTestAssumption DEF Ready, Selectable, IInv, Chosen, Nodes
      <4> QED
        BY <1>2, <2>1, <4>1 DEF IInv, Registry, Awaiting, SeenTyped
    <3>2. CASE pc = "send"
      BY <1>2, <2>1, <3>2 DEF IInv, Chosen, Awaiting
    <3> QED
      BY <1>2, <3>1, <3>2
  <2>5. pc = "send" => \A i \in printed : ~(To(i) = run.tee /\ Pending(i))
    BY <1>2, <2>1, <2>4, Resolved DEF IInv
  <2>6. UNCHANGED <<world, printed>>
    BY DEF ReadinessGate, seen
  <2>7. Chosen' /\ Newer'
    BY <1>2, <2>1, <2>2, <2>4, <2>6 DEF IInv, Chosen, Newer, world, To
  <2>8. Awaiting'
    BY <1>2, <2>1, <2>2, <2>4, <2>5, <2>6 DEF Awaiting, world, To, Pending, Restores
  <2> QED
    BY <2>3, <2>7, <2>8, ToolInv DEF ReadinessGate, world, seen, IInv, SeenTyped
<1> QED
  BY <1>1, <1>2 DEF ReadinessGate

LEMMA KilledInv ==
  ASSUME IInv, Killed
  PROVE  IInv'
BY StopQuietInv DEF Killed, world, seen, IInv, SeenTyped

LEMMA GivesUpInv ==
  ASSUME IInv, GivesUp
  PROVE  IInv'
<1>1. CASE ShowId(run.at)
  BY <1>1, ShownInTurn, StopInv DEF GivesUp, world, IInv, SeenTyped
<1>2. CASE UNCHANGED printed
  BY <1>2, StopQuietInv DEF GivesUp, world, IInv, SeenTyped
<1> QED
  BY <1>1, <1>2 DEF GivesUp

LEMMA ConfirmCountInv ==
  ASSUME IInv, ConfirmCount
  PROVE  IInv'
<1>1. CASE CountIs(1)
  BY <1>1, ShownInTurn, StopInv DEF ConfirmCount, world, IInv, SeenTyped
<1>2. CASE ~CountIs(1)
  BY <1>2, StopQuietInv DEF ConfirmCount, world, IInv, SeenTyped
<1> QED
  BY <1>1, <1>2

-----------------------------------------------------------------------------
(* Steps of the world *)

LEMMA SendInv ==
  ASSUME IInv, Send
  PROVE  IInv'
<1> DEFINE n == Len(sent) + 1
<1>1. PICK c \in Contents, to \in machines :
        sent' = Append(sent, [op |-> c.op, rule |-> c.rule, event |-> c.event, want |-> c.want,
                              key |-> run.tee, to |-> to, status |-> "pending"])
  BY DEF Send
<1> DEFINE x == [op |-> c.op, rule |-> c.rule, event |-> c.event, want |-> c.want,
                 key |-> run.tee, to |-> to, status |-> "pending"]
<1>2. /\ run \in Run /\ run.pc = "send" /\ run' = [run EXCEPT !.pc = "await", !.at = n]
      /\ UNCHANGED <<machines, live, barred, durable, store, cache, active, printed, reported, saved, extra>>
  BY DEF Send, IInv, RunTyped, seen
<1>3. /\ run'.mode = run.mode /\ run'.tee = run.tee /\ run'.at = n /\ run'.pc = "await"
      /\ run'.k = run.k /\ run'.ban = run.ban
  BY <1>2 DEF Run
<1>4. /\ Len(sent) \in Nat /\ DOMAIN sent = 1..Len(sent) /\ printed \subseteq DOMAIN sent
      /\ \A i \in DOMAIN sent : sent[i] \in Instruction
  BY SentFacts DEF IInv, SeenTyped
<1>5. /\ c.op \in {"create", "malformed", "evaluate"} /\ c.rule \in 0..MaxExtra
      /\ c.event \in Prepared \cup {"random"} /\ c.want \in {"ok", "refused"}
      /\ run.mode \in Restores => c.op = "create" /\ c.rule = Kept /\ c.want = "ok"
  <2>1. 0 \in 0..MaxExtra /\ extra \in 0..MaxExtra /\ run.mode \in Modes
    BY <1>2, RunTestAssumption DEF IInv, RunTyped
  <2>2. CASE run.mode \in Restores
    <3>1. c = [op |-> "create", rule |-> Kept, event |-> "random", want |-> "ok"]
      BY <2>2 DEF Contents, Restores
    <3> QED
      BY <2>1, <3>1 DEF Kept
  <2>3. CASE run.mode = "evaluate"
    BY <2>1, <2>3 DEF Contents, Evaluations, Kept, Restores
  <2>4. CASE run.mode \notin Restores \cup {"evaluate", "resume"}
    <3>1. run.k \in 1..6
      BY <2>1, <2>4, <1>2, RunTestAssumption DEF IInv, RunTyped, Run, Restores
    <3>2. /\ Scenario[run.k].op \in {"create", "malformed", "evaluate"}
          /\ Scenario[run.k].want \in {"ok", "refused"}
      BY <3>1 DEF Scenario
    <3>3. c = [op |-> Scenario[run.k].op, rule |-> extra, event |-> "random",
               want |-> Scenario[run.k].want]
      BY <2>4 DEF Contents
    <3> QED
      BY <2>1, <2>4, <3>2, <3>3
  <2>5. run.mode # "resume"
    BY <1>2 DEF IInv, RunTyped
  <2> QED
    BY <2>2, <2>3, <2>4, <2>5
<1>6. x \in Instruction
  BY <1>2, <1>4, <1>5 DEF Instruction, Run, IInv, WorldTyped, RunTyped
<1>7. x.to = to /\ x.key = run.tee /\ x.status = "pending"
  OBVIOUS
<1>8. /\ run.mode \in Restores => x.op = "create" /\ x.rule = Kept /\ x.want = "ok"
      /\ run.mode \notin Restores => ~(x.op = "create" /\ x.rule = Kept)
  <2>1. CASE run.mode \in Restores
    BY <1>5, <2>1
  <2>2. CASE run.mode = "evaluate"
    BY <2>2 DEF Contents, Evaluations, Restores
  <2>3. CASE run.mode \notin Restores \cup {"evaluate"}
    <3>1. c.rule = extra
      BY <2>3 DEF Contents
    <3>2. run.mode \in {"default", "create"}
      BY <1>2, <2>3, RunTestAssumption DEF IInv, RunTyped, Restores
    <3>3. extra # Kept
      BY <3>2 DEF IInv, RunTyped, Kept
    <3> QED
      BY <2>3, <3>1, <3>3
  <2> QED
    BY <2>1, <2>2, <2>3
<1>9. sent' = Append(sent, x) /\ n = Len(sent) + 1
  BY <1>1
<1> HIDE DEF x, n
<1>10. /\ sent' \in Seq(Instruction) /\ Len(sent') = n /\ DOMAIN sent' = 1..n /\ n \in Nat
       /\ \A i \in DOMAIN sent : i \in DOMAIN sent' /\ i < n /\ sent'[i] = sent[i]
       /\ sent'[n] = x /\ \A i \in DOMAIN sent' : i = n \/ i \in DOMAIN sent
  BY <1>4, <1>6, <1>9 DEF IInv, WorldTyped
<1>11. /\ run.tee \in machines /\ run.tee <= live /\ run.tee \notin Others /\ ~barred
       /\ run.mode \in Restores => to \in Others \/ to >= run.tee
  BY <1>2 DEF IInv, Chosen
<1>12. WorldTyped'
  BY <1>2, <1>10 DEF IInv, WorldTyped
<1>13. SeenTyped'
  BY <1>2, <1>4, <1>10 DEF IInv, SeenTyped
<1>14. RunTyped'
  <2>1. run' \in Run
    BY <1>2, <1>10 DEF Run, Stages
  <2>2. n \in 0..Len(sent') /\ n # 0
    BY <1>4, <1>9, <1>10
  <2> QED
    BY <1>2, <1>3, <2>1, <2>2 DEF IInv, RunTyped
<1>15. Registry'
  <2>1. to <= live /\ (live \notin machines => to # live)
    BY DEF IInv, Registry
  <2> QED
    BY <1>2, <1>7, <1>10, <2>1 DEF IInv, Registry, To
<1>16. CacheHolds' /\ NeverToObsolete'
  <2>1. x.op = "create" /\ x.rule = Kept => x.to \in Others \/ x.to >= x.key
    BY <1>7, <1>8, <1>11
  <2> QED
    BY <1>2, <1>7, <1>10, <2>1 DEF IInv, CacheHolds, To, NeverToObsolete
<1>17. InTurn'
  BY <1>2, <1>4, <1>10 DEF IInv, InTurn, Before, Restoring, To, Pending
<1>18. Chosen' /\ Newer'
  <2>1. Chosen'
    BY <1>2, <1>3, <1>11 DEF Chosen
  <2>2. run.mode # "resume"
    BY <1>2 DEF IInv, RunTyped
  <2>3. run.mode \in Restores /\ live # run.tee =>
          cache = {} /\ \A i \in DOMAIN sent : To(i) # live
    BY <1>2 DEF IInv, Newer
  <2>4. Newer'
    BY <1>2, <1>3, <1>10, <2>2, <2>3 DEF Newer, To
  <2> QED
    BY <2>1, <2>4
<1>19. Awaiting'
  <2>1. run.mode # "resume"
    BY <1>2 DEF IInv, RunTyped
  <2>2. \A i \in printed : i \in DOMAIN sent /\ i < n /\ sent'[i] = sent[i]
    BY <1>4, <1>10
  <2>3. run.mode \in Restores => \A i \in printed :
          /\ To(i) <= run.tee /\ To(i) \notin Others
          /\ ~(To(i) = run.tee /\ Pending(i))
    BY <1>2 DEF IInv, Awaiting
  <2>4. run.mode \in Restores =>
          /\ sent'[n].op = "create" /\ sent'[n].rule = Kept /\ sent'[n].want = "ok"
          /\ sent'[n].key = run.tee /\ (sent'[n].to \in Others \/ sent'[n].to >= run.tee)
    BY <1>7, <1>8, <1>10, <1>11
  <2>5. n # 0
    BY <1>4, <1>9
  <2> QED
    BY <1>2, <1>3, <2>1, <2>2, <2>3, <2>4, <2>5 DEF Awaiting, Restoring, To, Pending
<1> QED
  BY <1>12, <1>13, <1>14, <1>15, <1>16, <1>17, <1>18, <1>19 DEF IInv

LEMMA AnswerInv ==
  ASSUME IInv, NEW i \in DOMAIN sent, Answer(i)
  PROVE  IInv'
<1> DEFINE st == IF Accepted(i) THEN "ok" ELSE "refused"
           x == [sent[i] EXCEPT !.status = st]
           created == {r \in {sent[i].rule} : sent[i].op = "create" /\ Accepted(i)}
           loaded == {r \in {sent[i].rule} : sent[i].op = "evaluate" /\ r \in store}
<1>1. /\ sent' = [sent EXCEPT ![i] = x] /\ Pending(i) /\ To(i) = live
      /\ store' = store \cup created /\ cache' = cache \cup created \cup loaded
      /\ active' = active \cup {e \in {sent[i].event} : sent[i].op = "evaluate" /\ Accepted(i)}
      /\ UNCHANGED <<durable, machines, live, barred, run, seen, faults, extra>>
  BY DEF Answer, To
<1>2. /\ Len(sent) \in Nat /\ DOMAIN sent = 1..Len(sent)
      /\ \A j \in DOMAIN sent : sent[j] \in Instruction
  BY SentFacts DEF IInv
<1>3. /\ x \in Instruction /\ x.op = sent[i].op /\ x.rule = sent[i].rule /\ x.want = sent[i].want
      /\ x.to = sent[i].to /\ x.key = sent[i].key /\ x.status = st
  BY <1>2 DEF Instruction
<1>4. st # "pending" /\ (st = "ok" <=> Accepted(i))
  OBVIOUS
<1>5. /\ sent[i].rule \in 0..MaxExtra
      /\ sent[i].op = "evaluate" /\ Accepted(i) => sent[i].event \in Prepared
  BY <1>2 DEF Instruction, Accepted
<1>6. created \subseteq 0..MaxExtra /\ loaded \subseteq store
  BY <1>5
<1>7. sent[i].op = "create" /\ Accepted(i) => sent[i].rule \in created
  OBVIOUS
<1> HIDE DEF st, x, created, loaded
<1>8. /\ sent' \in Seq(Instruction) /\ Len(sent') = Len(sent) /\ DOMAIN sent' = DOMAIN sent
      /\ sent'[i] = x /\ \A j \in DOMAIN sent : j # i => sent'[j] = sent[j]
  BY <1>1, <1>2, <1>3 DEF IInv, WorldTyped
<1>9. \A j \in DOMAIN sent :
        /\ sent'[j].op = sent[j].op /\ sent'[j].rule = sent[j].rule /\ sent'[j].want = sent[j].want
        /\ sent'[j].to = sent[j].to /\ sent'[j].key = sent[j].key
        /\ sent'[j].status = IF j = i THEN st ELSE sent[j].status
  BY <1>3, <1>8
<1>10. WorldTyped'
  <2>1. active' \in SUBSET Prepared
    BY <1>1, <1>5 DEF IInv, WorldTyped
  <2>2. store' \in SUBSET (0..MaxExtra) /\ cache' \in SUBSET store'
    BY <1>1, <1>6 DEF IInv, WorldTyped
  <2> QED
    BY <1>1, <1>8, <2>1, <2>2 DEF IInv, WorldTyped
<1>11. SeenTyped' /\ RunTyped'
  BY <1>1, <1>8 DEF IInv, SeenTyped, RunTyped, seen
<1>12. Registry' /\ NeverToObsolete' /\ Chosen'
  <2>1. live \in machines
    BY <1>1 DEF IInv, Registry
  <2>2. Registry'
    BY <1>1, <1>8, <1>9, <2>1 DEF IInv, Registry, To
  <2> QED
    BY <1>1, <1>8, <1>9, <2>2 DEF IInv, NeverToObsolete, Chosen
\* A process newer than the key refuses what is encrypted to it, so it still serves nothing.
<1>17. Newer'
  <2> SUFFICES ASSUME run.pc \notin {"idle", "validate"}, run.mode \in Restores \cup {"resume"},
                      live # run.tee
               PROVE  /\ cache' = {}
                      /\ \A j \in DOMAIN sent' : sent'[j].to = live =>
                           run.mode \in Restores /\ run.pc \in {"await", "count"} /\ j = run.at
    BY <1>1 DEF Newer, To
  <2>1. /\ cache = {} /\ i = run.at /\ run.mode \in Restores /\ run.pc \in {"await", "count"}
        /\ \A j \in DOMAIN sent : To(j) = live => j = run.at
    BY <1>1 DEF IInv, Newer
  <2>2. sent[i].op = "create" /\ sent[i].key # live
    BY <2>1 DEF IInv, Awaiting, Restoring
  <2>3. created = {} /\ loaded = {}
    BY <2>2 DEF created, loaded, Accepted
  <2> QED
    BY <1>1, <1>8, <1>9, <2>1, <2>3 DEF To
<1>13. CacheHolds'
  BY <1>1, <1>4, <1>7, <1>8, <1>9 DEF IInv, CacheHolds, To
<1>14. printed \subseteq DOMAIN sent /\ run.at \in 0..Len(sent)
  BY DEF IInv, SeenTyped, RunTyped
<1>15. InTurn'
  BY <1>1, <1>4, <1>9, <1>14 DEF IInv, InTurn, Before, Restoring, To, Pending, seen
<1>16. Awaiting'
  <2>1. run.pc = "count" => run.at \in DOMAIN sent /\ run.at # i
    BY <1>1, <1>2, <1>14 DEF IInv, Awaiting, Pending, SeenTyped, Restores
  <2>2. run.at # 0 => run.at \in DOMAIN sent
    BY <1>2, <1>14
  <2> QED
    BY <1>1, <1>4, <1>9, <1>14, <2>1, <2>2 DEF IInv, Awaiting, Restoring, To, Pending, seen
<1> QED
  BY <1>10, <1>11, <1>12, <1>13, <1>17, <1>15, <1>16 DEF IInv

LEMMA ExpiryInv ==
  ASSUME IInv, AuthorizationExpires
  PROVE  IInv'
<1>1. active' \in SUBSET Prepared
  BY DEF AuthorizationExpires, IInv, WorldTyped
<1> QED
  BY <1>1
  DEF AuthorizationExpires, IInv, WorldTyped, SeenTyped, RunTyped, Registry, CacheHolds, Chosen,
      Newer, InTurn, Before, Awaiting, Restoring, To, Pending, NeverToObsolete, seen

LEMMA RestartInv ==
  ASSUME IInv, Restart
  PROVE  IInv'
<1>1. /\ live' = live + 1 /\ live' \in 1..(MaxNodes + 1) /\ live \in Nat /\ live' # 0 /\ cache' = {}
      /\ barred' = FALSE
      /\ UNCHANGED <<durable, machines, sent, run, printed, saved, reported, extra>>
  BY RunTestAssumption DEF Restart, IInv, WorldTyped, seen
<1>2. store' \in SUBSET (0..MaxExtra) /\ cache' \in SUBSET store' /\ active' \in SUBSET Prepared
  BY DEF Restart, IInv, WorldTyped
<1>3. WorldTyped' /\ SeenTyped' /\ RunTyped'
  BY <1>1, <1>2 DEF IInv, WorldTyped, SeenTyped, RunTyped
<1>4. /\ \A m \in machines : m \in 0..live /\ m \in 0..live' /\ m # live'
      /\ \A i \in DOMAIN sent : (To(i) <= live') /\ To(i) # live'
  BY <1>1, SentFacts DEF IInv, Registry
<1>5. Registry' /\ CacheHolds'
  BY <1>1, <1>4 DEF IInv, Registry, CacheHolds, To
<1>6. Chosen'
  <2>1. run.tee <= live => run.tee <= live'
    BY <1>1, RunTestAssumption DEF IInv, RunTyped, Run, Nodes
  <2> QED
    BY <1>1, <2>1 DEF IInv, Chosen
<1>7. Newer'
  BY <1>1, <1>4 DEF Newer, To
<1> QED
  BY <1>1, <1>3, <1>5, <1>6, <1>7
  DEF IInv, InTurn, Before, Awaiting, Restoring, To, Pending, NeverToObsolete

LEMMA LiveFacts ==
  ASSUME WorldTyped
  PROVE  live \in Nat /\ live \in Nodes /\ live \notin Others /\ Others \subseteq 0..live
<1>1. MaxNodes \in Nat /\ live \in 1..(MaxNodes + 1) /\ Others \subseteq {0}
  BY RunTestAssumption DEF WorldTyped
<1> QED
  BY <1>1 DEF Nodes

\* A machine joins the set, newer than the TEE of /info or another owner's.
LEMMA JoinInv ==
  ASSUME IInv, NEW m \in Nodes, Join(m), m \in Others \/ (m = live /\ ~barred)
  PROVE  IInv'
<1>1. /\ machines' = machines \cup {m}
      /\ UNCHANGED <<durable, live, barred, store, cache, active, sent, run, printed, reported, saved, extra>>
  BY DEF Join, seen
<1>2. live \in Nat /\ live \notin Others /\ m \in 0..live
  BY LiveFacts DEF IInv
<1>3. WorldTyped' /\ SeenTyped' /\ RunTyped'
  BY <1>1 DEF IInv, WorldTyped, SeenTyped, RunTyped
<1>4. Registry' /\ CacheHolds' /\ NeverToObsolete'
  BY <1>1, <1>2 DEF IInv, Registry, CacheHolds, To, NeverToObsolete
<1>5. Chosen'
  BY <1>1 DEF IInv, Chosen
<1>6. Newer' /\ Awaiting' /\ InTurn'
  BY <1>1 DEF IInv, Newer, Awaiting, InTurn, Before, Restoring, To, Pending
<1> QED
  BY <1>3, <1>4, <1>5, <1>6 DEF IInv

LEMMA RegisterLiveInv ==
  ASSUME IInv, RegisterLive
  PROVE  IInv'
BY LiveFacts, JoinInv DEF RegisterLive, IInv

LEMMA OtherRegistersInv ==
  ASSUME IInv, OtherRegisters
  PROVE  IInv'
<1>1. PICK m \in Others : Join(m)
  BY DEF OtherRegisters
<1>2. m \in Nodes
  BY RunTestAssumption DEF Nodes
<1> QED
  BY <1>1, <1>2, JoinInv

LEMMA ReceivedInv ==
  ASSUME IInv, Received
  PROVE  IInv'
<1>1. CASE RestoreAnswered
  <2>1. /\ run' = [run EXCEPT !.pc = "count"] /\ run \in Run /\ run.pc = "await"
        /\ run.mode \in Restores \cup {"resume"} /\ run.at # 0
        /\ sent[run.at].status = sent[run.at].want /\ To(run.at) = run.tee
    BY <1>1 DEF RestoreAnswered, Answered, Valid, SignedBy, Goto, To, IInv, RunTyped
  <2>2. run'.mode = run.mode /\ run'.tee = run.tee /\ run'.at = run.at /\ run'.pc = "count"
    BY <2>1 DEF Run
  <2>3. RunTyped'
    <3>1. run' = [run EXCEPT !.pc = "count", !.tee = run.tee, !.ban = run.ban]
      BY <2>1 DEF Run
    <3>2. /\ "count" \in Stages /\ "count" # "await" /\ run.pc # "idle" /\ run.tee \in Nodes
          /\ run.ban \in SUBSET Nodes
      BY <2>1 DEF Stages, Run
    <3>3. UNCHANGED <<sent, extra>> /\ RunTyped /\ WorldTyped
      BY <1>1 DEF RestoreAnswered, world, IInv
    <3> QED
      BY <3>1, <3>2, <3>3, GotoTyped
  <2>4. sent[run.at].status = "ok"
    BY <2>1 DEF IInv, Awaiting, InTurn, Restoring
  <2>5. UNCHANGED <<sent, machines, live, barred, cache, printed>>
    BY <1>1 DEF RestoreAnswered, world, seen
  <2>6. Chosen' /\ Newer'
    BY <2>1, <2>2, <2>5 DEF IInv, Chosen, Newer, To
  <2>7. Awaiting'
    <3>1. run.mode = "resume" => run.at \in printed
      BY DEF IInv, Awaiting
    <3>2. run.mode \in Restores =>
            /\ \A i \in printed : /\ To(i) <= run.tee /\ To(i) \notin Others /\ i < run.at
                                   /\ ~(To(i) = run.tee /\ Pending(i))
            /\ Restoring(run.at) /\ sent[run.at].key = run.tee
            /\ To(run.at) \in Others \/ To(run.at) >= run.tee
      BY <2>1 DEF IInv, Awaiting
    <3>3. sent' = sent /\ printed' = printed
      BY <2>5
    <3>4. To(run.at) = run.tee /\ run.at # 0 /\ run.mode \in Restores \cup {"resume"}
      BY <2>1
    <3>5. run.mode = "resume" => run'.at \in printed'
      BY <2>2, <3>1, <3>3
    <3>6. run.mode \in Restores =>
            /\ \A i \in printed' : /\ To(i)' <= run'.tee /\ To(i)' \notin Others /\ i < run'.at
                                    /\ ~(To(i)' = run'.tee /\ Pending(i)')
            /\ Restoring(run.at)' /\ sent'[run'.at].key = run'.tee /\ run'.at # 0
            /\ To(run.at)' \in Others \/ To(run.at)' >= run'.tee
      BY <2>2, <3>2, <3>3, <3>4 DEF To, Pending, Restoring
    <3>7. sent'[run'.at].status = "ok" /\ To(run.at)' = run'.tee
      BY <2>2, <2>4, <3>3, <3>4 DEF To
    <3> QED
      BY <2>2, <3>4, <3>5, <3>6, <3>7 DEF Awaiting
  <2> QED
    BY <1>1, <2>3, <2>6, <2>7, ToolInv DEF RestoreAnswered, world, seen, IInv, SeenTyped
<1>2. CASE EvaluationAnswered
  <2>1. saved' \in 0..Len(sent)
    BY <1>2 DEF EvaluationAnswered, IInv, SeenTyped, RunTyped
  <2> QED
    BY <1>2, <2>1, StopQuietInv DEF EvaluationAnswered, world, IInv, SeenTyped
<1>3. CASE StepAnswered /\ Stop
  BY <1>3, StopQuietInv DEF StepAnswered, world, seen, IInv, SeenTyped
<1>4. CASE StepAnswered /\ run.k < LastStep /\ run' = [run EXCEPT !.pc = "send", !.at = 0, !.k = @ + 1]
  <2>1. run \in Run /\ run.mode \in {"default", "create"} /\ run.pc = "await"
    BY <1>4 DEF StepAnswered, Answered, IInv, RunTyped
  <2>2. run.k \in 0..6 /\ run.k + 1 \in 1..6
    <3>1. Len(Scenario) = 6
      BY DEF Scenario
    <3>2. LastStep \in {1, 6}
      BY <3>1 DEF LastStep
    <3>3. run.k \in 0..6
      BY <2>1 DEF Run
    <3> QED
      BY <1>4, <3>2, <3>3
  <2>3. /\ run' \in Run /\ run'.mode = run.mode /\ run'.tee = run.tee /\ run'.at = 0
        /\ run'.pc = "send" /\ run'.k = run.k + 1
    <3> DEFINE k == run.k + 1
    <3>1. run' = [run EXCEPT !.pc = "send", !.at = 0, !.k = k] /\ k \in 0..6
      BY <1>4, <2>2
    <3> HIDE DEF k
    <3>2. k = run.k + 1
      BY DEF k
    <3> QED
      BY <2>1, <3>1, <3>2 DEF Run, Stages
  <2>4. RunTyped'
    BY <1>4, <2>1, <2>2, <2>3, SentFacts DEF IInv, RunTyped, StepAnswered, world
  <2>5. UNCHANGED <<machines, live, barred>>
    BY <1>4 DEF StepAnswered, world
  <2>6. run.mode \notin Restores /\ run.mode # "resume"
    BY <2>1 DEF Restores
  <2>7. Chosen' /\ Newer'
    BY <2>1, <2>3, <2>5, <2>6 DEF IInv, Chosen, Newer
  <2>8. Awaiting'
    BY <2>3, <2>6 DEF Awaiting
  <2> QED
    BY <1>4, <2>4, <2>7, <2>8, ToolInv DEF StepAnswered, world, seen, IInv, SeenTyped
<1> QED
  BY <1>1, <1>2, <1>3, <1>4 DEF Received, StepAnswered

LEMMA StepInv ==
  ASSUME IInv, [Next]_vars
  PROVE  IInv'
<1>1. CASE \E i \in DOMAIN sent : Answer(i)
  BY <1>1, AnswerInv
<1>2. CASE AuthorizationExpires \/ Restart \/ RegisterLive \/ OtherRegisters
  BY <1>2, ExpiryInv, RestartInv, RegisterLiveInv, OtherRegistersInv
<1>3. CASE \E mode \in Modes : Start(mode)
  BY <1>3, StartInv
<1>4. CASE Tool
  BY <1>4, ValidateInv, ListActiveInv, BanInv, RetiredInv, ReadinessGateInv, SendInv, ReceivedInv,
     GivesUpInv, ConfirmCountInv DEF Tool
<1>5. CASE Killed
  BY <1>5, KilledInv
<1>6. CASE UNCHANGED vars
  BY <1>6
  DEF vars, world, seen, IInv, WorldTyped, SeenTyped, RunTyped, Registry, CacheHolds, Chosen,
      Newer, InTurn, Before, Awaiting, Restoring, To, Pending, NeverToObsolete
<1> QED
  BY <1>1, <1>2, <1>3, <1>4, <1>5, <1>6 DEF Next

\* What holds in every state: what has been sent where, what the tool has chosen
\* and awaits, and what a process that started since cannot have got.
THEOREM InductiveInvariant == Spec => []IInv
<1>1. IInv /\ [Next]_vars => IInv'
  BY StepInv
<1> QED
  BY <1>1, InitInv, PTL DEF Spec

\* The state of the tool, the registry and the extension process is well typed,
\* and every id printed or saved is one of an instruction.
THEOREM TypeInvariant == Spec => []TypeOK
<1>1. IInv => TypeOK
  <2> SUFFICES ASSUME IInv PROVE TypeOK
    OBVIOUS
  <2>1. \A i \in DOMAIN sent : /\ sent[i].to \in 0..live
                              /\ sent[i].status \in {"pending", "ok", "refused"}
    <3>1. live \in Nat /\ \A i \in DOMAIN sent : sent[i].to \in Nat /\ sent[i].to <= live
      BY SentFacts, RunTestAssumption DEF IInv, WorldTyped, Registry, To
    <3> QED
      BY <3>1, SentFacts DEF IInv, Instruction
  <2>2. run.pc \in {"idle", "validate", "list", "ban", "gate", "prior", "send", "await", "count"}
    BY DEF IInv, RunTyped, Run, Stages
  <2> QED
    BY <2>1, <2>2 DEF TypeOK, IInv, WorldTyped, SeenTyped, RunTyped, Registry
<1> QED
  BY <1>1, InductiveInvariant, PTL

\* No restore goes to a machine older than the one whose key it is encrypted to,
\* whatever starts, is banned or joins the set after the gate looked
\* (fcc-ready-for-instruction.sh).
THEOREM RestoresPassObsolete == Spec => []NeverToObsolete
<1>1. IInv => NeverToObsolete
  BY DEF IInv
<1> QED
  BY <1>1, InductiveInvariant, PTL

\* The only step that submits an instruction.
LEMMA OnlySendSubmits ==
  ASSUME IInv, [Next]_vars, Submits
  PROVE  Send
<1>1. Len(sent) \in Nat /\ DOMAIN sent = 1..Len(sent)
  BY SentFacts DEF IInv
<1>2. ASSUME UNCHANGED sent PROVE FALSE
  BY <1>1, <1>2 DEF Submits
<1>3. ASSUME NEW i \in DOMAIN sent, Answer(i) PROVE FALSE
  <2> DEFINE x == [sent[i] EXCEPT !.status = IF Accepted(i) THEN "ok" ELSE "refused"]
  <2>1. sent' = [sent EXCEPT ![i] = x]
    BY <1>3 DEF Answer
  <2> HIDE DEF x
  <2>2. Len(sent') = Len(sent)
    BY <2>1 DEF IInv, WorldTyped
  <2> QED
    BY <1>1, <2>2 DEF Submits
<1>4. CASE Tool
  BY <1>2, <1>4
  DEF Tool, Validate, ListActive, Ban, Retired, ReadinessGate, Received, RestoreAnswered,
      EvaluationAnswered, StepAnswered, GivesUp, ConfirmCount, world
<1>5. CASE \/ AuthorizationExpires \/ Restart \/ RegisterLive \/ OtherRegisters \/ Killed
           \/ \E mode \in Modes : Start(mode)
  BY <1>2, <1>5
  DEF AuthorizationExpires, Restart, RegisterLive, OtherRegisters, Join, Killed, Start, world
<1> QED
  BY <1>2, <1>3, <1>4, <1>5 DEF Next, vars, world

\* No restore is submitted to a machine that may still answer one the operator
\* knows of: the gate sees the last of them only (PREVIOUS_RESTORE_ACTION_ID), which
\* is enough because the earlier ones went to the same or to older machines, and
\* because what joins the set after the gate has been sent none of them.
THEOREM RestoresWait == Spec => NotWhileUnresolved
<1>1. ASSUME IInv, [Next]_vars, Submits, run.mode \in Restores, NEW i \in printed
      PROVE  ~(Pending(i) /\ sent[i].to = sent'[Len(sent')].to)
  <2>1. Send
    BY <1>1, OnlySendSubmits
  <2>2. PICK c \in Contents, to \in machines :
          sent' = Append(sent, [op |-> c.op, rule |-> c.rule, event |-> c.event, want |-> c.want,
                                key |-> run.tee, to |-> to, status |-> "pending"])
    BY <2>1 DEF Send
  <2> DEFINE x == [op |-> c.op, rule |-> c.rule, event |-> c.event, want |-> c.want,
                   key |-> run.tee, to |-> to, status |-> "pending"]
  <2>3. x.to = to /\ sent' = Append(sent, x)
    BY <2>2
  <2> HIDE DEF x
  <2>4. sent'[Len(sent')] = x
    BY <2>3, SentFacts, <1>1 DEF IInv, WorldTyped
  <2>5. to \in Others \/ to >= run.tee
    BY <1>1, <2>1 DEF IInv, Chosen, Send
  <2>6. To(i) <= run.tee /\ To(i) \notin Others /\ ~(To(i) = run.tee /\ Pending(i))
    BY <1>1, <2>1 DEF IInv, Awaiting, Send
  <2>7. To(i) \in Nat /\ run.tee \in Nat /\ to \in Nat
    BY <1>1, SentFacts, RunTestAssumption DEF IInv, SeenTyped, RunTyped, Run, WorldTyped, Nodes
  <2> QED
    BY <2>3, <2>4, <2>5, <2>6, <2>7 DEF To
<1>2. IInv /\ [Next]_vars =>
        [Submits /\ run.mode \in Restores =>
           \A i \in printed : ~(Pending(i) /\ sent[i].to = sent'[Len(sent')].to)]_vars
  BY <1>1
<1> QED
  BY <1>2, InductiveInvariant, PTL DEF Spec, NotWhileUnresolved

\* Nothing is submitted to a set that the machine of the key has left, or while
\* the process that serves is banned, although retireStaleMachines bans that one
\* when it joined since /info was read.
THEOREM BansAreNotUsed == Spec => NothingWhileBanned
<1>1. ASSUME IInv, [Next]_vars, Submits PROVE run.tee \in machines /\ ~barred
  <2>1. Send
    BY <1>1, OnlySendSubmits
  <2> QED
    BY <1>1, <2>1 DEF IInv, Chosen, Send
<1>2. IInv /\ [Next]_vars => [Submits => run.tee \in machines /\ ~barred]_vars
  BY <1>1
<1> QED
  BY <1>2, InductiveInvariant, PTL DEF Spec, NothingWhileBanned

\* One rule in the cache, and the restored one among them.
LEMMA OnlyKept ==
  ASSUME IInv, run.pc = "count", CountIs(1)
  PROVE  cache = {Kept} /\ live \in machines
<1>1. IsFiniteSet(cache)
  <2>1. IsFiniteSet(0..MaxExtra)
    BY FS_Interval, RunTestAssumption
  <2>2. cache \subseteq 0..MaxExtra
    BY DEF IInv, WorldTyped
  <2> QED
    BY <2>1, <2>2, FS_Subset
<1>2. PICK r : cache = {r}
  BY <1>1, FS_Singleton DEF CountIs
<1>3. live = run.tee /\ live \in machines
  <2>1. run.mode \in Restores \cup {"resume"}
    BY DEF IInv, Awaiting
  <2> QED
    BY <1>2, <2>1 DEF IInv, Newer, Chosen
<1>4. /\ run.at \in DOMAIN sent /\ Restoring(run.at)
      /\ sent[run.at].status = "ok" /\ To(run.at) = run.tee
  <2>1. CASE run.mode = "resume"
    BY <2>1 DEF IInv, Awaiting, InTurn, SeenTyped
  <2>2. CASE run.mode \in Restores
    BY <2>2, SentFacts DEF IInv, Awaiting, RunTyped
  <2> QED
    BY <2>1, <2>2 DEF IInv, Awaiting
<1>5. Kept \in cache
  BY <1>3, <1>4 DEF IInv, CacheHolds, Restoring
<1> QED
  BY <1>2, <1>3, <1>5

\* POLICY_RESTORED is true when it is said: a machine that restarted since it
\* answered serves nothing, and one that did not still serves what it accepted
\* (confirmLivePolicyCount).
THEOREM ReportsAreServed == Spec => ReportedIsServed
<1>1. ASSUME IInv, [Next]_vars, reported', ~reported
      PROVE  cache = {Kept} /\ live \in machines
  <2>1. CASE ConfirmCount
    BY <1>1, <2>1, OnlyKept DEF ConfirmCount
  <2>2. CASE Tool /\ ~ConfirmCount
    BY <1>1, <2>2
    DEF Tool, Validate, ListActive, Ban, Retired, ReadinessGate, Send, Received, RestoreAnswered,
        EvaluationAnswered, StepAnswered, GivesUp, seen
  <2>3. CASE \/ AuthorizationExpires \/ Restart \/ RegisterLive \/ OtherRegisters \/ Killed
             \/ \E mode \in Modes : Start(mode)
    BY <1>1, <2>3
    DEF AuthorizationExpires, Restart, RegisterLive, OtherRegisters, Join, Killed, Start, seen
  <2>4. CASE \E i \in DOMAIN sent : Answer(i)
    BY <1>1, <2>4 DEF Answer, seen
  <2> QED
    BY <1>1, <2>1, <2>2, <2>3, <2>4 DEF Next, vars, seen
<1>2. IInv /\ [Next]_vars => [reported' /\ ~reported => cache = {Kept} /\ live \in machines]_vars
  BY <1>1
<1> QED
  BY <1>2, InductiveInvariant, PTL DEF Spec, ReportedIsServed
=============================================================================

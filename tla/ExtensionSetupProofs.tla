------------------------ MODULE ExtensionSetupProofs ------------------------
(***************************************************************************)
(* For every number of runs, faults and extensions of others, with any     *)
(* sender: what extension.env names is set up completely, a test           *)
(* instruction goes to the extension the test was given unless a stranger  *)
(* took its sender before, and the registration report says where          *)
(* instructions go but for the extensions it could not query.  For every   *)
(* set of deployments: what exit code and report of verify-deploy are      *)
(* worth.                                                                  *)
(***************************************************************************)
EXTENDS ExtensionSetup, VerifyDeploy, ArithmeticProofs, SequenceTheorems

-----------------------------------------------------------------------------
(* The inductive invariant *)

Extension ==
  [sender : 0..MaxSenders, own : BOOLEAN, owner : BOOLEAN, project : BOOLEAN, key : BOOLEAN,
   version : BOOLEAN, gov : {"none", "signers", "owner", "deployer"}]

Typed ==
  /\ exts \in Seq(Extension) /\ Len(exts) <= MaxExtensions
  /\ senders \in 0..MaxSenders
  /\ bound \in [1..MaxSenders -> Nat]
  /\ file \in [exists : BOOLEAN, id : Int, sender : Int]
  /\ gov \in Governances
  /\ node.n \in 0..MaxNodes /\ node.id \in Nat
  /\ run \in [pc : Stages, sender : 0..MaxSenders, id : Nat]

\* Extension n is registered for the deployed sender k; and by the operator.
Pair(k, n) == k \in 1..senders /\ n \in DOMAIN exts /\ exts[n].sender = k
Ours(k, n) == Pair(k, n) /\ exts[n].own

\* What the contracts know refers to what exists.
ChainInv ==
  /\ \A n \in DOMAIN exts : exts[n].sender <= senders /\ (exts[n].own => exts[n].sender # 0)
  /\ \A k \in 1..MaxSenders : bound[k] # 0 => Pair(k, bound[k])
  /\ IF node.n = 0 THEN node.id = 0 ELSE node.id \in DOMAIN exts
  /\ \A m \in machines : m[1] \in 0..node.n /\ m[2] \in DOMAIN exts

\* A sender is bound to the first extension that names it, and stays so:
\* whoever registers later, with whatever sender, comes behind.
BoundFirst ==
  \A k \in 1..MaxSenders : bound[k] # 0 =>
    \A n \in DOMAIN exts : exts[n].sender = k => bound[k] <= n

\* Unless someone repairs by hand, a sender is deployed for each registration.
OneEach ==
  ~byHand => \A n, o \in DOMAIN exts :
               exts[n].own /\ exts[o].own /\ exts[n].sender = exts[o].sender => n = o

\* The operator has registered nothing for sender k.
Unused(k) == \A n \in DOMAIN exts : exts[n].own => exts[n].sender # k

\* What a script has captured, and what its earlier steps have done.
RunInv ==
  /\ run.pc = "register" =>
       run.sender \in 1..senders /\ (~byHand => Unused(run.sender))
  /\ run.pc \in {"owners", "projects", "keys", "write", "gate", "bind", "send"} =>
       Ours(run.sender, run.id)
  /\ run.pc \in {"projects", "keys", "write"} => exts[run.id].owner
  /\ run.pc \in {"keys", "write"} => exts[run.id].project
  /\ run.pc = "write" => exts[run.id].key
  /\ run.pc = "send" => bound[run.sender] # 0
  /\ run.pc \in {"version", "governance", "machine"} => node.n > 0 /\ run.id \in DOMAIN exts

\* The file names an extension of the operator, and its sender unless it is torn.
FileInv ==
  file.id # Empty => file.exists /\ \E k \in Nat : Ours(k, file.id) /\ file.sender \in {k, Empty}

\* The last instruction was meant for an extension there is.
SentInv == sent.want # 0 => sent.want \in DOMAIN exts

IInv ==
  /\ Typed /\ ChainInv /\ BoundFirst /\ OneEach /\ RunInv /\ FileInv /\ SentInv
  /\ CompleteWhenWritten /\ SentToOwn

-----------------------------------------------------------------------------
(* The registry only grows *)

LEMMA ExtsFacts ==
  ASSUME NEW es \in Seq(Extension)
  PROVE  /\ Len(es) \in Nat /\ DOMAIN es = 1..Len(es)
         /\ \A n \in DOMAIN es : es[n] \in Extension
BY ElementOfSeq

LEMMA SenderFacts ==
  ASSUME IInv
  PROVE  /\ senders \in Nat
         /\ \A n \in DOMAIN exts : exts[n].sender \in Nat /\ exts[n].sender <= senders
<1>1. MaxSenders \in Nat
  BY SetupAssumption
<1>2. \A n \in DOMAIN exts : exts[n] \in Extension
  BY ExtsFacts DEF IInv, Typed
<1>3. \A n \in DOMAIN exts : exts[n].sender \in 0..MaxSenders
  BY <1>2 DEF Extension
<1> QED
  BY <1>1, <1>3 DEF IInv, Typed, ChainInv

\* An extension keeps its sender and what it has been granted.
Kept(e, d) ==
  /\ d.sender = e.sender /\ d.own = e.own
  /\ (e.owner => d.owner) /\ (e.project => d.project) /\ (e.key => d.key)

Grows ==
  /\ exts' \in Seq(Extension) /\ DOMAIN exts \subseteq DOMAIN exts'
  /\ \A n \in DOMAIN exts : Kept(exts[n], exts'[n])
Rises == Grows /\ Len(exts') = Len(exts)

LEMMA FieldRises ==
  ASSUME Typed, NEW i \in DOMAIN exts, NEW e \in Extension, Kept(exts[i], e),
         exts' = [exts EXCEPT ![i] = e]
  PROVE  Rises
<1>1. exts \in Seq(Extension) /\ Len(exts) \in Nat /\ DOMAIN exts = 1..Len(exts)
  BY ExtsFacts DEF Typed
<1>2. /\ exts' \in Seq(Extension) /\ Len(exts') = Len(exts)
      /\ \A n \in 1..Len(exts) : exts'[n] = IF n = i THEN e ELSE exts[n]
  BY <1>1, ExceptSeq
<1>3. DOMAIN exts' = DOMAIN exts
  BY <1>1, <1>2, ExtsFacts
<1>4. ASSUME NEW n \in DOMAIN exts
      PROVE  Kept(exts[n], exts'[n])
  BY <1>1, <1>2 DEF Kept
<1> QED
  BY <1>2, <1>3, <1>4 DEF Rises, Grows

\* Each of the transactions that complete an extension.
LEMMA EffectRises ==
  ASSUME Typed, run.id \in DOMAIN exts, NEW g \in {"signers", "owner", "deployer"},
         \/ exts' = [exts EXCEPT ![run.id].owner = TRUE]
         \/ exts' = [exts EXCEPT ![run.id].project = TRUE]
         \/ exts' = [exts EXCEPT ![run.id].key = TRUE]
         \/ exts' = [exts EXCEPT ![run.id].version = TRUE]
         \/ exts' = [exts EXCEPT ![run.id].gov = g]
  PROVE  Rises
<1> DEFINE e == exts[run.id]
<1>1. e \in Extension
  BY ExtsFacts DEF Typed
<1>2. CASE exts' = [exts EXCEPT ![run.id].owner = TRUE]
  <2> DEFINE d == [e EXCEPT !.owner = TRUE]
  <2>1. d \in Extension /\ Kept(e, d)
    BY <1>1 DEF Extension, Kept
  <2>2. exts' = [exts EXCEPT ![run.id] = d]
    BY <1>2
  <2> QED
    BY <2>1, <2>2, FieldRises
<1>3. CASE exts' = [exts EXCEPT ![run.id].project = TRUE]
  <2> DEFINE d == [e EXCEPT !.project = TRUE]
  <2>1. d \in Extension /\ Kept(e, d)
    BY <1>1 DEF Extension, Kept
  <2>2. exts' = [exts EXCEPT ![run.id] = d]
    BY <1>3
  <2> QED
    BY <2>1, <2>2, FieldRises
<1>4. CASE exts' = [exts EXCEPT ![run.id].key = TRUE]
  <2> DEFINE d == [e EXCEPT !.key = TRUE]
  <2>1. d \in Extension /\ Kept(e, d)
    BY <1>1 DEF Extension, Kept
  <2>2. exts' = [exts EXCEPT ![run.id] = d]
    BY <1>4
  <2> QED
    BY <2>1, <2>2, FieldRises
<1>5. CASE exts' = [exts EXCEPT ![run.id].version = TRUE]
  <2> DEFINE d == [e EXCEPT !.version = TRUE]
  <2>1. d \in Extension /\ Kept(e, d)
    BY <1>1 DEF Extension, Kept
  <2>2. exts' = [exts EXCEPT ![run.id] = d]
    BY <1>5
  <2> QED
    BY <2>1, <2>2, FieldRises
<1>6. CASE exts' = [exts EXCEPT ![run.id].gov = g]
  <2> DEFINE d == [e EXCEPT !.gov = g]
  <2>1. d \in Extension /\ Kept(e, d)
    BY <1>1 DEF Extension, Kept
  <2>2. exts' = [exts EXCEPT ![run.id] = d]
    BY <1>6
  <2> QED
    BY <2>1, <2>2, FieldRises
<1> QED
  BY <1>2, <1>3, <1>4, <1>5, <1>6

LEMMA AppendGrows ==
  ASSUME Typed, NEW k \in 0..MaxSenders, NEW own \in BOOLEAN, exts' = Append(exts, NewExtension(k, own))
  PROVE  /\ Grows /\ Len(exts') = Len(exts) + 1
         /\ DOMAIN exts' = DOMAIN exts \cup {Len(exts) + 1}
         /\ Len(exts) + 1 \notin DOMAIN exts
         /\ \A n \in DOMAIN exts : exts'[n] = exts[n]
         /\ exts'[Len(exts) + 1] = NewExtension(k, own)
<1>1. exts \in Seq(Extension) /\ Len(exts) \in Nat /\ DOMAIN exts = 1..Len(exts)
  BY ExtsFacts DEF Typed
<1>2. NewExtension(k, own) \in Extension
  BY DEF NewExtension, Extension
<1>3. /\ exts' \in Seq(Extension) /\ Len(exts') = Len(exts) + 1
      /\ \A n \in 1..Len(exts) : exts'[n] = exts[n]
      /\ exts'[Len(exts) + 1] = NewExtension(k, own)
  BY <1>1, <1>2, AppendProperties
<1>4. DOMAIN exts' = 1..(Len(exts) + 1)
  BY <1>3, ExtsFacts
<1>5. \A n \in DOMAIN exts : Kept(exts[n], exts'[n])
  BY <1>1, <1>3 DEF Kept
<1> QED
  BY <1>1, <1>3, <1>4, <1>5 DEF Grows

\* What refers to an extension still does, and what was complete still is.
LEMMA GrowthKeeps ==
  ASSUME IInv, Grows, senders' \in Nat, senders <= senders', UNCHANGED <<bound, file, sent, byHand>>
  PROVE  /\ \A k, n \in Nat : (Pair(k, n) => Pair(k, n)') /\ (Ours(k, n) => Ours(k, n)')
         /\ \A k \in 1..MaxSenders : bound[k] # 0 => Pair(k, bound[k])'
         /\ FileInv' /\ SentInv' /\ CompleteWhenWritten' /\ SentToOwn'
<1>1. senders \in Nat /\ DOMAIN exts = 1..Len(exts) /\ Len(exts) \in Nat
  BY SetupAssumption, ExtsFacts DEF IInv, Typed
<1>2. ASSUME NEW k, NEW n, Pair(k, n)
      PROVE  k \in 1..senders' /\ n \in DOMAIN exts' /\ exts'[n].sender = k
  BY <1>1, <1>2 DEF Grows, Pair, Kept
<1>3. \A k, n \in Nat : Pair(k, n) => Pair(k, n)'
  BY <1>2 DEF Pair
<1>4. \A k \in 1..MaxSenders : bound[k] # 0 => Pair(k, bound[k])'
  BY <1>2 DEF Pair, IInv, ChainInv
<1>5. ASSUME NEW k, NEW n, Ours(k, n)
      PROVE  k \in 1..senders' /\ n \in DOMAIN exts' /\ exts'[n].sender = k /\ exts'[n].own
  BY <1>2, <1>5 DEF Ours, Pair, Grows, Kept
<1>6. FileInv'
  <2> SUFFICES ASSUME file.id # Empty
               PROVE  file.exists /\ \E k \in Nat :
                        /\ k \in 1..senders' /\ file.id \in DOMAIN exts'
                        /\ exts'[file.id].sender = k /\ exts'[file.id].own
                        /\ file.sender \in {k, Empty}
    BY DEF FileInv, Ours, Pair
  <2> QED
    BY <1>5 DEF IInv, FileInv
<1>7. CompleteWhenWritten'
  BY DEF IInv, FileInv, Ours, Pair, CompleteWhenWritten, Grows, Kept
<1>8. SentInv'
  BY DEF IInv, SentInv, Grows
<1>9. SentToOwn'
  <2> SUFFICES ASSUME sent.want # 0, ~byHand, sent.to[2] # sent.want
               PROVE  \E o \in 1..(sent.want - 1) : exts'[o].sender = exts'[sent.want].sender /\ ~exts'[o].own
    BY DEF SentToOwn, Taken
  <2>1. PICK o \in 1..(sent.want - 1) : exts[o].sender = exts[sent.want].sender /\ ~exts[o].own
    BY DEF IInv, SentToOwn, Taken
  <2>2. sent.want \in DOMAIN exts /\ o \in DOMAIN exts
    BY <1>1 DEF IInv, SentInv
  <2> QED
    BY <2>1, <2>2 DEF Grows, Kept
<1>10. \A k, n \in Nat : Ours(k, n) => Ours(k, n)'
  BY <1>5 DEF Ours, Pair
<1> QED
  BY <1>3, <1>4, <1>6, <1>7, <1>8, <1>9, <1>10

-----------------------------------------------------------------------------
(* The steps of the scripts *)

RunType == [pc : Stages, sender : 0..MaxSenders, id : Nat]

LEMMA IdleRun ==
  ASSUME run' = Idle
  PROVE  run' \in RunType /\ RunInv'
<1>1. Idle \in RunType
  BY SetupAssumption DEF Idle, RunType, Stages
<1> QED
  BY <1>1 DEF Idle, RunInv

\* Steps that change nothing but the script's progress and the settings.
LEMMA RunOnly ==
  ASSUME IInv, UNCHANGED <<chain, file, node, sent, byHand>>, gov' \in Governances,
         run' \in RunType, RunInv'
  PROVE  IInv'
<1>1. UNCHANGED <<exts, senders, bound, machines, file, node, sent, byHand>>
  BY DEF chain
<1>2. Typed' /\ ChainInv' /\ BoundFirst'
  BY <1>1 DEF IInv, Typed, ChainInv, BoundFirst, Pair, RunType
<1>3. OneEach' /\ FileInv' /\ SentInv'
  BY <1>1 DEF IInv, OneEach, FileInv, SentInv, Ours, Pair
<1>4. CompleteWhenWritten' /\ SentToOwn'
  BY <1>1 DEF IInv, CompleteWhenWritten, SentToOwn, Taken
<1> QED
  BY <1>2, <1>3, <1>4 DEF IInv

\* Transactions that complete a registered extension.
LEMMA RisesOnly ==
  ASSUME IInv, Rises, UNCHANGED <<senders, bound, machines, file, gov, node, sent, byHand>>,
         run' \in RunType, RunInv'
  PROVE  IInv'
<1>1. senders \in Nat /\ senders <= senders
  BY SetupAssumption DEF IInv, Typed
<1>2. /\ \A k \in 1..MaxSenders : bound[k] # 0 => Pair(k, bound[k])'
      /\ FileInv' /\ SentInv' /\ CompleteWhenWritten' /\ SentToOwn'
  BY <1>1, GrowthKeeps DEF Rises
<1>3. /\ DOMAIN exts' = DOMAIN exts
      /\ \A n \in DOMAIN exts : exts'[n].sender = exts[n].sender /\ exts'[n].own = exts[n].own
  BY ExtsFacts DEF Rises, Grows, Kept, IInv, Typed
<1>4. Typed'
  BY DEF IInv, Typed, Rises, Grows, RunType
<1>5. ChainInv' /\ BoundFirst' /\ OneEach'
  BY <1>2, <1>3 DEF IInv, ChainInv, BoundFirst, OneEach
<1> QED
  BY <1>2, <1>4, <1>5 DEF IInv

\* The file of an operator who has one.
LEMMA NamedFile ==
  ASSUME IInv, Named
  PROVE  /\ Ours(file.sender, file.id) /\ file.sender \in 1..senders
         /\ file.sender \in 0..MaxSenders /\ file.id \in Nat /\ file.exists
<1>1. Ours(file.sender, file.id) /\ file.exists
  BY DEF IInv, FileInv, Named
<1>2. senders \in 0..MaxSenders /\ MaxSenders \in Nat /\ DOMAIN exts = 1..Len(exts) /\ Len(exts) \in Nat
  BY SetupAssumption, ExtsFacts DEF IInv, Typed
<1> QED
  BY <1>1, <1>2 DEF Ours, Pair

LEMMA BeginStep ==
  ASSUME IInv, PreBuild \/ PostBuild \/ Test \/ RegisterAgain
  PROVE  IInv'
<1>1. /\ UNCHANGED <<chain, file, node, sent, byHand>> /\ gov' \in Governances
      /\ \A n \in DOMAIN exts : n \in Nat
  <2>1. UNCHANGED <<chain, file, gov, node, sent, byHand>>
    BY DEF PreBuild, PostBuild, Test, RegisterAgain, Begin
  <2>2. \A n \in DOMAIN exts : n \in Nat
    BY ExtsFacts DEF IInv, Typed
  <2> QED
    BY <2>1, <2>2 DEF IInv, Typed
<1>2. UNCHANGED <<exts, senders, bound, node, byHand>>
  BY <1>1 DEF chain
<1>3. 0 \in 0..MaxSenders /\ \A k \in 1..senders : k \in 0..MaxSenders
  BY SetupAssumption DEF IInv, Typed
<1>4. CASE PreBuild
  <2>1. run' = [pc |-> "deploy", sender |-> 0, id |-> 0]
    BY <1>4 DEF PreBuild, Begin
  <2> QED
    BY <1>1, <1>3, <2>1, RunOnly DEF RunType, Stages, RunInv
<1>5. CASE PostBuild
  <2>1. run' = [pc |-> "version", sender |-> 0, id |-> node.id] /\ node.n > 0
    BY <1>5 DEF PostBuild, Begin
  <2>2. node.id \in DOMAIN exts /\ node.id \in Nat
    BY <1>1, <2>1 DEF IInv, ChainInv
  <2>3. RunInv'
    BY <1>2, <2>1, <2>2 DEF RunInv
  <2> QED
    BY <1>1, <1>3, <2>1, <2>2, <2>3, RunOnly DEF RunType, Stages
<1>6. CASE Test
  <2>1. run' = [pc |-> "gate", sender |-> file.sender, id |-> file.id] /\ Named
    BY <1>6 DEF Test, Begin
  <2>2. Ours(file.sender, file.id) /\ file.sender \in 0..MaxSenders /\ file.id \in Nat
    BY <2>1, NamedFile
  <2>3. RunInv'
    BY <1>2, <2>1, <2>2 DEF RunInv, Ours, Pair
  <2> QED
    BY <1>1, <2>1, <2>2, <2>3, RunOnly DEF RunType, Stages
<1>7. CASE RegisterAgain
  <2>1. run' = [pc |-> "register", sender |-> file.sender, id |-> 0] /\ Named /\ byHand
    BY <1>7 DEF RegisterAgain, Begin
  <2>2. file.sender \in 1..senders /\ file.sender \in 0..MaxSenders
    BY <2>1, NamedFile
  <2>3. RunInv'
    BY <1>2, <2>1, <2>2 DEF RunInv
  <2> QED
    BY <1>1, <2>1, <2>2, <2>3, RunOnly DEF RunType, Stages
<1> QED
  BY <1>4, <1>5, <1>6, <1>7

\* What stops the run or moves it on without a transaction.
LEMMA QuietStep ==
  ASSUME IInv, Gate \/ Refused \/ Fail \/ EditGovernance
  PROVE  IInv'
<1>1. UNCHANGED <<chain, file, node, sent, byHand>> /\ gov' \in Governances
  BY DEF Gate, Refused, Fail, EditGovernance, IInv, Typed
<1>2. UNCHANGED <<exts, senders, bound, node, byHand>>
  BY <1>1 DEF chain
<1>3. CASE Gate
  <2>1. run.pc = "gate" /\ run' = [run EXCEPT !.pc = "bind"]
    BY <1>3 DEF Gate, Goto
  <2>2. run' \in RunType /\ run'.pc = "bind" /\ run'.sender = run.sender /\ run'.id = run.id
    BY <2>1 DEF IInv, Typed, RunType, Stages
  <2>3. RunInv'
    BY <1>2, <2>1, <2>2 DEF IInv, RunInv, Ours, Pair
  <2> QED
    BY <1>1, <2>2, <2>3, RunOnly
<1>4. CASE Refused \/ Fail
  BY <1>1, <1>4, IdleRun, RunOnly DEF Refused, Fail, Stop
<1>5. CASE EditGovernance
  <2>1. UNCHANGED run
    BY <1>5 DEF EditGovernance
  <2>2. run' \in RunType
    BY <2>1 DEF IInv, Typed, RunType
  <2>3. RunInv'
    BY <1>2, <2>1 DEF IInv, RunInv, Ours, Pair, Unused
  <2> QED
    BY <1>1, <2>2, <2>3, RunOnly
<1> QED
  BY <1>3, <1>4, <1>5

LEMMA EnsureStep ==
  ASSUME IInv,
         \/ AllowTeeMachineOwners \/ AllowTeeProjectManagerOwners \/ AddSupportedKeyTypes
         \/ AllowVersion \/ SetTeeGovernance
  PROVE  IInv'
<1>1. /\ UNCHANGED <<senders, bound, machines, file, gov, node, sent, byHand>>
      /\ run.id \in DOMAIN exts /\ run \in RunType
  BY DEF AllowTeeMachineOwners, AllowTeeProjectManagerOwners, AddSupportedKeyTypes,
         AllowVersion, SetTeeGovernance, Ensure, IInv, RunInv, Ours, Pair, Typed, RunType
<1>2. ASSUME exts' = exts
      PROVE  Rises
  BY <1>2, ExtsFacts DEF Rises, Grows, Kept, IInv, Typed
<1>3. gov # "invalid" => Desired \in {"signers", "owner", "deployer"}
  BY SetupAssumption DEF Desired, IInv, Typed
<1>4. Rises
  <2>1. CASE exts' = exts
    BY <1>2, <2>1
  <2>2. CASE exts' # exts
    BY <1>1, <1>3, <2>2, EffectRises
    DEF AllowTeeMachineOwners, AllowTeeProjectManagerOwners, AddSupportedKeyTypes,
        AllowVersion, SetTeeGovernance, Ensure, Tx, IInv
  <2> QED
    BY <2>1, <2>2
<1>5. CASE run' = Idle
  BY <1>1, <1>4, <1>5, IdleRun, RisesOnly
<1>6. /\ Kept(exts[run.id], exts'[run.id]) /\ run.id \in DOMAIN exts'
      /\ Ours(run.sender, run.id) =>
           run.sender \in 1..senders' /\ exts'[run.id].sender = run.sender /\ exts'[run.id].own
  BY <1>1, <1>4 DEF Rises, Grows, Kept, Ours, Pair
<1>7. ASSUME NEW pc2 \in Stages, run' = [run EXCEPT !.pc = pc2]
      PROVE  run' \in RunType /\ run'.pc = pc2 /\ run'.sender = run.sender /\ run'.id = run.id
  BY <1>1, <1>7 DEF RunType
<1>8. {"projects", "keys", "write", "governance", "machine"} \subseteq Stages
  BY DEF Stages
<1>9. exts[run.id] \in Extension
  BY <1>1, ExtsFacts DEF IInv, Typed
<1>10. CASE AllowTeeMachineOwners /\ run' # Idle
  <2>1. /\ run.pc = "owners" /\ run' = [run EXCEPT !.pc = "projects"]
        /\ exts[run.id].owner \/ exts' = [exts EXCEPT ![run.id].owner = TRUE]
    BY <1>10 DEF AllowTeeMachineOwners, Ensure, Tx, Goto, Stop
  <2>2. exts'[run.id].owner
    BY <1>1, <1>6, <1>9, <2>1 DEF Kept, Extension
  <2>3. run' \in RunType /\ RunInv'
    BY <1>6, <1>7, <1>8, <2>1, <2>2 DEF IInv, RunInv, Ours, Pair
  <2> QED
    BY <1>1, <1>4, <2>3, RisesOnly
<1>11. CASE AllowTeeProjectManagerOwners /\ run' # Idle
  <2>1. /\ run.pc = "projects" /\ run' = [run EXCEPT !.pc = "keys"]
        /\ exts[run.id].project \/ exts' = [exts EXCEPT ![run.id].project = TRUE]
    BY <1>11 DEF AllowTeeProjectManagerOwners, Ensure, Tx, Goto, Stop
  <2>2. exts'[run.id].owner /\ exts'[run.id].project
    BY <1>1, <1>6, <1>9, <2>1 DEF Kept, Extension, IInv, RunInv
  <2>3. run' \in RunType /\ RunInv'
    BY <1>6, <1>7, <1>8, <2>1, <2>2 DEF IInv, RunInv, Ours, Pair
  <2> QED
    BY <1>1, <1>4, <2>3, RisesOnly
<1>12. CASE AddSupportedKeyTypes /\ run' # Idle
  <2>1. /\ run.pc = "keys" /\ run' = [run EXCEPT !.pc = "write"]
        /\ exts[run.id].key \/ exts' = [exts EXCEPT ![run.id].key = TRUE]
    BY <1>12 DEF AddSupportedKeyTypes, Ensure, Tx, Goto, Stop
  <2>2. exts'[run.id].owner /\ exts'[run.id].project /\ exts'[run.id].key
    BY <1>1, <1>6, <1>9, <2>1 DEF Kept, Extension, IInv, RunInv
  <2>3. run' \in RunType /\ RunInv'
    BY <1>6, <1>7, <1>8, <2>1, <2>2 DEF IInv, RunInv, Ours, Pair
  <2> QED
    BY <1>1, <1>4, <2>3, RisesOnly
<1>13. CASE (AllowVersion \/ SetTeeGovernance) /\ run' # Idle
  <2>1. PICK pc2 \in {"governance", "machine"} : run' = [run EXCEPT !.pc = pc2]
    BY <1>13 DEF AllowVersion, SetTeeGovernance, Ensure, Tx, Goto, Stop
  <2>2. node.n > 0
    BY <1>13 DEF AllowVersion, SetTeeGovernance, IInv, RunInv
  <2>3. run' \in RunType /\ RunInv'
    BY <1>1, <1>6, <1>7, <1>8, <2>1, <2>2 DEF RunInv
  <2> QED
    BY <1>1, <1>4, <2>3, RisesOnly
<1> QED
  BY <1>5, <1>10, <1>11, <1>12, <1>13

\* A new extension of any sender: an extension of the operator is the first of
\* the operator for its sender, unless someone repairs by hand.
LEMMA AppendStep ==
  ASSUME IInv, NEW k \in 0..senders, NEW own \in BOOLEAN,
         exts' = Append(exts, NewExtension(k, own)), Len(exts) < MaxExtensions,
         own => k # 0 /\ (~byHand => Unused(k)),
         machines' \in {machines, machines \cup {<<0, Len(exts) + 1>>}},
         UNCHANGED <<senders, bound, file, gov, node, sent, byHand>>,
         run' \in RunType, RunInv'
  PROVE  IInv'
<1>1. /\ senders \in Nat /\ senders <= senders /\ k \in 0..MaxSenders /\ MaxExtensions \in Nat
      /\ senders <= MaxSenders /\ k <= senders
      /\ Len(exts) \in Nat /\ DOMAIN exts = 1..Len(exts) /\ node.n \in Nat
  BY SetupAssumption, ExtsFacts DEF IInv, Typed
<1>2. /\ Grows /\ Len(exts') = Len(exts) + 1
      /\ DOMAIN exts' = DOMAIN exts \cup {Len(exts) + 1}
      /\ \A n \in DOMAIN exts : exts'[n] = exts[n]
      /\ exts'[Len(exts) + 1] = NewExtension(k, own)
  BY <1>1, AppendGrows DEF IInv
<1>3. /\ \A j \in 1..MaxSenders : bound[j] # 0 => Pair(j, bound[j])'
      /\ FileInv' /\ SentInv' /\ CompleteWhenWritten' /\ SentToOwn'
  BY <1>1, <1>2, GrowthKeeps
<1>4. exts'[Len(exts) + 1].sender = k /\ exts'[Len(exts) + 1].own = own
  BY <1>2 DEF NewExtension
<1>5. Typed'
  BY <1>1, <1>2 DEF IInv, Typed, Grows, RunType
<1>6. ChainInv'
  <2>1. \A m \in machines' : m[1] \in 0..node.n /\ m[2] \in DOMAIN exts'
    <3>1. \A m \in machines : m[1] \in 0..node.n /\ m[2] \in DOMAIN exts'
      BY <1>2 DEF IInv, ChainInv
    <3>2. 0 \in 0..node.n /\ Len(exts) + 1 \in DOMAIN exts'
      BY <1>1, <1>2
    <3> QED
      BY <3>1, <3>2
  <2>2. \A n \in DOMAIN exts' : exts'[n].sender <= senders' /\ (exts'[n].own => exts'[n].sender # 0)
    BY <1>1, <1>2, <1>4 DEF IInv, ChainInv
  <2> QED
    BY <1>2, <1>3, <2>1, <2>2 DEF IInv, ChainInv
<1>7. BoundFirst'
  <2> SUFFICES ASSUME NEW j \in 1..MaxSenders, bound[j] # 0,
                      NEW n \in DOMAIN exts', exts'[n].sender = j
               PROVE  bound[j] <= n
    BY DEF BoundFirst
  <2>1. bound[j] \in DOMAIN exts
    BY DEF IInv, ChainInv, Pair
  <2>2. CASE n = Len(exts) + 1
    BY <1>1, <2>1, <2>2
  <2>3. CASE n \in DOMAIN exts
    BY <1>2, <2>3 DEF IInv, BoundFirst
  <2> QED
    BY <1>2, <2>2, <2>3
<1>8. OneEach'
  BY <1>2, <1>4 DEF IInv, OneEach, Unused
<1> QED
  BY <1>3, <1>5, <1>6, <1>7, <1>8 DEF IInv

LEMMA RegistrationStep ==
  ASSUME IInv, RegisterExtension
  PROVE  IInv'
<1>1. /\ run.pc = "register" /\ run.sender \in 1..senders
      /\ ~byHand => Unused(run.sender)
      /\ run \in RunType /\ senders \in 0..MaxSenders
  BY DEF RegisterExtension, IInv, RunInv, Typed, RunType
<1>2. run.sender \in 0..senders /\ run.sender \in 0..MaxSenders /\ run.sender # 0
  BY <1>1, SetupAssumption
<1>3. /\ exts' = Append(exts, NewExtension(run.sender, TRUE)) /\ Len(exts) < MaxExtensions
      /\ UNCHANGED <<senders, bound, machines, file, gov, node, sent, byHand>>
  BY DEF RegisterExtension
<1>4. CASE run' = Idle
  BY <1>1, <1>2, <1>3, <1>4, IdleRun, AppendStep
<1>5. CASE run' = [run EXCEPT !.pc = "owners", !.id = Len(exts) + 1]
  <2>1. Len(exts) \in Nat /\ "owners" \in Stages
    BY ExtsFacts DEF IInv, Typed, Stages
  <2>2. run' = [pc |-> "owners", sender |-> run.sender, id |-> Len(exts) + 1]
    BY <1>1, <1>5 DEF RunType
  <2>3. /\ Len(exts) + 1 \in DOMAIN exts'
        /\ exts'[Len(exts) + 1] = NewExtension(run.sender, TRUE)
    BY <1>2, <1>3, AppendGrows DEF IInv
  <2>4. RunInv'
    BY <1>1, <1>3, <2>2, <2>3 DEF RunInv, Ours, Pair, NewExtension
  <2>5. run' \in RunType
    BY <1>2, <2>1, <2>2 DEF RunType
  <2> QED
    BY <1>1, <1>2, <1>3, <2>4, <2>5, AppendStep
<1> QED
  BY <1>4, <1>5 DEF RegisterExtension, Stop

\* Whoever registers, with whatever sender, leaves what the operator has done.
LEMMA OtherStep ==
  ASSUME IInv, OtherRegisters
  PROVE  IInv'
<1>1. PICK k \in 0..senders : exts' = Append(exts, NewExtension(k, FALSE))
  BY DEF OtherRegisters
<1>2. /\ Len(exts) < MaxExtensions
      /\ machines' \in {machines, machines \cup {<<0, Len(exts) + 1>>}}
      /\ UNCHANGED <<senders, bound, file, gov, node, run, sent, byHand>>
  BY DEF OtherRegisters
<1>3. k \in 0..MaxSenders /\ run' \in RunType
  BY <1>1, <1>2, SetupAssumption DEF IInv, Typed, RunType
<1>4. /\ DOMAIN exts' = DOMAIN exts \cup {Len(exts) + 1}
      /\ \A n \in DOMAIN exts : exts'[n] = exts[n]
      /\ exts'[Len(exts) + 1] = NewExtension(k, FALSE)
  BY <1>1, <1>3, AppendGrows DEF IInv
<1>5. RunInv'
  <2>1. ASSUME Unused(run.sender)
        PROVE  \A n \in DOMAIN exts' : exts'[n].own => exts'[n].sender # run.sender
    BY <1>4, <2>1 DEF Unused, NewExtension
  <2>2. run.pc = "register" => run.sender \in 1..senders /\ (~byHand => Unused(run.sender))
    BY DEF IInv, RunInv
  <2>3. (run.pc = "register" => run.sender \in 1..senders /\ (~byHand => Unused(run.sender)))'
    BY <1>2, <2>1, <2>2 DEF Unused
  <2>4. ASSUME Ours(run.sender, run.id)
        PROVE  Ours(run.sender, run.id)' /\ exts'[run.id] = exts[run.id]
    BY <1>2, <1>4, <2>4 DEF Ours, Pair
  <2>5. run.id \in DOMAIN exts => run.id \in DOMAIN exts'
    BY <1>4
  <2> QED
    BY <1>2, <2>3, <2>4, <2>5 DEF IInv, RunInv
<1> QED
  BY <1>1, <1>2, <1>3, <1>5, AppendStep

LEMMA SenderStep ==
  ASSUME IInv, DeployInstructionSender
  PROVE  IInv'
<1>1. /\ run.pc = "deploy" /\ senders < MaxSenders /\ senders' = senders + 1
      /\ UNCHANGED <<exts, bound, machines, file, gov, node, sent, byHand>>
      /\ senders \in Nat /\ senders' \in Nat /\ senders <= senders' /\ senders' \in 1..MaxSenders
      /\ run \in RunType
  BY SetupAssumption DEF DeployInstructionSender, IInv, Typed, RunType
<1>2. Grows
  BY <1>1 DEF Grows, Kept, IInv, Typed
<1>3. /\ \A j \in 1..MaxSenders : bound[j] # 0 => Pair(j, bound[j])'
      /\ FileInv' /\ SentInv' /\ CompleteWhenWritten' /\ SentToOwn'
  BY <1>1, <1>2, GrowthKeeps
<1>4. ChainInv'
  <2>1. \A n \in DOMAIN exts' : exts'[n].sender <= senders'
    BY <1>1, SenderFacts
  <2> QED
    BY <1>1, <1>3, <2>1 DEF IInv, ChainInv
<1>5. OneEach' /\ BoundFirst'
  BY <1>1 DEF IInv, OneEach, BoundFirst
<1>6. run' \in RunType /\ RunInv'
  <2>1. CASE run' = Idle
    BY <2>1, IdleRun
  <2>2. CASE run' = [run EXCEPT !.pc = "register", !.sender = senders + 1]
    <3>1. run' = [pc |-> "register", sender |-> senders + 1, id |-> run.id]
      BY <1>1, <2>2 DEF RunType
    <3>2. run' \in RunType
      BY <1>1, <3>1 DEF RunType, Stages
    <3>3. \A n \in DOMAIN exts : exts[n].sender # senders + 1
      BY SenderFacts
    <3>4. Unused(run.sender)'
      BY <1>1, <3>1, <3>3 DEF Unused
    <3> QED
      BY <1>1, <3>1, <3>2, <3>4 DEF RunInv
  <2> QED
    BY <2>1, <2>2 DEF DeployInstructionSender, Stop
<1>7. Typed'
  BY <1>1, <1>6, SetupAssumption DEF IInv, Typed, RunType
<1> QED
  BY <1>3, <1>4, <1>5, <1>6, <1>7 DEF IInv

\* Whole or torn, the file names an extension of the operator, or none.
LEMMA WriteStep ==
  ASSUME IInv, WriteConfig \/ WriteByHand
  PROVE  IInv'
<1>1. /\ UNCHANGED <<exts, senders, bound, machines, gov, node, sent, byHand>>
      /\ \A n \in DOMAIN exts : n \in Nat
      /\ senders \in Nat
  <2>1. UNCHANGED <<exts, senders, bound, machines, gov, node, sent, byHand>>
    BY DEF WriteConfig, WriteByHand, chain
  <2>2. \A n \in DOMAIN exts : n \in Nat
    BY ExtsFacts DEF IInv, Typed
  <2>3. senders \in Nat
    BY SetupAssumption DEF IInv, Typed
  <2> QED
    BY <2>1, <2>2, <2>3
<1>2. PICK k, n : /\ Ours(k, n)
                  /\ \E i \in {Empty, n}, j \in {Empty, k} :
                       file' = [exists |-> TRUE, id |-> i, sender |-> j]
                  /\ WriteConfig => k = run.sender /\ n = run.id
  <2>1. CASE WriteConfig
    <3>1. Ours(run.sender, run.id)
      BY <2>1 DEF WriteConfig, IInv, RunInv
    <3>2. \E i \in {Empty, run.id}, j \in {Empty, run.sender} :
            file' = [exists |-> TRUE, id |-> i, sender |-> j]
      BY <2>1 DEF WriteConfig
    <3> QED
      BY <3>1, <3>2
  <2>2. CASE WriteByHand /\ ~WriteConfig
    <3>1. PICK n \in DOMAIN exts : exts[n].own /\ file' = [exists |-> TRUE, id |-> n, sender |-> exts[n].sender]
      BY <2>2 DEF WriteByHand
    <3>2. exts[n].sender \in 1..senders
      <4>1. exts[n].sender # 0
        BY <3>1 DEF IInv, ChainInv
      <4> QED
        BY <4>1, SenderFacts
    <3>3. Ours(exts[n].sender, n)
      BY <3>1, <3>2 DEF Ours, Pair
    <3> QED
      BY <2>2, <3>1, <3>3
  <2> QED
    BY <2>1, <2>2
<1>3. k \in Nat /\ k # Empty /\ n \in Nat
  BY <1>1, <1>2 DEF Ours, Pair, Empty
<1>4. FileInv'
  <2> SUFFICES ASSUME file'.id # Empty
               PROVE  file'.exists /\ \E j \in Nat :
                        /\ j \in 1..senders' /\ file'.id \in DOMAIN exts'
                        /\ exts'[file'.id].sender = j /\ exts'[file'.id].own
                        /\ file'.sender \in {j, Empty}
    BY DEF FileInv, Ours, Pair
  <2>1. file'.exists /\ file'.id = n /\ file'.sender \in {k, Empty}
    BY <1>2
  <2> QED
    BY <1>1, <1>2, <1>3, <2>1 DEF Ours, Pair
<1>5. run' \in RunType /\ RunInv'
  <2>1. CASE WriteConfig
    BY <2>1, IdleRun DEF WriteConfig, Stop
  <2>2. CASE WriteByHand
    BY <1>1, <2>2 DEF WriteByHand, IInv, Typed, RunInv, RunType, Ours, Pair, Unused
  <2> QED
    BY <2>1, <2>2
<1>6. CompleteWhenWritten'
  <2>1. CASE WriteConfig
    <3>1. /\ exts[run.id].owner /\ exts[run.id].project /\ exts[run.id].key
          /\ exts[run.id].sender = run.sender
      BY <2>1 DEF WriteConfig, IInv, RunInv, Ours, Pair
    <3>2. file'.id # Empty => file'.id = run.id /\ file'.sender \in {run.sender, Empty}
      BY <1>2, <2>1
    <3> QED
      BY <1>1, <3>1, <3>2 DEF CompleteWhenWritten
  <2>2. CASE WriteByHand
    BY <1>1, <2>2 DEF WriteByHand, CompleteWhenWritten
  <2> QED
    BY <2>1, <2>2
<1>7. Typed'
  <2>1. file' \in [exists : BOOLEAN, id : Int, sender : Int]
    BY <1>2, <1>3 DEF Empty
  <2> QED
    BY <1>1, <1>5, <2>1 DEF IInv, Typed, RunType
<1>8. ChainInv' /\ BoundFirst' /\ OneEach' /\ SentInv' /\ SentToOwn'
  BY <1>1 DEF IInv, ChainInv, BoundFirst, OneEach, SentInv, SentToOwn, Taken, Pair
<1> QED
  BY <1>4, <1>5, <1>6, <1>7, <1>8 DEF IInv

LEMMA NodeStep ==
  ASSUME IInv, StartNode
  PROVE  IInv'
<1>1. /\ UNCHANGED <<exts, senders, bound, machines, file, gov, run, sent, byHand>>
      /\ file.id # Empty /\ node.n < MaxNodes
      /\ node' = [n |-> node.n + 1, id |-> file.id, gov |-> NodeGovernance]
  BY DEF StartNode, chain
<1>2. node.n \in Nat /\ node.n + 1 \in 1..MaxNodes
  BY <1>1, SetupAssumption DEF IInv, Typed
<1>3. file.id \in DOMAIN exts /\ file.id \in Nat
  BY <1>1, ExtsFacts DEF IInv, FileInv, Ours, Pair, Typed
<1>4. Typed'
  BY <1>1, <1>2, <1>3, SetupAssumption DEF IInv, Typed
<1>5. ChainInv'
  BY <1>1, <1>2, <1>3 DEF IInv, ChainInv, Pair
<1>6. RunInv'
  BY <1>1, <1>2 DEF IInv, RunInv, Ours, Pair, Unused
<1>7. /\ BoundFirst' /\ OneEach' /\ FileInv' /\ SentInv' /\ CompleteWhenWritten' /\ SentToOwn'
  BY <1>1 DEF IInv, BoundFirst, OneEach, FileInv, SentInv, CompleteWhenWritten, SentToOwn, Taken, Ours, Pair
<1> QED
  BY <1>4, <1>5, <1>6, <1>7 DEF IInv

LEMMA ProductionStep ==
  ASSUME IInv, RegisterMachine
  PROVE  IInv'
<1>1. /\ UNCHANGED <<exts, senders, bound, file, gov, node, sent, byHand>> /\ run' = Idle
      /\ machines' = machines \cup {<<node.n, node.id>>} /\ run.pc = "machine"
  BY DEF RegisterMachine, Tx, Goto, Stop
<1>2. run' \in RunType /\ RunInv'
  BY <1>1, IdleRun
<1>3. node.n \in 0..node.n /\ node.id \in DOMAIN exts
  BY <1>1, SetupAssumption DEF IInv, RunInv, ChainInv, Typed
<1>4. \A m \in machines' : m[1] \in 0..node.n /\ m[2] \in DOMAIN exts
  BY <1>1, <1>3 DEF IInv, ChainInv
<1>5. Typed' /\ ChainInv'
  BY <1>1, <1>2, <1>4 DEF IInv, Typed, ChainInv, Pair, RunType
<1>6. /\ BoundFirst' /\ OneEach' /\ FileInv' /\ SentInv' /\ CompleteWhenWritten' /\ SentToOwn'
  BY <1>1 DEF IInv, BoundFirst, OneEach, FileInv, SentInv, CompleteWhenWritten, SentToOwn, Taken, Ours, Pair
<1> QED
  BY <1>2, <1>5, <1>6 DEF IInv

\* The lowest of a sender's extensions is one of them, and there is none below.
LEMMA LowestOwn ==
  ASSUME NEW es \in Seq(Extension), exts = es, NEW k, OfSender(k) # {}
  PROVE  Lowest(k) \in OfSender(k) /\ \A o \in OfSender(k) : Lowest(k) <= o
<1>1. OfSender(k) \subseteq Nat
  BY ExtsFacts DEF OfSender
<1>2. \E n \in OfSender(k) : \A o \in OfSender(k) : n <= o
  BY <1>1, LeastElement
<1> QED
  BY <1>2 DEF Lowest

LEMMA BindStep ==
  ASSUME IInv, SetExtensionId
  PROVE  IInv'
<1>1. /\ run.pc = "bind" /\ Ours(run.sender, run.id) /\ run \in RunType
      /\ UNCHANGED <<exts, senders, machines, file, gov, node, sent, byHand>>
  BY DEF SetExtensionId, IInv, RunInv, Typed, RunType
<1>2. run.sender \in 1..MaxSenders /\ run.sender \in 1..senders
  BY <1>1, SetupAssumption DEF Ours, Pair, IInv, Typed
<1>3. \/ bound' = bound /\ bound[run.sender] # 0 /\ run' = [run EXCEPT !.pc = "send"]
      \/ /\ bound[run.sender] = 0 /\ OfSender(run.sender) # {}
         /\ bound' = [bound EXCEPT ![run.sender] = Lowest(run.sender)]
         /\ run' = Idle \/ run' = [run EXCEPT !.pc = "send"]
  BY DEF SetExtensionId, Tx, Goto, Stop
<1>4. /\ bound' \in [1..MaxSenders -> Nat]
      /\ \A j \in 1..MaxSenders : bound'[j] # 0 => Pair(j, bound'[j])
      /\ run' # Idle => bound'[run.sender] # 0
      /\ BoundFirst'
  <2>1. CASE bound' = bound /\ bound[run.sender] # 0
    BY <1>1, <2>1 DEF IInv, Typed, ChainInv, BoundFirst
  <2>2. CASE /\ OfSender(run.sender) # {}
             /\ bound' = [bound EXCEPT ![run.sender] = Lowest(run.sender)]
    <3>1. /\ Lowest(run.sender) \in OfSender(run.sender)
          /\ \A o \in OfSender(run.sender) : Lowest(run.sender) <= o
      BY <2>2, LowestOwn DEF IInv, Typed
    <3>2. Lowest(run.sender) \in Nat /\ Lowest(run.sender) # 0 /\ Pair(run.sender, Lowest(run.sender))
      BY <1>2, <3>1, ExtsFacts DEF OfSender, Pair, IInv, Typed
    <3>3. BoundFirst'
      <4> SUFFICES ASSUME NEW j \in 1..MaxSenders, bound'[j] # 0,
                          NEW n \in DOMAIN exts, exts[n].sender = j
                   PROVE  bound'[j] <= n
        BY <1>1 DEF BoundFirst
      <4>1. CASE j = run.sender
        BY <1>2, <2>2, <3>1, <4>1 DEF OfSender, IInv, Typed
      <4>2. CASE j # run.sender
        BY <2>2, <4>2 DEF IInv, Typed, BoundFirst
      <4> QED
        BY <4>1, <4>2
    <3> QED
      BY <1>2, <2>2, <3>2, <3>3 DEF IInv, Typed, ChainInv
  <2> QED
    BY <1>3, <2>1, <2>2
<1>5. run' \in RunType /\ RunInv'
  <2>1. CASE run' = Idle
    BY <2>1, IdleRun
  <2>2. CASE run' = [run EXCEPT !.pc = "send"] /\ run' # Idle
    <3>1. run' = [pc |-> "send", sender |-> run.sender, id |-> run.id]
      BY <1>1, <2>2 DEF RunType
    <3>2. run' \in RunType
      BY <1>1, <3>1 DEF RunType, Stages
    <3> QED
      BY <1>1, <1>4, <2>2, <3>1, <3>2 DEF RunInv, Ours, Pair
  <2> QED
    BY <1>3, <2>1, <2>2
<1>6. Typed' /\ ChainInv'
  BY <1>1, <1>4, <1>5 DEF IInv, Typed, ChainInv, Pair, RunType
<1>7. OneEach' /\ FileInv' /\ SentInv' /\ CompleteWhenWritten' /\ SentToOwn'
  BY <1>1 DEF IInv, OneEach, FileInv, SentInv, CompleteWhenWritten, SentToOwn, Taken, Ours, Pair
<1> QED
  BY <1>4, <1>5, <1>6, <1>7 DEF IInv

\* The sender is bound to the first extension that names it: if that is not the
\* operator's one, it is a stranger's, registered before.
LEMMA SendStep ==
  ASSUME IInv, SendInstruction
  PROVE  IInv'
<1>1. PICK m \in machines : m[2] = bound[run.sender] /\ sent' = [want |-> run.id, to |-> m]
  BY DEF SendInstruction, Tx
<1>2. /\ UNCHANGED <<exts, senders, bound, machines, file, gov, node, byHand>> /\ run' = Idle
      /\ run.pc = "send"
  BY DEF SendInstruction, Tx, Goto, Stop, chain
<1>3. /\ Ours(run.sender, run.id) /\ bound[run.sender] # 0 /\ run.sender \in 1..MaxSenders
  <2>1. Ours(run.sender, run.id) /\ bound[run.sender] # 0
    BY <1>2 DEF IInv, RunInv
  <2> QED
    BY <2>1, SetupAssumption DEF Ours, Pair, IInv, Typed
<1>4. Pair(run.sender, bound[run.sender]) /\ bound[run.sender] <= run.id
  BY <1>3 DEF IInv, ChainInv, BoundFirst, Ours, Pair
<1>5. ~byHand => bound[run.sender] = run.id \/ Taken(run.id)
  <2> SUFFICES ASSUME ~byHand, bound[run.sender] # run.id
               PROVE  Taken(run.id)
    OBVIOUS
  <2>1. ~exts[bound[run.sender]].own
    BY <1>3, <1>4 DEF IInv, OneEach, Ours, Pair
  <2>2. bound[run.sender] \in 1..(run.id - 1)
    <3>1. bound[run.sender] \in Nat /\ run.id \in Nat
      BY <1>3 DEF IInv, Typed
    <3> QED
      BY <1>3, <1>4, <3>1
  <2> QED
    BY <1>3, <1>4, <2>1, <2>2 DEF Taken, Ours, Pair
<1>6. SentToOwn' /\ SentInv'
  <2>1. run.id \in DOMAIN exts
    BY <1>3 DEF Ours, Pair
  <2> QED
    BY <1>1, <1>2, <1>5, <2>1 DEF SentToOwn, Taken, SentInv
<1>7. run' \in RunType /\ RunInv'
  BY <1>2, IdleRun
<1>8. Typed' /\ ChainInv' /\ BoundFirst' /\ OneEach' /\ FileInv' /\ CompleteWhenWritten'
  BY <1>2, <1>7
  DEF IInv, Typed, ChainInv, BoundFirst, OneEach, FileInv, CompleteWhenWritten, Ours, Pair, RunType
<1> QED
  BY <1>6, <1>7, <1>8 DEF IInv

-----------------------------------------------------------------------------
(* The theorems *)

LEMMA InitInv == Init => IInv
<1> SUFFICES ASSUME Init PROVE IInv
  OBVIOUS
<1>1. /\ exts = << >> /\ exts \in Seq(Extension) /\ Len(exts) = 0 /\ DOMAIN exts = {}
  BY EmptySeq DEF Init
<1>2. Typed
  BY <1>1, SetupAssumption DEF Init, Typed, NoNode, Idle, Stages, Empty
<1>3. ChainInv /\ BoundFirst /\ OneEach /\ RunInv /\ FileInv
  BY <1>1, SetupAssumption DEF Init, ChainInv, BoundFirst, OneEach, RunInv, FileInv, NoNode, Idle
<1>4. CompleteWhenWritten /\ SentToOwn /\ SentInv
  BY DEF Init, CompleteWhenWritten, SentToOwn, SentInv, NotSent
<1> QED
  BY <1>2, <1>3, <1>4 DEF IInv

LEMMA StepInv ==
  ASSUME IInv, [Next]_vars
  PROVE  IInv'
<1>1. CASE PreBuild \/ PostBuild \/ Test \/ RegisterAgain
  BY <1>1, BeginStep
<1>2. CASE Gate \/ Refused \/ Fail \/ EditGovernance
  BY <1>2, QuietStep
<1>3. CASE \/ AllowTeeMachineOwners \/ AllowTeeProjectManagerOwners \/ AddSupportedKeyTypes
           \/ AllowVersion \/ SetTeeGovernance
  BY <1>3, EnsureStep
<1>4. CASE RegisterExtension \/ OtherRegisters
  BY <1>4, RegistrationStep, OtherStep
<1>5. CASE DeployInstructionSender
  BY <1>5, SenderStep
<1>6. CASE WriteConfig \/ WriteByHand
  BY <1>6, WriteStep
<1>7. CASE StartNode \/ RegisterMachine
  BY <1>7, NodeStep, ProductionStep
<1>8. CASE SetExtensionId \/ SendInstruction
  BY <1>8, BindStep, SendStep
<1>9. CASE UNCHANGED vars
  BY <1>9 DEF vars, IInv, Typed, ChainInv, BoundFirst, OneEach, RunInv, FileInv, SentInv,
              CompleteWhenWritten, SentToOwn, Taken, Ours, Pair, Unused
<1> QED
  BY <1>1, <1>2, <1>3, <1>4, <1>5, <1>6, <1>7, <1>8, <1>9 DEF Next, Script

\* Whatever fails, is repeated or repaired, and whatever extensions others
\* register: what each stage of the scripts has in hand is the operator's and
\* as complete as its earlier steps made it, and a sender is bound to the first
\* extension that names it.
THEOREM InductiveInvariant == Spec => []IInv
<1>1. IInv /\ [Next]_vars => IInv'
  BY StepInv
<1> QED
  BY <1>1, InitInv, PTL DEF Spec

\* The state is well typed, and what the contracts and the node refer to exists.
THEOREM TypeInvariant == Spec => []TypeOK
<1>1. IInv => TypeOK
  <2> SUFFICES ASSUME IInv PROVE TypeOK
    OBVIOUS
  <2>1. Len(exts) \in Nat /\ DOMAIN exts = 1..Len(exts) /\ \A n \in DOMAIN exts : exts[n] \in Extension
    BY ExtsFacts DEF IInv, Typed
  <2>2. \A n \in DOMAIN exts : /\ exts[n].sender \in 0..senders
                                /\ exts[n].gov \in {"none", "signers", "owner", "deployer"}
    BY <2>1, SenderFacts DEF Extension
  <2>3. \A k \in DOMAIN bound : bound[k] # 0 => exts[bound[k]].sender = k
    BY DEF IInv, Typed, ChainInv, Pair
  <2>4. node.id \in 0..Len(exts)
    BY <2>1 DEF IInv, ChainInv
  <2>5. \A m \in machines : m[1] \in 0..node.n /\ m[2] \in 1..Len(exts)
    BY <2>1 DEF IInv, ChainInv
  <2> QED
    BY <2>2, <2>3, <2>4, <2>5 DEF TypeOK, IInv, Typed
<1> QED
  BY <1>1, InductiveInvariant, PTL

\* extension.env names an extension whose set-up is complete (pre-build.sh
\* writes it last), whichever step of which run failed, was not seen or tore it.
THEOREM FilesAreComplete == Spec => []CompleteWhenWritten
<1>1. IInv => CompleteWhenWritten
  BY DEF IInv
<1> QED
  BY <1>1, InductiveInvariant, PTL

\* A test instruction goes to the extension the test was given, although the
\* sender chooses it and "already set" is ignored (run-test main.go:157), or a
\* stranger had registered an extension with that sender before the operator.
THEOREM InstructionsGoToOwn == Spec => []SentToOwn
<1>1. IInv => SentToOwn
  BY DEF IInv
<1> QED
  BY <1>1, InductiveInvariant, PTL

LEMMA OneMatch ==
  ASSUME NEW S, IsFiniteSet(S), Cardinality(S) <= 1, NEW x \in S
  PROVE  S = {x}
<1>1. Cardinality(S) \in Nat /\ Cardinality(S) # 0
  BY FS_CardinalityType, FS_EmptySet
<1>2. Cardinality(S) = 1
  BY <1>1
<1> QED
  BY <1>2, FS_Singleton

\* A report of the register step without failure or warning (checks.go:329-508)
\* settles where instructions go but for the extensions whose query failed
\* (checks.go:483-486), also after repairs by hand and strangers' registrations.
THEOREM CleanReportsBind == Spec => []CleanReportBinds
<1>1. IInv => CleanReportBinds
  <2> SUFFICES ASSUME IInv, NEW q \in Failing, Named, Unflagged(Report(q)), file.id \notin q.scan
               PROVE  BindsBut(q.scan)
    BY DEF CleanReportBinds
  <2>1. Pair(file.sender, file.id)
    BY NamedFile DEF Ours
  <2>2. /\ Len(exts) \in Nat /\ DOMAIN exts = 1..Len(exts) /\ senders \in Nat
        /\ file.id \in 1..Len(exts) /\ file.sender \in Nat /\ file.sender # 0
        /\ file.sender \in 1..MaxSenders
    BY <2>1, ExtsFacts, SetupAssumption DEF IInv, Typed, Pair
  <2>3. ~(Id(file) = Empty /\ Sender(file) = Empty) /\ WellFormed(Id(file)) /\ WellFormed(Sender(file))
    <3>1. file.id >= 0 /\ file.sender >= 0 /\ file.exists
      BY <2>2, NamedFile
    <3> QED
      BY <3>1 DEF Id, Sender, WellFormed, Empty
  <2>4. Unique(file, AsQueried, q) \subseteq Report(q)
    <3>1. NextId(AsQueried, q) \subseteq Report(q)
      BY <2>3 DEF Report, RegisterStep
    <3>2. ~q.next
      BY <3>1 DEF NextId, Unflagged, Result
    <3>3. AsQueried.next > 0
      BY <2>2 DEF AsQueried
    <3> QED
      BY <2>3, <3>2, <3>3 DEF Report, RegisterStep
  <2> DEFINE M == Matching(file, AsQueried, q)
  <2>5. Cardinality(M) <= 1
    BY <2>4 DEF Unique, Warns, Result, Unflagged
  <2>6. M = OfSender(file.sender) \ q.scan
    <3>1. Sender(file) = file.sender
      BY <2>3 DEF Sender, WellFormed, Empty
    <3> QED
      BY <2>2, <3>1 DEF Matching, AsQueried, SenderOf, OfSender, ZeroAddress
  <2>7. IsFiniteSet(M)
    <3>1. IsFiniteSet(1..Len(exts))
      BY <2>2, FS_Interval
    <3>2. M \subseteq 1..Len(exts)
      BY <2>2, <2>6 DEF OfSender
    <3> QED
      BY <3>1, <3>2, FS_Subset
  <2>8. file.id \in M
    BY <2>1, <2>6 DEF OfSender, Pair
  <2> HIDE DEF M
  <2>9. M = {file.id}
    BY <2>5, <2>7, <2>8, OneMatch
  <2>10. Lowest(file.sender) \in OfSender(file.sender)
    BY <2>6, <2>8, LowestOwn DEF IInv, Typed
  <2>11. bound[file.sender] # 0 => bound[file.sender] \in OfSender(file.sender)
    BY <2>2 DEF IInv, ChainInv, Pair, OfSender
  <2> QED
    BY <2>6, <2>9, <2>10, <2>11 DEF BindsBut
<1> QED
  BY <1>1, InductiveInvariant, PTL

-----------------------------------------------------------------------------
(* verify-deploy over the checks of tools/pkg/validate: a system of its    *)
(* own, whose constants and variables are none of the scripts'.            *)

\* What is on the screen is the outcome of a run on what the operator looks at.
OfARun ==
  /\ last.step \in Steps \cup {"other"} /\ last.path \in BOOLEAN
  /\ last.ids \in Filters /\ last.q \in Outages
  /\ \/ /\ last.step \in Steps /\ Initialized(last.step, last.q)
        /\ last.report = Filtered(ReportOf(last.step, last.path, last.q), last.ids)
        /\ last.exit = IF HasFailures(last.report) THEN 1 ELSE 0
     \/ /\ last.step \notin Steps \/ ~Initialized(last.step, last.q)
        /\ last.exit = 1 /\ last.report = {}

VerdictInv ==
  /\ s \in Settings /\ f \in Files /\ c \in Chains
  /\ last = NoRun \/ OfARun

LEMMA VerdictStep ==
  ASSUME VerdictInv, [VerifyNext]_verifyVars PROVE VerdictInv'
<1>1. CASE Edit \/ WriteFile \/ ChainMoves
  BY <1>1 DEF VerdictInv, Edit, WriteFile, ChainMoves, NoRun
<1>2. CASE UNCHANGED verifyVars
  <2>1. s' = s /\ f' = f /\ c' = c /\ last' = last
    BY <1>2 DEF verifyVars
  <2>2. OfARun => OfARun'
    BY <2>1 DEF OfARun, Initialized, ReportOf
  <2> QED
    BY <2>1, <2>2 DEF VerdictInv, NoRun
<1>3. ASSUME NEW step \in Steps \cup {"other"}, NEW path \in BOOLEAN, NEW ids \in Filters,
             NEW q \in Outages, Verify(step, path, ids, q) \/ Refuse(step, path, ids, q)
      PROVE  VerdictInv'
  <2>1. s' = s /\ f' = f /\ c' = c
    BY <1>3 DEF Verify, Refuse, Ran
  <2> DEFINE report == Filtered(ReportOf(step, path, q), ids)
  <2>2. report = Filtered(ReportOf(step, path, q), ids)'
    BY <2>1 DEF ReportOf
  <2>3. Initialized(step, q) <=> Initialized(step, q)'
    BY <2>1 DEF Initialized
  <2> HIDE DEF report
  <2>4. CASE Verify(step, path, ids, q)
    <3>1. /\ step \in Steps /\ Initialized(step, q)
          /\ last' = [step |-> step, path |-> path, ids |-> ids, q |-> q,
                      exit |-> IF HasFailures(report) THEN 1 ELSE 0, report |-> report]
      BY <2>4 DEF Verify, Ran, report
    <3>2. OfARun'
      BY <2>2, <2>3, <3>1 DEF OfARun
    <3> QED
      BY <2>1, <3>2 DEF VerdictInv
  <2>5. CASE Refuse(step, path, ids, q)
    <3>1. /\ step \notin Steps \/ ~Initialized(step, q)
          /\ last' = [step |-> step, path |-> path, ids |-> ids, q |-> q, exit |-> 1, report |-> {}]
      BY <2>5 DEF Refuse, Ran
    <3>2. OfARun'
      BY <2>2, <2>3, <3>1 DEF OfARun
    <3> QED
      BY <2>1, <3>2 DEF VerdictInv
  <2> QED
    BY <1>3, <2>4, <2>5
<1> QED
  BY <1>1, <1>2, <1>3 DEF VerifyNext

LEMMA VerdictAlways == VerifySpec => []VerdictInv
<1>1. VerifyInit => VerdictInv
  BY DEF VerifyInit, VerdictInv
<1>2. VerdictInv /\ [VerifyNext]_verifyVars => VerdictInv'
  BY VerdictStep
<1> QED
  BY <1>1, <1>2, PTL DEF VerifySpec

-----------------------------------------------------------------------------
\* Every result has one of the four statuses of report.go.
Statused(report) == \A r \in report : r.status \in {"PASS", "WARN", "FAIL", "SKIP"}

LEMMA ResultsTyped ==
  ASSUME NEW id, NEW ok, NEW url
  PROVE  Statused(Passes(id, ok)) /\ Statused(Warns(id, ok)) /\ Statused(Skips(id)) /\ Statused(Reachable(id, url))
BY DEF Passes, Warns, Skips, Reachable, Result, Statused

LEMMA TogetherTyped ==
  ASSUME NEW A, NEW B, Statused(A), Statused(B)
  PROVE  Statused(A \cup B)
BY DEF Statused

LEMMA StepsTyped ==
  ASSUME NEW path \in BOOLEAN, NEW q
  PROVE  /\ Statused(DeployStep(s, path, f, c, q)) /\ Statused(RegisterStep(path, f, c, q))
         /\ Statused(ServicesStep(s, path, f)) /\ Statused(VersionStep(s, path, f))
         /\ Statused(MachineStep(s)) /\ Statused(TestStep(s, path, f))
<1>1. Statused({}) /\ Statused(NextId(c, q))
  BY DEF NextId, Result, Statused
<1>2. Statused(EnvFormat(f)) /\ Statused(KeySource(s)) /\ Statused(ProxySigner(s)) /\ Statused(OwnerKey(s))
  BY ResultsTyped, TogetherTyped DEF EnvFormat, KeySource, ProxySigner, OwnerKey
<1>3. Statused(OwnerAllowed(f, c, q)) /\ Statused(KeySupported(f, c, q)) /\ Statused(Unique(f, c, q))
  BY ResultsTyped DEF OwnerAllowed, KeySupported, Unique
<1>4. Statused(IdServices(path, f)) /\ Statused(IdVersion(path, f)) /\ Statused(SenderTest(path, f))
  BY ResultsTyped DEF IdServices, IdVersion, SenderTest
<1>5. Statused(DeployStep(s, path, f, c, q))
  BY <1>1, <1>2, ResultsTyped, TogetherTyped DEF DeployStep
<1>6. Statused(RegisterStep(path, f, c, q))
  BY <1>1, <1>3, ResultsTyped, TogetherTyped DEF RegisterStep
<1>7. Statused(ServicesStep(s, path, f)) /\ Statused(VersionStep(s, path, f))
  BY <1>2, <1>4, ResultsTyped, TogetherTyped DEF ServicesStep, VersionStep
<1>8. Statused(MachineStep(s)) /\ Statused(TestStep(s, path, f))
  BY <1>4, ResultsTyped, TogetherTyped DEF MachineStep, TestStep
<1> QED
  BY <1>5, <1>6, <1>7, <1>8

\* What is on the screen is well typed: every result has one of the four
\* statuses of report.go, and the command exits with 0 or 1.
THEOREM VerdictTypeCorrect == VerifySpec => []VerifyTypeOK
<1>1. ASSUME VerdictInv PROVE VerifyTypeOK
  <2>1. CASE last = NoRun
    BY <1>1, <2>1 DEF VerdictInv, VerifyTypeOK, NoRun
  <2>2. CASE OfARun
    <3>1. Statused({}) /\ Statused(ReportOf(last.step, last.path, last.q))
      <4>1. last.path \in BOOLEAN /\ Statused({})
        BY <2>2 DEF OfARun, Statused
      <4> QED
        BY <4>1, StepsTyped, TogetherTyped DEF ReportOf
    <3>2. Statused(Filtered(ReportOf(last.step, last.path, last.q), last.ids))
      BY <3>1 DEF Statused, Filtered
    <3>3. Statused(last.report) /\ last.exit \in {0, 1}
      BY <2>2, <3>1, <3>2 DEF OfARun
    <3> QED
      BY <1>1, <2>2, <3>3 DEF VerdictInv, OfARun, VerifyTypeOK, Statused
  <2> QED
    BY <1>1, <2>1, <2>2 DEF VerdictInv
<1> QED
  BY <1>1, VerdictAlways, PTL

-----------------------------------------------------------------------------
\* A complete report is the results of the six steps.
LEMMA CompleteReport ==
  ASSUME VerdictInv, Complete, last.exit = 0 \/ last.report # {}
  PROVE  /\ OfARun
         /\ last.report =
              DeployStep(s, TRUE, f, c, last.q)
              \cup RegisterStep(TRUE, f, c, last.q)
              \cup ServicesStep(s, TRUE, f)
              \cup VersionStep(s, TRUE, f)
              \cup MachineStep(s) \cup TestStep(s, TRUE, f)
<1>1. OfARun
  BY DEF VerdictInv, Complete, NoRun
<1>2. last.report = Filtered(ReportOf("all", TRUE, last.q), {})
  <2>1. last.step = "all" /\ last.path = TRUE /\ last.ids = {}
    BY <1>1 DEF OfARun, Complete
  <2>2. last.report = Filtered(ReportOf(last.step, last.path, last.q), last.ids)
    BY <1>1 DEF OfARun
  <2> QED
    BY <2>1, <2>2, Zenon
<1>3. last.report = ReportOf("all", TRUE, last.q)
  BY <1>2 DEF Filtered
<1>4. ReportOf("all", TRUE, last.q) =
        DeployStep(s, TRUE, f, c, last.q)
        \cup RegisterStep(TRUE, f, c, last.q)
        \cup ServicesStep(s, TRUE, f)
        \cup VersionStep(s, TRUE, f)
        \cup MachineStep(s) \cup TestStep(s, TRUE, f)
  BY DEF ReportOf
<1> QED
  BY <1>1, <1>3, <1>4

LEMMA Passed ==
  ASSUME NEW id, NEW ok \in BOOLEAN, NEW report, ~HasFailures(report),
         Passes(id, ok) \subseteq report
  PROVE  ok
BY DEF HasFailures, Failures, Passes, Result

LEMMA Clean ==
  ASSUME NEW id, NEW ok, ok = TRUE
  PROVE  ~HasFailures(Passes(id, ok)) /\ ~HasFailures(Warns(id, ok))
BY DEF HasFailures, Failures, Passes, Warns, Result

\* A complete run of verify-deploy that exits with 0 saw a usable manager, a
\* funded deployer and a registered extension.env, whichever queries failed:
\* each fact has a check whose early returns and skips fail something else first.
THEOREM ZeroMeansDeployed == VerifySpec => []AllClear
<1>1. ASSUME VerdictInv, Complete, last.exit = 0
      PROVE  Deployed /\ InRegistry
  <2> DEFINE q == last.q
  <2> DEFINE d == DeployStep(s, TRUE, f, c, q)
  <2> DEFINE r == RegisterStep(TRUE, f, c, q)
  <2>1. OfARun /\ d \subseteq last.report /\ r \subseteq last.report
    BY <1>1, CompleteReport
  <2>2. ~HasFailures(last.report)
    BY <1>1, <2>1 DEF OfARun
  <2>3. f.exists /\ f.id \in Int /\ f.sender \in Int
    BY <1>1, VerifyAssumption DEF VerdictInv, Complete
  <2>4. Deployed
    <3>1. Passes("D3", c.manager # ZeroAddress) \subseteq d
      BY DEF DeployStep
    <3>2. c.manager # ZeroAddress
      BY <2>1, <2>2, <3>1, Passed
    <3>3. Passes("D1", HasCode(c, q)) \subseteq d
      BY <3>2 DEF DeployStep
    <3>4. Passes("D5_funds", HasFunds(c, q)) \subseteq d
      BY DEF DeployStep
    <3>5. HasCode(c, q) \in BOOLEAN /\ HasFunds(c, q) \in BOOLEAN
      BY DEF HasCode, HasFunds
    <3>6. HasCode(c, q) /\ HasFunds(c, q)
      BY <2>1, <2>2, <3>3, <3>4, <3>5, Passed
    <3> QED
      BY <3>2, <3>6 DEF Deployed, HasCode, HasFunds
  <2>5. WellFormed(f.id) /\ WellFormed(f.sender)
    <3>1. Passes("D7_id", WellFormed(f.id)) \subseteq d
      BY <2>3 DEF DeployStep, EnvFormat
    <3>2. Passes("D7_sender", WellFormed(f.sender)) \subseteq d
      BY <2>3 DEF DeployStep, EnvFormat
    <3>3. WellFormed(f.id) \in BOOLEAN /\ WellFormed(f.sender) \in BOOLEAN
      BY DEF WellFormed
    <3> QED
      BY <2>1, <2>2, <3>1, <3>2, <3>3, Passed
  <2> DEFINE i == f.id
  <2>6. Id(f) = i /\ Sender(f) = f.sender /\ i # Empty
    BY <2>3, <2>5 DEF Id, Sender, WellFormed, Empty
  <2>7. /\ Passes("R2", ~q.sender /\ SenderOf(c, i) = f.sender) \subseteq r
        /\ OwnerAllowed(f, c, q) \subseteq r
        /\ KeySupported(f, c, q) \subseteq r
    BY <2>5, <2>6 DEF RegisterStep
  <2>8. SenderOf(c, i) = f.sender
    BY <2>1, <2>2, <2>7, Passed
  <2>9. Allowed(c, i) /\ KeyType(c, i)
    <3>1. (~q.owner /\ Allowed(c, i)) \in BOOLEAN
          /\ (~q.key /\ KeyType(c, i)) \in BOOLEAN
      OBVIOUS
    <3> QED
      BY <2>1, <2>2, <2>6, <2>7, <3>1, Passed DEF OwnerAllowed, KeySupported
  <2> DEFINE e == c.exts[i]
  <2>10. i \in DOMAIN c.exts /\ e \in [sender : Int, owner : BOOLEAN, key : BOOLEAN]
    BY <1>1, <2>9, VerifyAssumption DEF VerdictInv, Allowed
  <2>11. e.sender = f.sender /\ e.owner = TRUE /\ e.key = TRUE
    BY <2>8, <2>9, <2>10 DEF SenderOf, Allowed, KeyType
  <2> QED
    BY <2>3, <2>4, <2>5, <2>10, <2>11 DEF InRegistry
<1>2. VerdictInv => AllClear
  BY <1>1 DEF AllClear
<1> QED
  BY <1>2, VerdictAlways, PTL

\* Results that are warnings at worst.
LEMMA NeverFail ==
  ASSUME NEW id, NEW ok, NEW url
  PROVE  /\ ~HasFailures(Warns(id, ok)) /\ ~HasFailures(Skips(id))
         /\ ~HasFailures(Reachable(id, url))
BY DEF HasFailures, Failures, Warns, Skips, Reachable, Result

LEMMA TogetherClean ==
  ASSUME NEW A, NEW B, ~HasFailures(A), ~HasFailures(B)
  PROVE  ~HasFailures(A \cup B)
BY DEF HasFailures, Failures

\* On a usable deployment and with queries that answer, no step reports a failure.
LEMMA StepsClean ==
  ASSUME VerdictInv, Deployed, InRegistry, NEW path \in BOOLEAN,
         NEW q \in Outages, Answered(q)
  PROVE  /\ ~HasFailures(DeployStep(s, path, f, c, q))
         /\ ~HasFailures(RegisterStep(path, f, c, q))
         /\ ~HasFailures(ServicesStep(s, path, f))
         /\ ~HasFailures(VersionStep(s, path, f))
         /\ ~HasFailures(MachineStep(s))
         /\ ~HasFailures(TestStep(s, path, f))
<1>1. /\ ~q.code /\ ~q.funds /\ ~q.chain /\ ~q.next /\ ~q.sender /\ ~q.owner /\ ~q.key
  <2>1. q \in [dial : BOOLEAN, code : BOOLEAN, funds : BOOLEAN, chain : BOOLEAN,
               next : BOOLEAN, sender : BOOLEAN, owner : BOOLEAN, key : BOOLEAN, scan : SUBSET Int]
    BY VerifyAssumption
  <2> QED
    BY <2>1 DEF Answered
<1>2. /\ f.exists /\ WellFormed(f.id) /\ WellFormed(f.sender)
      /\ Id(f) = f.id /\ Sender(f) = f.sender
      /\ f.id # Empty
  BY DEF InRegistry, Id, Sender, WellFormed, Empty
<1>3. /\ SenderOf(c, f.id) = f.sender
      /\ Allowed(c, f.id) /\ KeyType(c, f.id)
  BY DEF InRegistry, SenderOf, Allowed, KeyType
<1>4. ~HasFailures({})
  BY DEF HasFailures, Failures
<1>5. ~HasFailures(EnvFormat(f))
  BY <1>2, Clean, TogetherClean DEF EnvFormat
<1>6. ~HasFailures(DeployStep(s, path, f, c, q))
  <2>1. ~HasFailures(Passes("D3", c.manager # ZeroAddress))
    BY Clean DEF Deployed
  <2>2. ~HasFailures(Passes("D1", HasCode(c, q)))
    <3>1. HasCode(c, q) = TRUE
      BY <1>1 DEF Deployed, HasCode
    <3> QED BY <3>1, Clean
  <2>3. ~HasFailures(Passes("D5_funds", HasFunds(c, q)))
    <3>1. HasFunds(c, q) = TRUE
      BY <1>1 DEF Deployed, HasFunds
    <3> QED BY <3>1, Clean
  <2>4. ~HasFailures(Passes("D6", ~q.chain))
    BY <1>1, Clean
  <2>5. ~HasFailures(KeySource(s))
    BY NeverFail DEF KeySource
  <2>6. ~HasFailures(IF c.manager = ZeroAddress THEN {} ELSE Passes("D1", HasCode(c, q)))
    BY <1>4, <2>2
  <2>7. ~HasFailures(IF path THEN EnvFormat(f) ELSE {})
    BY <1>4, <1>5
  <2> QED
    BY <2>1, <2>3, <2>4, <2>5, <2>6, <2>7, TogetherClean DEF DeployStep
<1>7. ~HasFailures(RegisterStep(path, f, c, q))
  <2>1. ~HasFailures(NextId(c, q))
    BY <1>1 DEF NextId, HasFailures, Failures, Result
  <2>2. ~HasFailures(Passes("R2", ~q.sender /\ SenderOf(c, Id(f)) = Sender(f)))
    BY <1>1, <1>2, <1>3, Clean
  <2>3. ~HasFailures(OwnerAllowed(f, c, q))
    <3>1. (~q.owner /\ Allowed(c, Id(f))) = TRUE
      BY <1>1, <1>2, <1>3
    <3> QED BY <3>1, Clean DEF OwnerAllowed
  <2>4. ~HasFailures(KeySupported(f, c, q))
    <3>1. (~q.key /\ KeyType(c, Id(f))) = TRUE
      BY <1>1, <1>2, <1>3
    <3> QED BY <3>1, Clean DEF KeySupported
  <2>5. ~HasFailures(Unique(f, c, q))
    BY NeverFail DEF Unique
  <2>6. ~HasFailures(IF ~q.next /\ c.next > 0 /\ WellFormed(Sender(f))
                           THEN Unique(f, c, q) ELSE {})
    BY <1>4, <2>5
  <2>7. CASE ~path
    BY <2>7, <1>2, NeverFail DEF RegisterStep
  <2>8. CASE path
    <3>1. RegisterStep(path, f, c, q) =
            NextId(c, q)
            \cup Passes("R2", ~q.sender /\ SenderOf(c, Id(f)) = Sender(f))
            \cup OwnerAllowed(f, c, q) \cup KeySupported(f, c, q)
            \cup (IF ~q.next /\ c.next > 0 /\ WellFormed(Sender(f))
                  THEN Unique(f, c, q) ELSE {})
      BY <1>2, <2>8 DEF RegisterStep
    <3> QED
      BY <2>1, <2>2, <2>3, <2>4, <2>6, <3>1, TogetherClean
  <2> QED
    BY <2>7, <2>8
<1>8. ~HasFailures(ServicesStep(s, path, f))
  <2>1. ~HasFailures(IdServices(path, f))
    BY <1>2, Clean, NeverFail DEF IdServices
  <2>2. ~HasFailures(Passes("S7", TRUE)) /\ ~HasFailures(ProxySigner(s))
    BY Clean, NeverFail DEF ProxySigner
  <2> QED
    BY <2>1, <2>2, NeverFail, TogetherClean DEF ServicesStep
<1>9. ~HasFailures(VersionStep(s, path, f))
  <2>1. ~HasFailures(IdVersion(path, f))
    BY <1>2, Clean, NeverFail DEF IdVersion
  <2> QED
    BY <2>1, NeverFail, TogetherClean DEF VersionStep, OwnerKey
<1>10. ~HasFailures(MachineStep(s))
  BY NeverFail, TogetherClean DEF MachineStep
<1>11. ~HasFailures(TestStep(s, path, f))
  <2>1. ~HasFailures(SenderTest(path, f))
    BY <1>2, Clean, NeverFail DEF SenderTest
  <2>2. ~HasFailures(Passes("E6", TRUE))
    BY Clean
  <2> QED
    BY <2>1, <2>2, NeverFail, TogetherClean DEF TestStep
<1> QED
  BY <1>6, <1>7, <1>8, <1>9, <1>10, <1>11

\* On such a deployment every step, filtered or not, exits with 0 (main.go:102-104):
\* whatever else is missing is a warning.
THEOREM UsableMeansZero == VerifySpec => []NoFalseAlarm
<1>1. ASSUME VerdictInv, last.step \in Steps, Answered(last.q),
             Deployed, InRegistry, Loads(s)
      PROVE  last.exit = 0
  <2>1. OfARun
    BY <1>1 DEF VerdictInv, NoRun, Steps, StepsNeedingChain
  <2>2. ~last.q.dial
    <3>1. last.q \in [dial : BOOLEAN, code : BOOLEAN, funds : BOOLEAN, chain : BOOLEAN,
               next : BOOLEAN, sender : BOOLEAN, owner : BOOLEAN, key : BOOLEAN, scan : SUBSET Int]
      BY <2>1, VerifyAssumption DEF OfARun
    <3> QED
      BY <1>1, <3>1 DEF Answered
  <2>3. Initialized(last.step, last.q)
    BY <1>1, <2>2 DEF Initialized
  <2> DEFINE report == ReportOf(last.step, last.path, last.q)
  <2>4. ~HasFailures(report)
    <3>1. last.path \in BOOLEAN /\ last.q \in Outages
      BY <2>1 DEF OfARun
    <3>2. ~HasFailures({})
      BY DEF HasFailures, Failures
    <3> QED
      BY <1>1, <3>1, <3>2, StepsClean, TogetherClean DEF ReportOf
  <2>5. ~HasFailures(Filtered(report, last.ids))
    <3> HIDE DEF report
    <3> QED
      BY <2>4 DEF HasFailures, Failures, Filtered
  <2> QED
    BY <1>1, <2>1, <2>3, <2>5 DEF OfARun
<1>2. VerdictInv => NoFalseAlarm
  BY <1>1 DEF NoFalseAlarm
<1> QED
  BY <1>2, VerdictAlways, PTL

\* Every check writes its results under its own heading.
LEMMA Labelled ==
  ASSUME NEW id, NEW ok, NEW url
  PROVE  /\ \A x \in Passes(id, ok) : x.id = id
         /\ \A x \in Warns(id, ok) : x.id = id
         /\ \A x \in Skips(id) : x.id = id
         /\ \A x \in Reachable(id, url) : x.id = id
BY DEF Passes, Warns, Skips, Reachable, Result

LEMMA ResultFields ==
  ASSUME NEW label, NEW outcome
  PROVE  Result(label, outcome).id = label /\ Result(label, outcome).status = outcome
BY DEF Result

LEMMA OneStatus ==
  ASSUME NEW label, NEW outcome, NEW result \in last.report,
         result.id = label, result.status = outcome,
         \A x \in last.report : x.id = label => x.status = outcome
  PROVE  StatusOf(label) = {outcome}
<1>1. ASSUME NEW y PROVE y \in StatusOf(label) <=> y = outcome
  BY <1>1 DEF StatusOf
<1> QED
  BY <1>1

\* What a complete report says under the five headings of extension.env.
LEMMA VerdictsOfFile ==
  ASSUME VerdictInv, Complete, last.report # {}
  PROVE  /\ StatusOf("D7_id") = {IF WellFormed(f.id) THEN "PASS" ELSE "FAIL"}
         /\ StatusOf("S2") = {IF WellFormed(f.id) THEN "PASS" ELSE "FAIL"}
         /\ StatusOf("V4") = {IF WellFormed(f.id) THEN "PASS" ELSE "FAIL"}
         /\ StatusOf("D7_sender") = {IF WellFormed(f.sender) THEN "PASS" ELSE "FAIL"}
         /\ StatusOf("E1") = {IF WellFormed(f.sender) THEN "PASS" ELSE "FAIL"}
<1> DEFINE q == last.q
<1> DEFINE d == DeployStep(s, TRUE, f, c, q)
<1> DEFINE r == RegisterStep(TRUE, f, c, q)
<1> DEFINE v == ServicesStep(s, TRUE, f)
<1> DEFINE w == VersionStep(s, TRUE, f)
<1> DEFINE m == MachineStep(s)
<1> DEFINE t == TestStep(s, TRUE, f)
<1>0. PICK ofId, ofSender :
        /\ ofId = (IF WellFormed(f.id) THEN "PASS" ELSE "FAIL")
        /\ ofSender = (IF WellFormed(f.sender) THEN "PASS" ELSE "FAIL")
  OBVIOUS
<1>1. last.report = d \cup r \cup v \cup w \cup m \cup t
  BY CompleteReport
<1>2. f.exists /\ Id(f) = f.id /\ Sender(f) = f.sender
  BY DEF Complete, Id, Sender
<1>3. /\ Result("D7_id", ofId) \in d /\ Result("D7_sender", ofSender) \in d
      /\ \A x \in d : /\ x.id \notin {"S2", "V4", "E1"}
                      /\ x.id = "D7_id" => x.status = ofId
                      /\ x.id = "D7_sender" => x.status = ofSender
  <2>1. EnvFormat(f) = {Result("D7_sender", ofSender), Result("D7_id", ofId)}
    BY <1>2, <1>0 DEF EnvFormat, Passes
  <2>2. \A x \in d : \/ x \in EnvFormat(f)
                     \/ x.id \in {"D3", "D1", "D5", "D5_funds", "D6"}
    BY Labelled DEF DeployStep, KeySource
  <2>3. EnvFormat(f) \subseteq d
    BY DEF DeployStep
  <2> HIDE DEF d
  <2> QED
    BY <2>1, <2>2, <2>3, ResultFields
<1>4. \A x \in r : x.id \notin {"D7_id", "D7_sender", "S2", "V4", "E1"}
  <2>1. \A x \in NextId(c, q) : x.id = "R1"
    BY DEF NextId, Result
  <2>2. \A x \in r : x.id \in {"R1_R7", "R1", "R2_format", "R2", "R3", "R4", "R7"}
    BY <2>1, Labelled DEF RegisterStep, OwnerAllowed, KeySupported, Unique
  <2> QED
    BY <2>2
<1>5. /\ Result("S2", ofId) \in v
      /\ \A x \in v : /\ x.id \notin {"D7_id", "D7_sender", "V4", "E1"}
                      /\ x.id = "S2" => x.status = ofId
  <2>1. IdServices(TRUE, f) = {Result("S2", ofId)}
    BY <1>2, <1>0 DEF IdServices, Passes
  <2>2. \A x \in v : \/ x \in IdServices(TRUE, f)
                     \/ x.id \in {"S5", "S7", "S9", "S10"}
    BY Labelled DEF ServicesStep, ProxySigner
  <2>3. IdServices(TRUE, f) \subseteq v
    BY DEF ServicesStep
  <2> HIDE DEF v
  <2>4. ASSUME NEW x \in v
        PROVE  x.id \notin {"D7_id", "D7_sender", "V4", "E1"} /\ (x.id = "S2" => x.status = ofId)
    <3>1. CASE x = Result("S2", ofId)
      <4>1. x.id = "S2" /\ x.status = ofId
        BY <3>1, ResultFields
      <4> QED BY <4>1
    <3>2. CASE x # Result("S2", ofId)
      BY <2>1, <2>2, <3>2
    <3> QED
      BY <3>1, <3>2
  <2> QED
    BY <2>1, <2>3, <2>4
<1>6. /\ Result("V4", ofId) \in w
      /\ \A x \in w : /\ x.id \notin {"D7_id", "D7_sender", "S2", "E1"}
                      /\ x.id = "V4" => x.status = ofId
  <2>1. IdVersion(TRUE, f) = {Result("V4", ofId)}
    BY <1>2, <1>0 DEF IdVersion, Passes
  <2>2. \A x \in w : x \in IdVersion(TRUE, f) \/ x.id \in {"V2", "V6"}
    BY Labelled DEF VersionStep, OwnerKey
  <2>3. IdVersion(TRUE, f) \subseteq w
    BY DEF VersionStep
  <2> HIDE DEF w
  <2>4. ASSUME NEW x \in w
        PROVE  x.id \notin {"D7_id", "D7_sender", "S2", "E1"} /\ (x.id = "V4" => x.status = ofId)
    <3>1. CASE x = Result("V4", ofId)
      <4>1. x.id = "V4" /\ x.status = ofId
        BY <3>1, ResultFields
      <4> QED BY <4>1
    <3>2. CASE x # Result("V4", ofId)
      BY <2>1, <2>2, <3>2
    <3> QED
      BY <3>1, <3>2
  <2> QED
    BY <2>1, <2>3, <2>4
<1>7. \A x \in m : x.id \notin {"D7_id", "D7_sender", "S2", "V4", "E1"}
  <2>1. \A x \in m : x.id \in {"T1", "T5", "T10"}
    BY Labelled DEF MachineStep
  <2> QED
    BY <2>1
<1>8. /\ Result("E1", ofSender) \in t
      /\ \A x \in t : /\ x.id \notin {"D7_id", "D7_sender", "S2", "V4"}
                      /\ x.id = "E1" => x.status = ofSender
  <2>1. SenderTest(TRUE, f) = {Result("E1", ofSender)}
    BY <1>2, <1>0 DEF SenderTest, Passes
  <2>2. \A x \in t : x \in SenderTest(TRUE, f) \/ x.id \in {"E3", "E6"}
    BY Labelled DEF TestStep
  <2>3. SenderTest(TRUE, f) \subseteq t
    BY DEF TestStep
  <2> HIDE DEF t
  <2>4. ASSUME NEW x \in t
        PROVE  x.id \notin {"D7_id", "D7_sender", "S2", "V4"} /\ (x.id = "E1" => x.status = ofSender)
    <3>1. CASE x = Result("E1", ofSender)
      <4>1. x.id = "E1" /\ x.status = ofSender
        BY <3>1, ResultFields
      <4> QED BY <4>1
    <3>2. CASE x # Result("E1", ofSender)
      BY <2>1, <2>2, <3>2
    <3> QED
      BY <3>1, <3>2
  <2> QED
    BY <2>1, <2>3, <2>4
<1> HIDE DEF d, r, v, w, m, t
<1>9. StatusOf("D7_id") = {ofId}
  <2>1. \A x \in last.report : x.id = "D7_id" => x.status = ofId
    BY <1>1, <1>3, <1>4, <1>5, <1>6, <1>7, <1>8
  <2>2. Result("D7_id", ofId) \in last.report
    BY <1>1, <1>3
  <2> QED
    BY <2>1, <2>2, ResultFields, OneStatus
<1>10. StatusOf("S2") = {ofId}
  <2>1. \A x \in last.report : x.id = "S2" => x.status = ofId
    BY <1>1, <1>3, <1>4, <1>5, <1>6, <1>7, <1>8
  <2>2. Result("S2", ofId) \in last.report
    BY <1>1, <1>5
  <2> QED
    BY <2>1, <2>2, ResultFields, OneStatus
<1>11. StatusOf("V4") = {ofId}
  <2>1. \A x \in last.report : x.id = "V4" => x.status = ofId
    BY <1>1, <1>3, <1>4, <1>5, <1>6, <1>7, <1>8
  <2>2. Result("V4", ofId) \in last.report
    BY <1>1, <1>6
  <2> QED
    BY <2>1, <2>2, ResultFields, OneStatus
<1>12. StatusOf("D7_sender") = {ofSender}
  <2>1. \A x \in last.report : x.id = "D7_sender" => x.status = ofSender
    BY <1>1, <1>3, <1>4, <1>5, <1>6, <1>7, <1>8
  <2>2. Result("D7_sender", ofSender) \in last.report
    BY <1>1, <1>3
  <2> QED
    BY <2>1, <2>2, ResultFields, OneStatus
<1>13. StatusOf("E1") = {ofSender}
  <2>1. \A x \in last.report : x.id = "E1" => x.status = ofSender
    BY <1>1, <1>3, <1>4, <1>5, <1>6, <1>7, <1>8
  <2>2. Result("E1", ofSender) \in last.report
    BY <1>1, <1>8
  <2> QED
    BY <2>1, <2>2, ResultFields, OneStatus
<1> QED
  BY <1>9, <1>10, <1>11, <1>12, <1>13, <1>0

\* One report never judges the same entry of extension.env in two ways, though
\* four steps read it with two parsers.
THEOREM VerdictsAgree == VerifySpec => []OneVerdict
<1>1. VerdictInv => OneVerdict
  BY VerdictsOfFile DEF OneVerdict
<1> QED
  BY <1>1, VerdictAlways, PTL
=============================================================================

---- MODULE ExtensionSetup ----
(***************************************************************************)
(* Setting up an extension: scripts/pre-build.sh, start-services.sh,       *)
(* post-build.sh and test.sh of src/packages/fcc-extension with the tools  *)
(* they run one after the other, against the extension registry, the       *)
(* InstructionSender contracts and the TEE node.  A tool can stop at any   *)
(* step, before its transaction or after it took effect.                   *)
(***************************************************************************)
EXTENDS DeployChecks, Sequences

CONSTANTS
  MaxSenders, MaxExtensions, MaxNodes, MaxFaults, MaxExtra, \* bounds
  Governances, \* settings of .env: "signers", "owner" (INITIAL_OWNER only), "neither" or "invalid"
  ByHand     \* whether operators repair by hand what a report flags: TRUE, FALSE or both

ASSUME SetupAssumption ==
  /\ {MaxSenders, MaxExtensions, MaxNodes, MaxFaults, MaxExtra} \subseteq Nat
  /\ Governances \subseteq {"signers", "owner", "neither", "invalid"}
  /\ ByHand \subseteq BOOLEAN

VARIABLES
  exts,      \* the registry: extension n is exts[n]; own: registered by this operator
  senders,   \* InstructionSender contracts deployed: 1..senders
  bound,     \* sender -> its _extensionId, 0 when not set
  file,      \* config/extension.env
  gov,       \* governance settings of .env
  node,      \* the running TEE node: serial number, extension id, governance
  machines,  \* <<serial number, extension id>> in production, 0 for machines of others
  run,       \* the script: step, captured sender and id, id to repair
  sent,      \* last instruction of a test: expected extension, addressed machine
  byHand,    \* whether this operator does
  faults, extra

chain == <<exts, senders, bound, machines>>
budget == <<faults, extra>>
vars == <<exts, senders, bound, file, gov, node, machines, run, sent, byHand, faults, extra>>

Idle == [pc |-> "idle", sender |-> 0, id |-> 0]
NoNode == [n |-> 0, id |-> 0, gov |-> "none"]
NotSent == [want |-> 0, to |-> <<0, 0>>]
Stages == {"idle", "deploy", "register", "owners", "projects", "keys", "write",
           "version", "governance", "machine", "gate", "bind", "send"}

TypeOK ==
  /\ \A n \in DOMAIN exts : /\ exts[n].sender \in 0..senders
                            /\ exts[n].gov \in {"none", "signers", "owner", "deployer"}
  /\ senders \in 0..MaxSenders /\ Len(exts) <= MaxExtensions
  /\ \A k \in DOMAIN bound : bound[k] # 0 => exts[bound[k]].sender = k
  /\ gov \in Governances /\ run.pc \in Stages
  /\ node.n \in 0..MaxNodes /\ node.id \in 0..Len(exts)
  /\ \A m \in machines : m[1] \in 0..node.n /\ m[2] \in 1..Len(exts)

Init ==
  /\ exts = <<>> /\ senders = 0 /\ bound = [k \in 1..MaxSenders |-> 0]
  /\ file = [exists |-> FALSE, id |-> Empty, sender |-> Empty]
  /\ gov \in Governances \ {"invalid"} /\ node = NoNode /\ machines = {} /\ run = Idle
  /\ sent = NotSent /\ byHand \in ByHand /\ faults = 0 /\ extra = 0

-----------------------------------------------------------------------------
Goto(pc) == run' = IF pc = "idle" THEN Idle ELSE [run EXCEPT !.pc = pc]
Stop == run' = Idle
Fault == faults < MaxFaults /\ faults' = faults + 1
NoFault == UNCHANGED budget

\* A transaction: mined and seen, or mined after the tool gave up waiting.
Tx(effect, pc) ==
  /\ effect
  /\ \/ Goto(pc) /\ NoFault
     \/ Stop /\ Fault /\ UNCHANGED extra

\* A query, a transaction or the script itself fails without an effect.
Fail ==
  /\ run.pc # "idle" /\ Stop /\ Fault
  /\ UNCHANGED <<chain, file, gov, node, sent, extra, byHand>>

Begin(pc, sender, id) ==
  /\ run = Idle /\ run' = [pc |-> pc, sender |-> sender, id |-> id]
  /\ UNCHANGED <<chain, file, gov, node, sent, byHand>>

\* Both entries of extension.env are there.
Named == file.id # Empty /\ file.sender # Empty

Needed(cond) == \/ cond /\ NoFault
                \/ ~cond /\ extra < MaxExtra /\ extra' = extra + 1 /\ UNCHANGED faults

-----------------------------------------------------------------------------
\* scripts/pre-build.sh.  Every run deploys a sender and registers an extension.
ReusesSender == Begin(IF Named THEN "register" ELSE "deploy", IF Named THEN file.sender ELSE 0, 0) /\ Needed(~Named)
PreBuild == Begin("deploy", 0, 0) /\ Needed(~Named)

DeployInstructionSender ==
  /\ run.pc = "deploy" /\ senders < MaxSenders /\ senders' = senders + 1
  /\ \/ run' = [run EXCEPT !.pc = "register", !.sender = senders + 1] /\ NoFault
     \/ Stop /\ Fault /\ UNCHANGED extra
  /\ UNCHANGED <<exts, bound, machines, file, gov, node, sent, byHand>>

NewExtension(sender, own) ==
  [sender |-> sender, own |-> own, owner |-> FALSE, project |-> FALSE, key |-> FALSE, version |-> FALSE, gov |-> "none"]

\* The id is taken from the event of the receipt.
RegisterExtension ==
  /\ run.pc = "register" /\ Len(exts) < MaxExtensions
  /\ exts' = Append(exts, NewExtension(run.sender, TRUE))
  /\ \/ run' = [run EXCEPT !.pc = "owners", !.id = Len(exts) + 1] /\ NoFault
     \/ Stop /\ Fault /\ UNCHANGED extra
  /\ UNCHANGED <<senders, bound, machines, file, gov, node, sent, byHand>>

\* Each later transaction is skipped when the chain shows its effect.
Ensure(done, effect, pc) ==
  /\ \/ done /\ Goto(pc) /\ NoFault /\ UNCHANGED exts
     \/ ~done /\ Tx(effect, pc)
  /\ UNCHANGED <<senders, bound, machines, file, gov, node, sent, byHand>>

AllowTeeMachineOwners ==
  run.pc = "owners" /\ Ensure(exts[run.id].owner, exts' = [exts EXCEPT ![run.id].owner = TRUE], "projects")
AllowTeeProjectManagerOwners ==
  run.pc = "projects" /\ Ensure(exts[run.id].project, exts' = [exts EXCEPT ![run.id].project = TRUE], "keys")
KeyTypesOfOwner ==
  run.pc = "keys" /\ Ensure(exts[run.id].owner, exts' = [exts EXCEPT ![run.id].key = TRUE], "write")
AddSupportedKeyTypes ==
  run.pc = "keys" /\ Ensure(exts[run.id].key, exts' = [exts EXCEPT ![run.id].key = TRUE], "write")

\* The shell truncates the file before it writes.
WriteConfig ==
  /\ run.pc = "write" /\ Stop
  /\ \/ file' = [exists |-> TRUE, id |-> run.id, sender |-> run.sender] /\ NoFault
     \/ /\ file' \in [exists : {TRUE}, id : {Empty, run.id}, sender : {Empty}]
        /\ Fault /\ UNCHANGED extra
  /\ UNCHANGED <<chain, gov, node, sent, byHand>>

\* Someone else registers an extension of theirs, with or without a machine in
\* production.  The registry takes any address for its sender, also one of ours.
OtherRegisters ==
  /\ Len(exts) < MaxExtensions /\ extra < MaxExtra /\ extra' = extra + 1
  /\ \E k \in 0..senders : exts' = Append(exts, NewExtension(k, FALSE))
  /\ machines' \in {machines, machines \cup {<<0, Len(exts) + 1>>}}
  /\ UNCHANGED <<senders, bound, file, gov, node, run, sent, faults, byHand>>

\* By hand: extension.env of a run that stopped after its registration, whose
\* id the tool logged, and the register step again for that sender.
WriteByHand ==
  /\ byHand /\ run = Idle /\ ~Named
  /\ \E n \in DOMAIN exts : exts[n].own /\ file' = [exists |-> TRUE, id |-> n, sender |-> exts[n].sender]
  /\ UNCHANGED <<chain, gov, node, run, sent, budget, byHand>>

\* The state of the chain as the checks of verify-deploy query it, and what may
\* fail of it: one query, or those of some extensions in the scan for the sender.
AsQueried == [manager |-> 1, code |-> TRUE, balance |-> 1, minimum |-> 1, next |-> Len(exts) + 1, exts |-> exts]
NoneFails == [next |-> FALSE, sender |-> FALSE, owner |-> FALSE, key |-> FALSE, scan |-> {}]
Failing ==
  {[NoneFails EXCEPT !.next = TRUE], [NoneFails EXCEPT !.sender = TRUE],
   [NoneFails EXCEPT !.owner = TRUE], [NoneFails EXCEPT !.key = TRUE]}
  \cup {[NoneFails EXCEPT !.scan = S] : S \in SUBSET (DOMAIN exts)}
Report(q) == RegisterStep(TRUE, file, AsQueried, q)

RegisterAgain ==
  /\ byHand /\ Named /\ Begin("register", file.sender, 0)
  /\ \E q \in Failing : HasFailures(Report(q)) /\ (IF q = NoneFails THEN NoFault ELSE Fault /\ UNCHANGED extra)

-----------------------------------------------------------------------------
\* scripts/start-services.sh: a new node with the file's id and the settings of now.
\* docker-compose.yaml falls back from the signers to INITIAL_OWNER to a fixed address.
NodeGovernance == IF gov = "neither" THEN "fixed" ELSE gov
Fresh(nd) == nd.n > 0 /\ nd.id = file.id /\ nd.gov = NodeGovernance
StartNode ==
  /\ file.id # Empty /\ gov # "invalid" /\ node.n < MaxNodes
  /\ node' = [n |-> node.n + 1, id |-> file.id, gov |-> NodeGovernance]
  /\ Needed(Named /\ ~Fresh(node)) /\ UNCHANGED <<chain, file, gov, run, sent, byHand>>

EditGovernance ==
  /\ \E g \in Governances \ {gov} : gov' = g
  /\ Needed(gov = "invalid") /\ UNCHANGED <<chain, file, node, run, sent, byHand>>

\* scripts/post-build.sh.  Its tools take the extension id from the node.
Registered == <<node.n, node.id>> \in machines
PostBuild == node.n > 0 /\ Begin("version", 0, node.id) /\ Needed(Named /\ Fresh(node) /\ ~Registered)

AllowVersion ==
  run.pc = "version" /\ Ensure(exts[run.id].version, exts' = [exts EXCEPT ![run.id].version = TRUE], "governance")

\* set-governance falls back from the signers to INITIAL_OWNER to the deployer.
Desired == IF gov = "neither" THEN "deployer" ELSE gov

\* A failing lookup of the current hash is not an error: the transaction is sent.
SetOnce ==
  /\ run.pc = "governance" /\ gov # "invalid"
  /\ \/ exts[run.id].gov # "none" /\ Goto("machine") /\ NoFault /\ UNCHANGED exts
     \/ exts[run.id].gov = "none" /\ Tx(exts' = [exts EXCEPT ![run.id].gov = Desired], "machine")
  /\ UNCHANGED <<senders, bound, machines, file, gov, node, sent, byHand>>
SetTeeGovernance ==
  /\ run.pc = "governance" /\ gov # "invalid"
  /\ \/ exts[run.id].gov = Desired /\ Goto("machine") /\ NoFault /\ UNCHANGED exts
     \/ Tx(exts' = [exts EXCEPT ![run.id].gov = Desired], "machine")
  /\ UNCHANGED <<senders, bound, machines, file, gov, node, sent, byHand>>

\* The registry accepts a machine of an allowed owner, version and governance.
Accepts(nd) == LET e == exts[nd.id] IN e.owner /\ e.version /\ e.gov = nd.gov
RegisterMachine ==
  /\ run.pc = "machine" /\ Accepts(node)
  /\ Tx(machines' = machines \cup {<<node.n, node.id>>}, "idle")
  /\ UNCHANGED <<exts, senders, bound, file, gov, node, sent, byHand>>

-----------------------------------------------------------------------------
\* scripts/test.sh with the id and the sender of the file.
Served == sent.want # 0 /\ sent.want = file.id
Test == Named /\ node.n > 0 /\ Begin("gate", file.sender, file.id) /\ Needed(Registered /\ ~Served)

\* run-test: the node is in production for the extension of the flag.
GatePasses(n, id) == Registered /\ node.id = id
Gate ==
  /\ run.pc = "gate" /\ GatePasses(node.n, run.id) /\ Goto("bind") /\ NoFault
  /\ UNCHANGED <<chain, file, gov, node, sent, byHand>>

\* InstructionSender.setExtensionId: once, the lowest id with this sender.
OfSender(k) == {n \in DOMAIN exts : exts[n].sender = k}
Lowest(k) == CHOOSE n \in OfSender(k) : \A o \in OfSender(k) : n <= o
SetExtensionId ==
  /\ run.pc = "bind"
  /\ \/ bound[run.sender] # 0 /\ Goto("send") /\ NoFault /\ UNCHANGED bound \* "already set" is tolerated
     \/ /\ bound[run.sender] = 0 /\ OfSender(run.sender) # {}
        /\ Tx(bound' = [bound EXCEPT ![run.sender] = Lowest(run.sender)], "send")
  /\ UNCHANGED <<exts, senders, machines, file, gov, node, sent, byHand>>

\* InstructionSender._send: one random machine of the sender's extension.
SendInstruction ==
  /\ run.pc = "send"
  /\ \E m \in machines : m[2] = bound[run.sender] /\ Tx(sent' = [want |-> run.id, to |-> m], "idle")
  /\ UNCHANGED <<chain, file, gov, node, byHand>>

\* What a step finds stops the script: no budget is spent.
Refused ==
  /\ \/ run.pc = "governance" /\ gov = "invalid"
     \/ run.pc = "machine" /\ ~Accepts(node)
     \/ run.pc = "gate" /\ ~GatePasses(node.n, run.id)
     \/ run.pc = "bind" /\ bound[run.sender] = 0 /\ OfSender(run.sender) = {}
     \/ run.pc = "send" /\ ~\E m \in machines : m[2] = bound[run.sender]
  /\ Stop /\ NoFault /\ UNCHANGED <<chain, file, gov, node, sent, byHand>>

Script ==
  \/ DeployInstructionSender \/ RegisterExtension \/ AllowTeeMachineOwners
  \/ AllowTeeProjectManagerOwners \/ AddSupportedKeyTypes \/ WriteConfig
  \/ AllowVersion \/ SetTeeGovernance \/ RegisterMachine
  \/ Gate \/ SetExtensionId \/ SendInstruction \/ Refused

Next ==
  \/ PreBuild \/ RegisterAgain \/ WriteByHand \/ PostBuild \/ Test \/ Script \/ Fail
  \/ StartNode \/ EditGovernance \/ OtherRegisters

Spec == Init /\ [][Next]_vars

\* The operator goes on with the first script that is needed, and a script that runs
\* comes to an end (every wait has a time limit).
Fairness ==
  /\ WF_vars(Script) /\ WF_vars(PreBuild /\ ~Named)
  /\ WF_vars(EditGovernance /\ gov = "invalid") /\ WF_vars(StartNode /\ Named /\ ~Fresh(node))
  /\ WF_vars(PostBuild /\ Named /\ Fresh(node) /\ ~Registered) /\ WF_vars(Test /\ Registered /\ ~Served)
FairSpec == Spec /\ Fairness

-----------------------------------------------------------------------------
\* extension.env is written last (pre-build.sh), so what it names is complete:
\* the extension exists with that sender, the deployer as machine and project
\* owner and the key type (extension.go:34-86), whichever step of this or of an
\* earlier run failed half way, had its effect unseen or tore the file.
CompleteWhenWritten ==
  file.id # Empty /\ ~byHand =>
    LET e == exts[file.id] IN file.sender \in {e.sender, Empty} /\ e.owner /\ e.project /\ e.key

\* Someone else has registered an extension with n's sender before n.
Taken(n) == \E o \in 1..(n - 1) : exts[o].sender = exts[n].sender /\ ~exts[o].own

\* An instruction reaches a machine of the extension the test was given,
\* although the sender picks its own extension (InstructionSender.sol:35-45,
\* 62-63), once, and "already set" is ignored (run-test main.go:157): unless
\* somebody registered with our sender between its deployment and our
\* registration.  Whoever does so later diverts nothing.
SentToOwn == sent.want # 0 /\ ~byHand => sent.to[2] = sent.want \/ Taken(sent.want)

\* The registration report says where instructions go, also after repairs by
\* hand and registrations of others: with neither failure nor warning in R1-R7
\* (checks.go:329-508) the sender is, or will be, bound to the extension of the
\* file.  R7 passes over an extension whose query fails (checks.go:483-486):
\* such a one may be the sender's instead, and nothing follows when the query
\* of the file's own extension failed.
Unflagged(report) == \A r \in report : r.status = "PASS"
BindsBut(missed) ==
  /\ Lowest(file.sender) \in {file.id} \cup missed
  /\ bound[file.sender] \in {0, file.id} \cup missed
CleanReportBinds ==
  \A q \in Failing : Named /\ Unflagged(Report(q)) /\ file.id \notin q.scan => BindsBut(q.scan)

\* Whatever fails, the scripts complete the setup and a test instruction is
\* delivered to the extension of the file, for an operator who settles on
\* governance signers or an owner, and whose sender nobody has taken.
EventuallyServed ==
  ~byHand /\ <>[](gov # "neither") =>
    \/ <>(Served /\ sent.to[2] = sent.want)
    \/ <>[](Named /\ Taken(file.id))

\* What set-governance promises (main.go:5-9): who configures nothing still gets
\* a working setup.
DefaultsSuffice == [](gov = "neither") => <>Served
=============================================================================

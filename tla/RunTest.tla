---- MODULE RunTest ----
(***************************************************************************)
(* tools/cmd/run-test: the live test driver, which also restores a policy  *)
(* into an extension that lost it and fetches the decision of a prepared   *)
(* event.  It runs against the machine registry, an InstructionSender that *)
(* addresses one random active machine, and an extension process whose TEE *)
(* key is new at every start.  Machines join the registry at any time, also*)
(* while the tool runs.  Commitments, ciphertexts and signatures are       *)
(* abstracted to the rule and the machine they belong to.                  *)
(***************************************************************************)
EXTENDS Naturals, Sequences, FiniteSets

CONSTANTS
  Modes,     \* the ways the operator runs the tool, see Fresh and "resume"
  Durable,   \* TRUE with FCC_STATE_STORE=redis: the rules survive a restart; or both
  Others,    \* machines of the extension that another owner may register
  Prepared,  \* events with a GuardManager snapshot
  Big,       \* those whose value triggers the rule
  MaxNodes, MaxFaults, MaxSent, MaxExtra \* bounds: starts, kills and foreign machines, instructions, scenarios

ASSUME RunTestAssumption ==
  /\ Modes \subseteq {"restore", "retire", "resume", "evaluate", "default", "create"}
  /\ Durable \subseteq BOOLEAN /\ Others \subseteq {0}
  /\ Big \subseteq Prepared /\ "random" \notin Prepared
  /\ MaxNodes \in Nat \ {0} /\ {MaxFaults, MaxSent, MaxExtra} \subseteq Nat

VARIABLES
  machines,  \* active machines of the registry: process starts 1, 2, .. and Others
  live,      \* the running process, which the proxy names in /info
  barred,    \* whether its machine is banned
  durable,   \* which state store the process has
  store,     \* rules in it
  cache,     \* rules in e.policies: what /state counts
  active,    \* events whose last authorization has not expired
  sent,      \* the instructions, in the order of the chain
  run,       \* the tool: mode, step, TEE of /info, machines to ban, instruction awaited
  printed,   \* restore instructions whose id the operator has seen
  reported,  \* whether the last thing the tool said is POLICY_RESTORED
  saved,     \* the instruction whose decision is in the result artifact, or 0
  faults, extra

world == <<machines, live, barred, durable, store, cache, active, sent>>
seen == <<printed, reported, saved>>
vars == <<world, run, seen, faults, extra>>

Kept == 0                                  \* the rule to restore; run number n creates rule n
Restores == {"restore", "retire"}          \* without and with -retireStaleTees
Idle == [mode |-> "none", pc |-> "idle", tee |-> 0, ban |-> {}, at |-> 0, k |-> 0]
Pending(i) == sent[i].status = "pending"
Known == IF printed = {} THEN 0 ELSE CHOOSE i \in printed : \A j \in printed : j <= i

TypeOK ==
  /\ machines \subseteq 0..live /\ live \in 1..(MaxNodes + 1) /\ barred \in BOOLEAN
  /\ store \subseteq 0..MaxExtra /\ cache \subseteq store /\ active \subseteq Prepared
  /\ \A i \in DOMAIN sent : sent[i].to \in 0..live /\ sent[i].status \in {"pending", "ok", "refused"}
  /\ run.pc \in {"idle", "validate", "list", "ban", "gate", "prior", "send", "await", "count"}
  /\ run.at \in 0..Len(sent) /\ printed \subseteq DOMAIN sent /\ saved \in 0..Len(sent)

Init ==
  /\ machines = {1} /\ live = 1 /\ barred = FALSE
  /\ durable \in Durable /\ store = {} /\ cache = {} /\ active = {}
  /\ sent = <<>> /\ run = Idle /\ printed = {} /\ reported = FALSE /\ saved = 0
  /\ faults = 0 /\ extra = 0

-----------------------------------------------------------------------------
\* The extension process answers an instruction addressed to it.
Accepted(i) ==
  LET s == sent[i] IN
  CASE s.op = "create" -> s.key = live /\ s.rule \notin store
    [] s.op = "evaluate" -> s.rule \in store /\ s.event \in Prepared \ active
    [] OTHER -> FALSE \* an unknown field
Answer(i) ==
  /\ Pending(i) /\ sent[i].to = live
  /\ LET s == sent[i]
         created == {r \in {s.rule} : s.op = "create" /\ Accepted(i)}
         loaded == {r \in {s.rule} : s.op = "evaluate" /\ r \in store}
     IN /\ store' = store \cup created /\ cache' = cache \cup created \cup loaded
        /\ active' = active \cup {e \in {s.event} : s.op = "evaluate" /\ Accepted(i)}
        /\ sent' = [sent EXCEPT ![i].status = IF Accepted(i) THEN "ok" ELSE "refused"]
  /\ UNCHANGED <<durable, machines, live, barred, run, seen, faults, extra>>

AuthorizationExpires ==
  /\ \E e \in active : active' = active \ {e}
  /\ UNCHANGED <<durable, machines, live, barred, store, cache, sent, run, seen, faults, extra>>

\* A start makes a new TEE key, which the operator registers, whatever tool runs.
\* A ban is for good: a process whose machine is banned takes another start.
Restart ==
  /\ live < MaxNodes \/ (live = MaxNodes /\ barred)
  /\ live' = live + 1 /\ barred' = FALSE /\ cache' = {}
  /\ IF durable THEN UNCHANGED <<store, active>> ELSE store' = {} /\ active' = {}
  /\ UNCHANGED <<durable, machines, sent, run, seen, faults, extra>>
Join(m) ==
  /\ m \notin machines /\ machines' = machines \cup {m}
  /\ UNCHANGED <<durable, live, barred, store, cache, active, sent, run, seen, extra>>
RegisterLive == ~barred /\ Join(live) /\ UNCHANGED faults
OtherRegisters == faults < MaxFaults /\ faults' = faults + 1 /\ \E m \in Others : Join(m)

-----------------------------------------------------------------------------
Goto(pc) == run' = [run EXCEPT !.pc = pc]
Stop == run' = Idle
ShowId(i) == printed' = IF run.mode \in Restores \cup {"resume"} THEN printed \cup {i} ELSE printed

\* Scenarios, evaluations and restores of a rule that is stored are bounded.
Needed(mode) == mode = "resume" \/ (mode \in Restores /\ Kept \notin store)
Start(mode) ==
  /\ run = Idle /\ mode \in Modes
  /\ IF Needed(mode) THEN UNCHANGED extra ELSE extra < MaxExtra /\ extra' = extra + 1
  /\ IF mode = "resume"
     THEN Known # 0 /\ run' = [Idle EXCEPT !.mode = mode, !.pc = "validate", !.at = Known]
     ELSE run' = [Idle EXCEPT !.mode = mode, !.pc = "validate", !.k = 1]
  /\ reported' = FALSE /\ UNCHANGED <<world, printed, saved, faults>>

\* The TEE is taken from /info and must be in production.
AfterValidateNoRetirement ==
  CASE run.mode \in Restores -> "gate" [] run.mode = "resume" -> "await" [] OTHER -> "send"
AfterValidate ==
  CASE run.mode = "retire" -> "list" [] run.mode = "restore" -> "gate"
    [] run.mode = "resume" -> "await" [] OTHER -> "send"
Validate ==
  /\ run.pc = "validate"
  /\ IF live \in machines THEN run' = [run EXCEPT !.tee = live, !.pc = AfterValidate] ELSE Stop
  /\ UNCHANGED <<world, seen, faults, extra>>

\* retireStaleMachines: the active machines are listed once, each is checked
\* again and banned, and the list is read again at the end.  A process that has
\* started and been registered since /info was read is one of them.
ListActive ==
  /\ run.pc = "list" /\ run' = [run EXCEPT !.pc = "ban", !.ban = machines \ {run.tee}]
  /\ UNCHANGED <<world, seen, faults, extra>>
Obsolete(m) == m \notin Others /\ m \in machines
Ban ==
  /\ run.pc = "ban"
  /\ \E m \in run.ban :
       IF Obsolete(m)
       THEN /\ machines' = machines \ {m} /\ barred' = (barred \/ m = live)
            /\ run' = [run EXCEPT !.ban = @ \ {m}]
       ELSE Stop /\ UNCHANGED <<machines, barred>>
  /\ UNCHANGED <<durable, live, store, cache, active, sent, seen, faults, extra>>
Retired ==
  /\ run.pc = "ban" /\ run.ban = {}
  /\ IF machines = {run.tee} THEN Goto("gate") ELSE Stop
  /\ UNCHANGED <<world, seen, faults, extra>>

\* scripts/fcc-ready-for-instruction.sh, given the last restore the operator knows of:
\* first /info and the active set, then /state and that restore.
Included(tee) == tee \in machines
Selectable(tee) == machines = {tee}
PriorIgnored(tee) == TRUE
PriorResolved(tee) == Known # 0 /\ sent[Known].to = tee => ~Pending(Known)
SetIsReady(tee) == Selectable(tee)
Ready(tee) == live = tee /\ Selectable(tee)
ReadinessGate ==
  /\ \/ run.pc = "gate" /\ IF Ready(run.tee) THEN Goto("prior") ELSE Stop
     \/ run.pc = "prior" /\ IF cache = {} /\ PriorResolved(run.tee) THEN Goto("send") ELSE Stop
  /\ UNCHANGED <<world, seen, faults, extra>>

-----------------------------------------------------------------------------
\* What the steps of the default scenario send and the status they expect.
Scenario == <<[op |-> "create", want |-> "ok"], [op |-> "malformed", want |-> "refused"],
              [op |-> "evaluate", want |-> "ok"], [op |-> "evaluate", want |-> "refused"],
              [op |-> "evaluate", want |-> "ok"], [op |-> "evaluate", want |-> "ok"]>>
\* Event hashes of the scenario are random; -evaluateGuardSnapshot reads the snapshot first.
Evaluations == {[op |-> "evaluate", rule |-> Kept, event |-> e, want |-> "ok"] : e \in Prepared}
Contents ==
  CASE run.mode \in Restores -> {[op |-> "create", rule |-> Kept, event |-> "random", want |-> "ok"]}
    [] run.mode = "evaluate" -> Evaluations
    [] OTHER -> {[op |-> Scenario[run.k].op, rule |-> extra, event |-> "random", want |-> Scenario[run.k].want]}

\* The sender picks a machine of now; a policy is encrypted to the one of /info.
Send ==
  /\ run.pc = "send" /\ machines # {} /\ Len(sent) < MaxSent
  /\ \E c \in Contents, to \in machines :
       sent' = Append(sent, [op |-> c.op, rule |-> c.rule, event |-> c.event, want |-> c.want,
                             key |-> run.tee, to |-> to, status |-> "pending"])
  /\ run' = [run EXCEPT !.pc = "await", !.at = Len(sent) + 1]
  /\ UNCHANGED <<durable, machines, live, barred, store, cache, active, seen, faults, extra>>

\* mustResult: the expected status, signed by the TEE of /info.
Answered == run.pc = "await" /\ ~Pending(run.at)
SignatureUnchecked(tee) == TRUE
SignedBy(tee) == sent[run.at].to = tee
Valid == sent[run.at].status = sent[run.at].want /\ SignedBy(run.tee)

RestoreAnswered ==
  /\ run.mode \in Restores \cup {"resume"} /\ Answered /\ Valid
  /\ Goto("count") /\ UNCHANGED <<world, seen, faults, extra>>

\* Only a triggered decision is written.
Triggered == sent[run.at].event \in Big
EvaluationAnswered ==
  /\ run.mode = "evaluate" /\ Answered /\ Valid /\ Stop
  /\ saved' = (IF Triggered THEN run.at ELSE saved)
  /\ UNCHANGED <<world, printed, reported, faults, extra>>

\* -createPolicyOnly stops after the first step.
LastStep == IF run.mode = "create" THEN 1 ELSE Len(Scenario)
StepAnswered ==
  /\ run.mode \in {"default", "create"} /\ Answered /\ Valid
  /\ IF run.k < LastStep THEN run' = [run EXCEPT !.pc = "send", !.at = 0, !.k = @ + 1] ELSE Stop
  /\ UNCHANGED <<world, seen, faults, extra>>
Received == RestoreAnswered \/ EvaluationAnswered \/ StepAnswered

\* Each way to give up waiting prints the id, a bad signature or body does not.
GivesUp ==
  /\ run.pc = "await" /\ (Pending(run.at) \/ ~Valid)
  /\ ShowId(run.at) \/ (~Pending(run.at) /\ UNCHANGED printed)
  /\ Stop /\ UNCHANGED <<world, reported, saved, faults, extra>>

\* confirmLivePolicyCount(1) and the report.
CountIs(n) == Cardinality(cache) = n
ConfirmCount ==
  /\ run.pc = "count" /\ Stop
  /\ IF CountIs(1) THEN ShowId(run.at) /\ reported' = TRUE ELSE UNCHANGED <<printed, reported>>
  /\ UNCHANGED <<world, saved, faults, extra>>

\* The tool is killed, or a query fails: nothing more is done or printed.
Killed ==
  /\ run.pc # "idle" /\ faults < MaxFaults /\ faults' = faults + 1
  /\ Stop /\ UNCHANGED <<world, seen, extra>>

Tool == Validate \/ ListActive \/ Ban \/ Retired \/ ReadinessGate \/ Send \/ Received \/ GivesUp \/ ConfirmCount

Next ==
  \/ \E i \in DOMAIN sent : Answer(i)
  \/ AuthorizationExpires \/ Restart \/ RegisterLive \/ OtherRegisters
  \/ \E mode \in Modes : Start(mode)
  \/ Tool \/ Killed

Spec == Init /\ [][Next]_vars

\* The process answers what reaches it, the tool ends, and the operator registers
\* a new key, starts a banned process again and retries while the rule is missing.
Fairness ==
  /\ WF_vars(\E i \in DOMAIN sent : Answer(i)) /\ WF_vars(Tool)
  /\ WF_vars(RegisterLive) /\ WF_vars(barred /\ Restart) /\ SF_vars(Kept \notin store /\ Start("retire"))
FairSpec == Spec /\ Fairness

-----------------------------------------------------------------------------
\* What the readiness gate is for: "otherwise a transaction can irreversibly
\* target an obsolete machine" (fcc-ready-for-instruction.sh:88-90).  The set it
\* checks may have grown when the transaction is mined: a restore can then go to
\* a machine that cannot read it, but never to one older than that whose key it
\* is encrypted to.
NeverToObsolete ==
  \A i \in DOMAIN sent :
    sent[i].op = "create" /\ sent[i].rule = Kept => sent[i].to \in Others \/ sent[i].to >= sent[i].key

\* No second restore is submitted to a machine that may still answer an earlier
\* one, unless the id of that one was never printed (PREVIOUS_RESTORE_ACTION_ID
\* and -restoreActionId).
Submits == Len(sent') > Len(sent)
NotWhileUnresolved ==
  [][Submits /\ run.mode \in Restores =>
       \A i \in printed : ~(Pending(i) /\ sent[i].to = sent'[Len(sent')].to)]_vars

\* retireStaleMachines bans whatever joined since /info was read, also the process
\* that serves by now (main.go:285-291).  Nothing is submitted on the strength of
\* it: not to a set that the machine of the key has left, and not while the
\* process that serves is banned.
NothingWhileBanned == [][Submits => run.tee \in machines /\ ~barred]_vars

\* POLICY_RESTORED is true when it is said: the running process serves that
\* policy and no other (as long as none but this tool creates policies).
ReportedIsServed == [][reported' /\ ~reported => cache = {Kept} /\ live \in machines]_vars

\* With restarts, kills, lost ids and bans of the serving process, the rule is
\* back for good, unless another owner has a machine in the set or a scenario
\* has put rules of its own there.
EventuallyRestored ==
  <>[](Kept \in store \/ cache \ {Kept} # {} \/ Others \cap machines # {})
=============================================================================

---- MODULE TeeRegistration ----
(***************************************************************************)
(* The tool that brings a TEE machine into production, of                  *)
(* src/packages/fcc-extension/tools/cmd/register-tee and pkg/fccutils: the *)
(* steps r (pre-register), R (request an attestation), a (availability     *)
(* check) and p (to production) of one run, the state file a later run may *)
(* resume from, and the runs an operator starts one after the other.       *)
(*                                                                         *)
(* The registry, the data providers and the proxy are modelled from how    *)
(* the tool uses them.  A fault (a crash, a transaction that fails or      *)
(* whose receipt is not seen, a failed write or lookup, an expired         *)
(* challenge, a restarted node, a late answer) may happen anywhere, at     *)
(* most MaxFaults times.                                                   *)
(***************************************************************************)
EXTENDS Naturals, FiniteSets

CONSTANTS
  MaxNodes,    \* how many identities the node takes, one per start
  Ids,         \* instruction ids
  NoId,        \* the zero hash
  Commands,    \* sets of steps the tool may be asked for
  KeepsFile,   \* TRUE: -resume, or a stale file not removed; FALSE: removed
  MaxFaults

ASSUME RegistrationAssumption ==
  /\ MaxNodes \in Nat \ {0}
  /\ IsFiniteSet(Ids) /\ Cardinality(Ids) > 6 /\ NoId \notin Ids
  /\ Commands \subseteq SUBSET {"r", "R", "a", "p"}
  /\ KeepsFile \subseteq BOOLEAN
  /\ MaxFaults \in Nat

VARIABLES
  node,        \* the machine behind the extension proxy
  status,      \* the registry: machine -> "none", "registered", "production"
  instr,       \* what the chain and the data providers know of an id
  synced,      \* the FTDC proxy's signing policy fits the reward epoch
  file,        \* the state file; an absent one reads as Fresh, a torn one not at all
  pc,          \* the next step of the run, or "idle"
  run,         \* the machine and the command of the run, whether it kept the file
  state,       \* registrationState in memory
  attest,      \* teeAttestInstructionID
  check,       \* instructionID
  reported,    \* machines that runs which started fresh and named step a reported
  faults

vars == <<node, status, instr, synced, file, pc, run, state, attest, check, reported, faults>>
world == <<node, status, instr, synced>>
tool == <<file, pc, run, state, attest, check, reported>>

-----------------------------------------------------------------------------
\* TEE identities: TeeProxyId derives one from the key a node draws when it starts.
Machines == 1..MaxNodes

\* registrationState.
State == [steps : SUBSET {"r", "R", "a"}, attest : Ids \cup {NoId}, check : Ids \cup {NoId}]
Fresh == [steps |-> {}, attest |-> NoId, check |-> NoId]
Torn == [Fresh EXCEPT !.steps = {"torn"}] \* an empty or half-written file

\* An attestation challenge is live until a check uses it or it expires; the
\* answer to an availability check is pending, ready, or lost when the data
\* providers refuse to cosign it.
Kinds == {"unused", "live", "spent", "pending", "ready", "lost"}

TypeOK ==
  /\ node \in Machines
  /\ status \in [Machines -> {"none", "registered", "production"}]
  /\ instr \in [Ids -> [kind : Kinds, of : Machines]]
  /\ synced \in BOOLEAN
  /\ file \in State \cup {Torn} /\ state \in State
  /\ pc \in {"idle", "unreadable", "r", "R", "a", "send", "p", "promote", "finish"}
  /\ run \in [machine : Machines, cmd : Commands, kept : KeepsFile]
  /\ attest \in Ids \cup {NoId} /\ check \in Ids \cup {NoId}
  /\ reported \subseteq Machines
  /\ faults \in 0..MaxFaults

Init ==
  /\ node = 1
  /\ status = [m \in Machines |-> "none"]
  /\ instr = [i \in Ids |-> [kind |-> "unused", of |-> node]]
  /\ synced = TRUE
  /\ file = Fresh /\ state = Fresh
  /\ pc = "idle"
  /\ run \in [machine : {node}, cmd : Commands, kept : KeepsFile]
  /\ attest = NoId /\ check = NoId
  /\ reported = {} /\ faults = 0

\* Whether a fault may still happen, and that it does.
Fault == faults < MaxFaults /\ faults' = faults + 1
NoFault == UNCHANGED faults

\* An id nobody remembers any more stands for a new one.
NewId == CHOOSE i \in Ids : i \notin {file.attest, file.check, state.attest, state.check, attest, check}

Is(i, kind, m) == i \in Ids /\ instr[i] = [kind |-> kind, of |-> m]

-----------------------------------------------------------------------------
\* Mutants: step r does not ask the registry; the file of an earlier run is
\* loaded; a step is recorded without its id; a skipped step leaves the id it
\* had obtained.
AlwaysPreRegister == FALSE
AlwaysLoaded(keep) == file
RecordedWithoutId(s, i) == [state EXCEPT !.steps = @ \cup {s}]
NotRestored(s) == attest

-----------------------------------------------------------------------------
\* main and the head of RegisterNode: unless told to resume the tool removes
\* the state file; a removal that fails is only logged and the file is loaded.
\* Without step a the id of the availability check is an argument, any hash.
Loaded(keep) == IF keep THEN file ELSE Fresh
Start(keep, c) ==
  /\ pc = "idle"
  /\ file' = Loaded(keep)
  /\ run' = [machine |-> node, cmd |-> c, kept |-> keep]
  /\ check' \in {NoId} \cup {i \in Ids : "a" \notin c}
  /\ attest' = NoId
  /\ IF file' = Torn THEN pc' = "unreadable" /\ state' = Fresh ELSE pc' = "r" /\ state' = file'
  /\ UNCHANGED <<world, reported>> /\ NoFault

\* Any error ends the run; so does a crash.  The file stays.
Leave ==
  /\ pc' = "idle" /\ state' = Fresh /\ attest' = NoId /\ check' = NoId
  /\ UNCHANGED <<run, reported>>
Exit == Leave /\ UNCHANGED file
LoadFails == pc = "unreadable" /\ Exit /\ UNCHANGED world /\ NoFault
Crash == pc # "idle" /\ Exit /\ UNCHANGED world /\ Fault

\* A step the command does not name, and one the state has already.
Unnamed(s, next) ==
  /\ pc = s /\ s \notin run.cmd
  /\ pc' = next
  /\ UNCHANGED <<world, file, run, state, attest, check, reported>> /\ NoFault
Restored(s) == IF s = "a" THEN attest ELSE state.attest
Skip(s, next) ==
  /\ pc = s /\ s \in run.cmd /\ s \in state.steps
  /\ pc' = next /\ attest' = Restored(s)
  /\ check' = IF s = "a" THEN state.check ELSE check
  /\ UNCHANGED <<world, file, run, state, reported>> /\ NoFault

\* saveState after a step: a write that fails is only logged.  os.WriteFile
\* truncates the file first, so the old one is kept or a torn one left.
NotWritten == file' \in {file, Torn} /\ Fault
Record(st) == state' = st /\ ((file' = st /\ NoFault) \/ NotWritten)

\* A transaction that yields instruction i: mined and seen by CheckTx; mined
\* but not seen in time, or the tool killed as it saves; or not mined.  The
\* last two end the run.
Mined(i, st, next) ==
  /\ Record(st)
  /\ pc' = next
  /\ UNCHANGED <<node, synced, run, reported>>
Unseen == Leave /\ NotWritten /\ UNCHANGED <<node, synced>>
NotMined == Exit /\ UNCHANGED world

Issue(i, kind) == instr' = [instr EXCEPT ![i] = [kind |-> kind, of |-> run.machine]]

Recorded(s, i) == [state EXCEPT !.steps = @ \cup {s}, !.attest = i]

\* RequestTeeAttestation: the machine has to be registered.
RequestTeeAttestation(s, next) ==
  LET i == NewId IN
  \/ /\ status[run.machine] # "none"
     /\ Issue(i, "live") /\ UNCHANGED status
     /\ \/ Mined(i, Recorded(s, i), next) /\ attest' = i /\ UNCHANGED check
        \/ Unseen
  \/ NotMined /\ (IF status[run.machine] = "none" THEN NoFault ELSE Fault)

\* PreRegistration: register reverts for a machine that is registered already.
PreRegistration(next) ==
  LET i == NewId IN
  \/ /\ status[run.machine] = "none"
     /\ status' = [status EXCEPT ![run.machine] = "registered"]
     /\ Issue(i, "live")
     /\ \/ Mined(i, Recorded("r", i), next) /\ attest' = i /\ UNCHANGED check
        \/ Unseen
  \/ NotMined /\ (IF status[run.machine] # "none" THEN NoFault ELSE Fault)

\* Step r asks the registry first: a machine it knows gets a new attestation.
OnChain == status[run.machine] # "none"
StepRegister ==
  /\ pc = "r" /\ "r" \in run.cmd /\ "r" \notin state.steps
  /\ IF OnChain THEN RequestTeeAttestation("r", "R") ELSE PreRegistration("R")

\* The lookup failed: the tool registers again, and that reverts.
LookupFailed ==
  /\ pc = "r" /\ "r" \in run.cmd /\ "r" \notin state.steps /\ OnChain
  /\ Exit /\ UNCHANGED world /\ Fault

StepAttest ==
  /\ pc = "R" /\ "R" \in run.cmd /\ "R" \notin state.steps
  /\ RequestTeeAttestation("R", "a")

\* CheckFTDCProxyPolicyConsistency refuses only a confirmed mismatch.
PolicyCheck ==
  /\ pc = "a" /\ "a" \in run.cmd /\ "a" \notin state.steps
  /\ \/ /\ synced /\ pc' = "send"
        /\ UNCHANGED <<world, file, run, state, attest, check, reported>> /\ NoFault
     \/ /\ ~synced /\ pc' = "send"
        /\ UNCHANGED <<world, file, run, state, attest, check, reported>> /\ Fault
     \/ ~synced /\ Exit /\ UNCHANGED world /\ NoFault

\* RequestFTDCAvailabilityCheck spends a live challenge of the machine.
Answerable == IF synced THEN "pending" ELSE "lost"
RequestCheck ==
  LET i == NewId IN
  /\ pc = "send"
  /\ \/ /\ Is(attest, "live", run.machine)
        /\ instr' = [instr EXCEPT ![attest].kind = "spent", ![i] = [kind |-> Answerable, of |-> run.machine]]
        /\ UNCHANGED status
        /\ \/ /\ Mined(i, [state EXCEPT !.steps = @ \cup {"a"}, !.check = i], "p")
              /\ check' = i /\ UNCHANGED attest
           \/ Unseen
     \/ NotMined /\ (IF Is(attest, "live", run.machine) THEN Fault ELSE NoFault)

\* pollActionResult: an answer, or two minutes without one; an answer later
\* than that counts as a fault.
Answered(i) == i \in Ids /\ instr[i].kind = "ready"
Poll ==
  /\ pc = "p" /\ "p" \in run.cmd
  /\ \/ /\ Answered(check) /\ pc' = "promote"
        /\ UNCHANGED <<world, file, run, state, attest, check, reported>> /\ NoFault
     \/ /\ ~Answered(check) /\ Exit /\ UNCHANGED world
        /\ IF Is(check, "pending", node) THEN Fault ELSE NoFault

\* ToProduction, for the machine the proof names.
Promoted == instr[check].of
ToProduction ==
  /\ pc = "promote"
  /\ \/ /\ status[Promoted] # "none"
        /\ status' = [status EXCEPT ![Promoted] = "production"]
        /\ UNCHANGED instr
        /\ \/ pc' = "finish" /\ UNCHANGED <<node, synced, file, run, state, attest, check, reported>> /\ NoFault
           \/ Exit /\ UNCHANGED <<node, synced>> /\ Fault
     \/ NotMined /\ Fault

\* The end of RegisterNode and main's last line.
Succeeds == run.machine
Finish ==
  /\ pc = "finish"
  /\ \/ file' = Fresh /\ NoFault
     \/ file' = file /\ Fault
  /\ reported' = IF run.kept \/ "a" \notin run.cmd THEN reported ELSE reported \cup {Succeeds}
  /\ pc' = "idle" /\ state' = Fresh /\ attest' = NoId /\ check' = NoId
  /\ UNCHANGED <<world, run>>

Tool ==
  \/ LoadFails \/ Unnamed("r", "R") \/ Skip("r", "R") \/ StepRegister \/ LookupFailed
  \/ Unnamed("R", "a") \/ Skip("R", "a") \/ StepAttest
  \/ Unnamed("a", "p") \/ Skip("a", "p") \/ PolicyCheck \/ RequestCheck
  \/ Unnamed("p", "finish") \/ Poll \/ ToProduction \/ Finish

-----------------------------------------------------------------------------
\* Outside the tool: the node restarts under a new identity, a challenge
\* expires, the proxy loses and regains the policy, the providers answer.
RestartNode ==
  /\ node < MaxNodes /\ node' = node + 1
  /\ UNCHANGED <<status, instr, synced, tool>> /\ Fault
Expire ==
  /\ \E i \in Ids : instr[i].kind = "live" /\ instr' = [instr EXCEPT ![i].kind = "spent"]
  /\ UNCHANGED <<node, status, synced, tool>> /\ Fault
LosePolicy == synced /\ synced' = FALSE /\ UNCHANGED <<node, status, instr, tool>> /\ Fault
CatchUp == ~synced /\ synced' = TRUE /\ UNCHANGED <<node, status, instr, tool>> /\ NoFault
Answer ==
  /\ \E i \in Ids : Is(i, "pending", node) /\ instr' = [instr EXCEPT ![i].kind = "ready"]
  /\ UNCHANGED <<node, status, synced, tool>> /\ NoFault

Next ==
  \/ \E keep \in KeepsFile, c \in Commands : Start(keep, c)
  \/ Tool \/ Crash
  \/ RestartNode \/ Expire \/ LosePolicy \/ CatchUp \/ Answer

Spec == Init /\ [][Next]_vars

\* The operator again and again asks for all steps, with or without the file;
\* the proxy catches up with the epoch and the providers answer what they accepted.
StartWhole(keep) == \E c \in Commands : {"r", "a", "p"} \subseteq c /\ Start(keep, c)
Fairness ==
  /\ SF_vars(\E keep \in KeepsFile : StartWhole(keep)) /\ WF_vars(Tool)
  /\ WF_vars(CatchUp) /\ WF_vars(Answer)
FairSpec == Spec /\ Fairness

-----------------------------------------------------------------------------
\* Safety: the machine that a run with a check of its own (step a) reports as
\* registered (main.go:72) is in production when the run started fresh, whatever
\* earlier runs, crashes and restarts of the node left behind, and whatever
\* machines runs with an id of the operator's (-i) promoted in between.
ReportedInProduction == \A m \in reported : status[m] = "production"

\* Safety: whatever crashes, lost writes and unseen receipts did to it, the
\* state file records steps the chain has accepted, all for one machine.
FileOfOneMachine ==
  file.steps # {} /\ file # Torn => \E m \in Machines :
    /\ status[m] # "none"
    /\ file.steps \cap {"r", "R"} # {} => Is(file.attest, "live", m) \/ Is(file.attest, "spent", m)
    /\ "a" \in file.steps => \E k \in {"pending", "ready", "lost"} : Is(file.check, k, m)

\* Liveness: an operator who again and again starts fresh gets the machine into
\* production, from whatever point the earlier runs stopped at.
EventuallyInProduction ==
  []<><<StartWhole(FALSE)>>_vars => <>[](status[node] = "production")

\* What a resumed run cannot get past: a torn file, a recorded attestation whose
\* challenge is gone, a recorded check nobody will answer, another machine's file.
DeadFile ==
  \/ file = Torn
  \/ file.steps \cap {"r", "R"} # {} /\ "a" \notin file.steps /\ ~Is(file.attest, "live", node)
  \/ "a" \in file.steps /\ ~(Is(file.check, "pending", node) \/ Is(file.check, "ready", node))

\* Liveness: an operator who always resumes gets there as well, unless the file
\* is dead (the state file registration.go:25 keeps for this purpose).
ResumesUnlessDead == <>[](status[node] = "production" \/ DeadFile)

=============================================================================

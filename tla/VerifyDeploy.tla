---- MODULE VerifyDeploy ----
(***************************************************************************)
(* The command verify-deploy: src/packages/fcc-extension/tools/cmd/        *)
(* verify-deploy/main.go over the checks of tools/pkg/validate and the     *)
(* signer of tools/pkg/signer.  The operator edits the environment and     *)
(* extension.env, the chain moves, and any query of a run may fail.        *)
(***************************************************************************)
EXTENDS DeployChecks

CONSTANTS
  Settings, \* environments the operator sets
  Files,    \* contents of extension.env
  Chains,   \* states of the chain
  Outages,  \* sets of queries that fail in one run
  Filters   \* values of --checks: {} keeps every result

\* What the tool can meet: an entry of extension.env that is no number reads as
\* Empty or Malformed, the registry has one record per extension, a query
\* answers or fails, and those of the scan do so one by one.
ASSUME VerifyAssumption ==
  /\ Files \subseteq [exists : BOOLEAN, id : Int, sender : Int]
  /\ \A d \in Chains : \A i \in DOMAIN d.exts :
       d.exts[i] \in [sender : Int, owner : BOOLEAN, key : BOOLEAN]
  /\ Outages \subseteq [dial : BOOLEAN, code : BOOLEAN, funds : BOOLEAN, chain : BOOLEAN,
                       next : BOOLEAN, sender : BOOLEAN, owner : BOOLEAN, key : BOOLEAN,
                       scan : SUBSET Int]

VARIABLES
  s, f, c,
  last \* the last run: step, config, filter, exit code, report; NoRun when something changed since

verifyVars == <<s, f, c, last>>

StepsNeedingChain == {"deploy", "register", "all"}
Steps == StepsNeedingChain \cup {"services", "tee-version", "tee-machine", "test"}
NoRun == [step |-> "none", path |-> FALSE, ids |-> {}, q |-> "none", exit |-> 0, report |-> {}]

VerifyTypeOK ==
  /\ s \in Settings /\ f \in Files /\ c \in Chains
  /\ last.step \in Steps \cup {"none", "other"} /\ last.path \in BOOLEAN
  /\ last.ids \in Filters \cup {{}} /\ last.exit \in {0, 1}
  /\ \A r \in last.report : r.status \in {"PASS", "WARN", "FAIL", "SKIP"}

-----------------------------------------------------------------------------
VerifyInit == s \in Settings /\ f \in Files /\ c \in Chains /\ last = NoRun

Edit == s' \in Settings \ {s} /\ last' = NoRun /\ UNCHANGED <<f, c>>
WriteFile == f' \in Files \ {f} /\ last' = NoRun /\ UNCHANGED <<s, c>>
ChainMoves == c' \in Chains \ {c} /\ last' = NoRun /\ UNCHANGED <<s, f>>

\* DefaultSupport: the chain answers and the signer is the expected one.
Initialized(step, q) == step \in StepsNeedingChain => ~q.dial /\ Loads(s)

ReportOf(step, path, q) ==
  LET Part(k, results) == IF step \in {k, "all"} THEN results ELSE {}
  IN  Part("deploy", DeployStep(s, path, f, c, q))
      \cup Part("register", RegisterStep(path, f, c, q))
      \cup Part("services", ServicesStep(s, path, f))
      \cup Part("tee-version", VersionStep(s, path, f))
      \cup Part("tee-machine", MachineStep(s))
      \cup Part("test", TestStep(s, path, f))

Ran(step, path, ids, q, exit, report) ==
  /\ last' = [step |-> step, path |-> path, ids |-> ids, q |-> q, exit |-> exit, report |-> report]
  /\ UNCHANGED <<s, f, c>>

Verify(step, path, ids, q) ==
  /\ step \in Steps /\ Initialized(step, q)
  /\ LET report == Filtered(ReportOf(step, path, q), ids)
     IN Ran(step, path, ids, q, IF HasFailures(report) THEN 1 ELSE 0, report)

Refuse(step, path, ids, q) ==
  /\ step \notin Steps \/ ~Initialized(step, q)
  /\ Ran(step, path, ids, q, 1, {})

\* A run keeps nothing: another one is explored once something has changed.
VerifyNext ==
  \/ Edit \/ WriteFile \/ ChainMoves
  \/ \E step \in Steps \cup {"other"}, path \in BOOLEAN, ids \in Filters, q \in Outages :
       last = NoRun /\ (Verify(step, path, ids, q) \/ Refuse(step, path, ids, q))

VerifySpec == VerifyInit /\ [][VerifyNext]_verifyVars

-----------------------------------------------------------------------------
Deployed == c.manager # ZeroAddress /\ c.code /\ c.balance >= c.minimum
InRegistry ==
  /\ f.exists /\ WellFormed(f.id) /\ WellFormed(f.sender)
  /\ f.id \in DOMAIN c.exts
  /\ c.exts[f.id] = [sender |-> f.sender, owner |-> TRUE, key |-> TRUE]
Complete == last.step = "all" /\ last.path /\ last.ids = {} /\ f.exists

\* A complete run that exits with 0 saw a usable manager and a funded deployer
\* (checks.go:32-104) and an extension.env whose extension the registry holds
\* with that sender, the deployer as machine owner and the key type
\* (checks.go:378-475), whichever queries failed and however the early returns
\* and skipped checks (checks.go:319-327, 366-376, 379) combine.
AllClear == Complete /\ last.exit = 0 => Deployed /\ InRegistry

Answered(q) == \A k \in DOMAIN q : IF k = "scan" THEN q[k] = {} ELSE ~q[k]

\* Nor is there a false alarm: on such a deployment every step, filtered or
\* not, with a signer that loads and a chain that answers, exits with 0
\* (main.go:102-104), which is what lets a script go on.
NoFalseAlarm ==
  last.step \in Steps /\ Answered(last.q) /\ Deployed /\ InRegistry /\ Loads(s) => last.exit = 0

StatusOf(id) == {r.status : r \in {x \in last.report : x.id = id}}

\* The same entry of extension.env is judged in four places (checks.go:162-251,
\* 553-592, 763-820, 966-1013), by two parsers: one report of an existing file
\* never contradicts itself.
OneVerdict ==
  Complete /\ last.report # {} =>
    /\ StatusOf("D7_id") = StatusOf("S2") /\ StatusOf("S2") = StatusOf("V4")
    /\ StatusOf("D7_sender") = StatusOf("E1")
=============================================================================

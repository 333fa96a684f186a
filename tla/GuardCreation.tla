---- MODULE GuardCreation ----
(***************************************************************************)
(* Creating a guard, apps/web/src/components/guards/create-guard-flow.tsx: *)
(* the page has the private policy encrypted to the live TEE, sends it as  *)
(* an instruction, verifies the extension's signed acceptance, and then    *)
(* registers the guard.  A rule id stands for its policy, commitment and   *)
(* ciphertext; the extension's store is durable.                           *)
(***************************************************************************)
EXTENDS Naturals, FiniteSets

CONSTANTS MaxRuns, MaxFailures \* bounds: clicks on Create; failed calls and closed pages

ASSUME CreationBounds == MaxRuns \in Nat /\ MaxFailures \in Nat

VARIABLES
  run,      \* the page: stage, rule of the run, whether its answer was an acceptance
  drawn,    \* rule ids drawn so far: 1, 2, ..
  signed,  \* signed transactions: kind, rule, and whether the page waits for it
  requests,   \* CREATE_POLICY instructions on their way
  policies, \* rules in the extension's store
  guards,   \* rules registered in GuardManager
  listed,    \* rules in localStorage
  failures

world == <<signed, requests, policies, guards>>
creationVars == <<run, drawn, world, listed, failures>>

Resting == {"idle", "failed", "complete"}
Creating == {"preparing", "policy-signature", "policy-confirmation", "policy-processing", "answered",
         "guard-signature", "guard-confirmation", "verifying"}
Requests == [rule : 1..MaxRuns, held : BOOLEAN]

CreationTypeOK ==
  /\ run.pc \in Resting \cup Creating /\ run.rule \in 0..MaxRuns /\ run.accepted \in BOOLEAN
  /\ drawn \in 0..MaxRuns /\ failures \in 0..MaxFailures /\ requests \subseteq Requests
  /\ \A m \in signed : m.kind \in {"policy", "guard"} /\ m.rule \in 1..MaxRuns
  /\ policies \subseteq 1..MaxRuns /\ guards \subseteq 1..MaxRuns /\ listed \subseteq guards

CreationInit ==
  /\ run = [pc |-> "idle", rule |-> 0, accepted |-> FALSE] /\ drawn = 0 /\ signed = {} /\ requests = {}
  /\ policies = {} /\ guards = {} /\ listed = {} /\ failures = 0

Stage(pc) == run' = [run EXCEPT !.pc = pc]

-----------------------------------------------------------------------------
SameRule(k) == 1
\* Every click draws a new rule id.
RuleOf(k) == k + 1
CreateGuard ==
  /\ run.pc \in Resting \ {"complete"} /\ drawn < MaxRuns
  /\ drawn' = drawn + 1 /\ run' = [pc |-> "preparing", rule |-> RuleOf(drawn), accepted |-> FALSE]
  /\ UNCHANGED <<world, listed, failures>>

\* The policy route: the live TEE is verified, the terms checked and encrypted to its key.
Prepare ==
  /\ run.pc = "preparing" /\ Stage("policy-signature") /\ UNCHANGED <<drawn, world, listed, failures>>

Send(kind, pc) ==
  /\ signed' = signed \cup {[kind |-> kind, rule |-> run.rule, held |-> TRUE]} /\ Stage(pc)
  /\ UNCHANGED <<drawn, requests, policies, guards, listed, failures>>
SendPolicy == run.pc = "policy-signature" /\ Send("policy", "policy-confirmation")
SendGuard == run.pc = "guard-signature" /\ Send("guard", "guard-confirmation")

UncheckedResult == TRUE
\* verify of policy-app-helper: the answer is a signed acceptance of this rule and commitment.
VerifiedResult == run.accepted
PolicyResult ==
  /\ run.pc = "answered" /\ Stage(IF VerifiedResult THEN "guard-signature" ELSE "failed")
  /\ UNCHANGED <<drawn, world, listed, failures>>

\* The guard is read back before it is indexed.
VerifyGuard ==
  /\ run.pc = "verifying"
  /\ IF run.rule \in guards THEN Stage("complete") /\ listed' = listed \cup {run.rule}
     ELSE Stage("failed") /\ UNCHANGED listed
  /\ UNCHANGED <<drawn, world, failures>>

CreationPage == Prepare \/ SendPolicy \/ PolicyResult \/ SendGuard \/ VerifyGuard

-----------------------------------------------------------------------------
IncludePolicy ==
  \E m \in signed :
    /\ m.kind = "policy" /\ signed' = signed \ {m}
    /\ requests' = requests \cup {[rule |-> m.rule, held |-> m.held]}
    /\ IF m.held THEN Stage("policy-processing") ELSE UNCHANGED run
    /\ UNCHANGED <<drawn, policies, guards, listed, failures>>

IncludeGuard ==
  \E m \in signed :
    /\ m.kind = "guard" /\ signed' = signed \ {m}
    /\ guards' = guards \cup {m.rule}
    /\ IF m.held THEN Stage(IF m.rule \in guards THEN "failed" ELSE "verifying") ELSE UNCHANGED run
    /\ UNCHANGED <<drawn, requests, policies, listed, failures>>

Reply(i, ok) ==
  run' = IF i.held THEN [run EXCEPT !.pc = "answered", !.accepted = ok] ELSE run
CreatePolicy(i) ==
  /\ requests' = requests \ {i} /\ policies' = policies \cup {i.rule}
  /\ Reply(i, i.rule \notin policies)
  /\ UNCHANGED <<drawn, signed, guards, listed, failures>>
\* It cannot be decrypted or stored, or the store's acknowledgement is lost.
CreatePolicyFails(i) ==
  /\ requests' = requests \ {i} /\ policies' \in {policies, policies \cup {i.rule}} /\ Reply(i, FALSE)
  /\ failures < MaxFailures /\ failures' = failures + 1
  /\ UNCHANGED <<drawn, signed, guards, listed>>

\* Whatever was sent goes on without the page.
Release ==
  /\ signed' = {[m EXCEPT !.held = FALSE] : m \in signed}
  /\ requests' = {[i EXCEPT !.held = FALSE] : i \in requests}
  /\ UNCHANGED <<drawn, policies, guards, listed>>
CreationFails ==
  /\ run.pc \in Creating /\ Stage("failed") /\ Release
  /\ failures < MaxFailures /\ failures' = failures + 1
CreationReload ==
  /\ run.pc \in Creating /\ run' = [pc |-> "idle", rule |-> 0, accepted |-> FALSE] /\ Release
  /\ failures < MaxFailures /\ failures' = failures + 1

CreationNext ==
  \/ CreateGuard \/ CreationPage \/ IncludePolicy \/ IncludeGuard \/ CreationFails \/ CreationReload
  \/ \E i \in requests : CreatePolicy(i) \/ CreatePolicyFails(i)

CreationSpec == CreationInit /\ [][CreationNext]_creationVars
\* The owner clicks again until a guard is created; wallet, chain and extension answer.
CreationFairSpec ==
  /\ CreationSpec /\ WF_creationVars(CreateGuard) /\ WF_creationVars(CreationPage) /\ WF_creationVars(IncludePolicy) /\ WF_creationVars(IncludeGuard)
  /\ WF_creationVars(\E i \in requests : CreatePolicy(i))

-----------------------------------------------------------------------------
\* Whatever failed, was closed or came late: a guard on chain has its policy in
\* the extension, for a payment to a guard without one can never be concluded.
GuardHasPolicy == guards \subseteq policies

\* The owner ends with a guard, also when an accepted policy was not registered
\* and its rule id is spent in the extension.
EventuallyGuarded == <>(guards # {})
====

# AVERLOCK in TLA+

A verification development for AVERLOCK: TLA+ modules translated from the source, TLC
configurations that model-check them on small instances, and TLAPS proofs of the properties
that matter most, for every value of the constants. Paths are relative to the repository;
`contracts/` stands for `packages/contracts/src/`, `ext/` for
`packages/fcc-extension/go/internal/extension/`, `tools/` and `scripts/` for the directories of
that name in `packages/fcc-extension/`, and `web/` for `apps/web/src/`.

## 1. The system

A payment on the XRP Ledger becomes a locked position on Flare:

    XRPL payment --FDC proof--> GuardManager.prepareGuardEvaluation    snapshot: value, price, time
                                     |  read over JSON-RPC
    InstructionSender.evaluateGuard ---> FCC extension in a TEE        private policy -> signed decision
                                     |  352-byte decision, signed by the TEE
                                GuardManager.executeGuard              replay barriers, FXRP from the owner
                                     |  createPosition
                                ProtectionVault                        30-day linear release --> claim

The web application drives this chain from the owner's browser; a set of Go tools and shell
scripts registers the extension, brings its TEE into production, validates the result and repairs
it.

### 1.1 Components

| component | source | state it keeps | operations |
|---|---|---|---|
| Protection vault | `contracts/ProtectionVault.sol` | positions: terms and amount claimed; the tokens it holds | `createPosition`, `claim`, views |
| Guard manager | `contracts/GuardManager.sol` | guards, event snapshots, consumed events, consumed results, used nonces | `registerGuard`, `prepareGuardEvaluation`, `executeGuard` |
| Payment verifier, price reader, codec | `contracts/XrplPaymentVerifier.sol`, `XrpUsdPriceReader.sol`, `FCCDecisionCodec.sol`, `go/pkg/decision/codec.go` | none | pure |
| FCC extension | `ext/` | per rule: policy, last trigger, an authorization per event, used nonces; in a map behind one mutex, and in Redis or in memory | `CREATE_POLICY`, `EVALUATE_GUARD`, `/state`, `/ready` |
| Instruction sender | `packages/fcc-extension/contracts/InstructionSender.sol` | its extension id, set once | `setExtensionId`, `createPolicy`, `evaluateGuard` |
| Payment page | `web/components/guards/process-payment-flow.tsx`, `web/lib/averlock/payment-flow.ts` | the stage of a run in one tab; an index of event hashes in localStorage | process a payment: seven stages, four transactions, two polls |
| Guard creation page | `web/components/guards/create-guard-flow.tsx`, `web/lib/averlock/fcc-client.ts` | the stage of a run | send the policy, verify its acceptance, register the guard |
| TEE registration tool | `tools/pkg/fccutils/registration.go`, `tools/cmd/register-tee` | a JSON file of completed steps; the machine's status on chain | steps r, R, a, p, resumable |
| Set-up tools and scripts | `tools/pkg/fccutils/extension.go`, `governance.go`, `tools/cmd/*`, `scripts/pre-build.sh`, `post-build.sh`, `test.sh` | registry entries on chain, `config/extension.env` | deploy, register, owners, key types, version, governance |
| Deployment validation | `tools/pkg/validate`, `tools/cmd/verify-deploy` | none | checks D1-D7, R1-R7, S, V, E, T of one deployment |
| Live test driver | `tools/cmd/run-test`, `scripts/fcc-ready-for-instruction.sh` | an action id on a terminal, a result artifact | scenarios, restore a lost policy, retire stale machines, fetch a decision |
| Framework ports, read pages, one-shot scripts, infrastructure | see `PROJECT.json` | none of the protocol's | — |

### 1.2 Interactions

* `GuardManager` calls the verifier and the price reader during `prepareGuardEvaluation`, the
  TEE registry, the FXRP token and the vault during `executeGuard`. Token calls run foreign code.
* The extension reads `getEvaluationSnapshot` and `isEventConsumed` in one batch at the latest
  block while it holds its mutex; it never writes to the chain. Its results reach `executeGuard`
  through anyone who relays them, late or never.
* Instructions reach the extension through the registry and a queue: late, in any order, again,
  and each at one randomly chosen active machine, which must be the one it was encrypted to.
* A page's transactions outlive the page. A retry starts the run from the top and meets whatever
  earlier runs, and other tabs, have left on chain and in the extension.
* The tools share state through the registry and through three files: `extension.env`, the state
  file of `register-tee` and `.env`.

### 1.3 What is hard, and what makes each component correct

* **Vault.** Token callbacks and fees between two balance reads; rounding at every claim. Correct
  when it always holds what it owes, pays no more than has vested, and in the end everything.
* **Guard manager.** Replays across rules, results, nonces and reverted calls; a price that moved;
  storage read again after a callback; three clocks. Correct when every payment is valued once and
  concluded at most once, at that value, within the decision's window, by the owner's tokens only.
* **FCC extension.** A write that was stored but reported failed, a crash between the write and the
  answer, requests out of order, a mutex released by hand. Correct when an event has one decision,
  signed windows never overlap, nonces and cooldowns hold, and no request blocks the rest.
* **Payment and creation pages.** Late transactions of closed pages, approvals of several runs,
  results that expire while somebody signs. Correct when a retry never strands a payment, "complete"
  is one's own execution, and no guard is registered without its policy.
* **Registration and set-up.** Transactions repeated after a crash, a one-shot challenge, a state
  file that may be missing, torn, old or of another machine, strangers who register with one's
  sender. Correct when a re-run completes what was begun, the files name only what is accepted and
  complete, and a report says where instructions go.
* **Live test driver.** The machine set changes while the tool runs, between a gate and a
  transaction too, and the tool may ban the machine that serves. Correct when a policy is never sent
  to an obsolete machine, nor twice while unresolved, nothing rests on a mistaken ban, and a lost
  policy comes back.

Every hazard, at its line, with the properties that watch it or why none does, is in
`PROJECT.json`.

## 2. The modules

| module | models | role |
|---|---|---|
| `VestingMath` | `ProtectionVault._vestedAmount`, the position record | operators |
| `LinearVesting` | what the vault promises: terms fixed, each claim pays the vested remainder | abstract specification |
| `ProtectionVault` | `createPosition`, `claim`, token code, reverts | component |
| `EventLifecycle` | what the manager promises: a payment is bound once, concluded once | abstract specification |
| `GuardManager` | the manager with verifier, price reader, codec, token code, reverts | component |
| `FccExtension` | the extension's handlers, mutex, cache, store, failures | component |
| `PaymentFlow` | the payment page in several tabs, composed with manager, sender and extension | composition |
| `GuardCreation` | the creation page, composed with sender, extension and manager | composition |
| `TeeRegistration` | `register-tee`, its state file, the registry and the providers | component |
| `DeployChecks` | every check of `tools/pkg/validate` as an operator on a deployment | operators |
| `VerifyDeploy` | the `verify-deploy` command over these checks | component |
| `ExtensionSetup` | the set-up scripts and tools, repeated and repaired | component |
| `RunTest` | `run-test` in all its modes, the readiness gate, the extension process and its store | component |
| `MCGuardManager`, `MCFccExtension`, `MCPaymentFlow`, `MCTeeRegistration`, `MCVerifyDeploy` | finite instances | model checking |
| `ArithmeticProofs` | quotients rounded down, sums over finite sets | lemmas |
| `ProtectionVaultProofs`, `GuardManagerProofs`, `FccExtensionProofs`, `WebApplicationProofs`, `TeeRegistrationProofs`, `ExtensionSetupProofs`, `RunTestProofs` | theorems | proofs |

`TypeOK` of each module states the types of its variables; those of the modules with proofs are
theorems. `GuardCreation` and `VerifyDeploy` name their parts `Creation..` and `Verify..`, so that one
module of proofs can extend them beside `PaymentFlow` and `ExtensionSetup`; they share no state.

### 2.1 ProtectionVault

`positions` is `_positions[1 .. _nextPositionId - 1]`, `bal` the token balances, `now`
`block.timestamp`. A call is three steps: `CreateBegin` (checks, balance before), `CreatePull`
(`safeTransferFrom`), `CreateEnd` (balance after, exact receipt, new position); `ClaimBegin`
(authorization, effect), `ClaimPay` (`safeTransfer`), `ClaimEnd`. Between them the token's code may
do anything another account may (`OthersRun`), nested up to `MaxDepth`. `stack` holds the calls in
progress with the state a revert restores. Tokens in `FeeAsset` may deliver less than was sent,
those in `HookAsset` call out and may refuse.

`LinearVesting` knows no tokens: a position is opened with fixed terms and a claim sets what was
claimed to what has vested. The mapping shows the abstract ledger the state as of the last
*completed* transaction (`Committed`), so a step inside a call is a stutter and the call takes
effect when it returns.

### 2.2 GuardManager

`guards`, `snaps`, `consumedEvents`, `consumedResults`, `usedNonces` are the five mappings. A
payment's identity is the tuple `deriveEventHash` hashes. `Prepare` is the whole handler: proof,
receiver, price, uniqueness, snapshot. `executeGuard` is `ExecuteReleasing` for a decision that did
not trigger, and `ExecuteBegin`, `Pull`, `Deposit`, `Finish` or `Revert` for one that did;
`Admissible` is the conjunction of its checks. `Payer` reads the guard's owner from storage at the
moment of each use, because `executeGuard` holds a storage reference and the token's code runs in
between. Verified proofs, the feed, TEE status and token balances are inputs that change freely;
a TEE is "in production" when all of `_verifyRegisteredTee` accepts it. `log` (the events emitted)
and `gifted` (units sent straight to the manager) are history.

Left out: `active`, which nothing clears; `policyCommitment`, which the contract stores and never
reads; the chain id check; products beyond 256 bits, which revert.

`EventLifecycle` is the promise: every payment is unseen, bound (rule, value, price), then released
or protected with what the decided amount is worth at the bound price. One transaction may advance
several payments, since a callback may prepare others, each by one step.

### 2.3 FccExtension

Each goroutine is a handler with a program counter. `ReceiveCreate`, `Decrypt`, `CreateSave`,
`CreateRefuse`, `CreateAck` are CREATE_POLICY; decoding, decrypting and validating happen before the
mutex, as in the code. `ReceiveEvaluate`, `EvalBegin` (lock, cache or store, clone, expiry, nonce),
`EvalRead` (snapshot, frozen authorization or decision), `EvalSave`, `EvalAck` (cache, release) are
EVALUATE_GUARD. `Fail` ends a request at any call that can fail, including a store that wrote and
then lost the answer; `Crash` loses the memory. `Prepare` and `Consume` stand for the manager as the
extension sees it. `Durable` chooses Redis or the memory store. Timestamps are inputs in any order;
sums of two wrap at `Word`, which stands for 2^64.

### 2.4 PaymentFlow

The stage of `process-payment-flow.tsx` is `tab[t].pc`: what the wallet has to sign (`Sign`), what is
awaited (`mempool`, `instrs`), and the checks in between (`Proof`, `SimulatePrepare`, `Snapshot`,
`Finish`, `SimulateExecute`, `Confirm`). `Include` is a block that takes a signed transaction, which
may happen long after its tab gave up (`by = "gone"`); `EvaluateGuard` is the extension's answer.
`Fail` is a call that is declined, fails or times out at any stage, `Reload` a page closed and loaded
again; both cost a fault, and so does a unit someone sends to the manager (`Receive`). The manager is reduced to prepared, consumed and the transfer of the exact
amount, the extension to one authorization of an event at a time. Times are distances: how long an
authorization is still valid (`left`, -1 once expired), how old an instruction is. `Tick` while a tab
holds a result (`Slow`) is an owner who lets the result expire and costs a fault too.

Simplified: the FDC request is sent in every run; the index holds one entry per guard and one guard is
modelled; the browser's clock is the chain's.

### 2.5 GuardCreation

One page at a time, because a run draws a fresh rule id and shares nothing with another. `Prepare`
(policy route), `SendPolicy`, `PolicyResult` (the signed acceptance is verified), `SendGuard`,
`VerifyGuard` (read back, then indexed) are the page; `IncludePolicy`, `CreatePolicy`, `IncludeGuard`
the world; `CreatePolicyFails` may store the policy and still report a failure, as `FccExtension`
shows it can.

### 2.6 TeeRegistration

`pc` is the step of `RegisterNode`, `state` the `registrationState` in memory, `file` the JSON file.
A transaction is mined and seen, mined and not seen before the deadline (`Unseen`), or not mined.
A write of the file truncates it first: one that fails, which `Record` only logs, or a tool that is
killed as it saves leaves the old file or a torn one (`NotWritten`), and a torn one ends every run that
loads it (`LoadFails`). `instr` is what chain and data providers know of
an instruction id: a challenge that is live until a check spends it or it expires, an answer that is
pending, ready or lost. The node may restart under a new identity at any moment. `Start` picks a
command, whether the file is kept (`-resume`, or a removal that failed) and, without step a, any
instruction id (`-i`), also of another machine's check.

### 2.7 DeployChecks, VerifyDeploy and ExtensionSetup

`DeployChecks` has one operator per check of `tools/pkg/validate/checks.go`: the results it
contributes for an environment `s`, a file `f`, a chain `c` and a set of failing queries `q`.
`VerifyDeploy` runs a step, filters, and exits as `main.go` does, over environments, files and chains
that include every way each check can fail. `ExtensionSetup` has one action per transaction of the
scripts, each of which may take effect unseen (`Tx`), and uses `RegisterStep` of `DeployChecks` as the
report the operator reads (`Report`), in which any query may fail, those of some extensions in the scan
of R7 too (`Failing`): `byHand` operators repair what it flags. `WriteConfig` may tear `extension.env`,
which the shell truncates before it writes. Strangers register extensions with any sender, the
operator's too, with or without a machine (`OtherRegisters`). Node and `set-governance` fall back to
different governance when neither setting is made (`NodeGovernance`, `Desired`).

### 2.8 RunTest

The modes of `run-test` share `Validate`, `Send` and the wait; restores add the readiness gate and the
count, `retire` the banning of stale machines, `resume` the wait for a known id. The extension process
restarts under a new key; with the memory store it loses its rules. Its machine, and one of another
owner, may join the registry at any time, while the tool runs too (`Join`). So `retire` may list and
ban a process that has started since `/info` was read (`Ban`, `barred`), and the set may grow after the
gate, which looks at `/info` and the set first and at `/state` and the earlier restore later
(`ReadinessGate` in two steps). Commitments and ciphertexts are reduced to the rule and the key they
belong to. Simplified: `/state` and the earlier restore are read in one step; the second call of the
gate, in `test.sh`, is not separate from the tool's. CREATE_POLICY instructions come from the tool only:
other senders, whom the contract admits, are outside the model.

## 3. What the runs check

| run | instance | properties |
|---|---|---|
| `vault` | a plain token and one with fees and callbacks, one nested call, fairness | `Solvent` `ClaimsWithinVested` `NothingStranded` `RefinesLinearVesting` `FullyReleased` |
| `manager` | two owners, two guards that may watch one receiver, two payments, two prices, five results that share ids and nonces, a token with fees and callbacks | `FundedByOwner` `Backed` `ExactlyOnce` `SnapshotPriced` `Timely` `RefinesLifecycle` |
| `fcc_decisions` | two events, rival policies, one with a cooldown, two handlers, crashes | `FrozenOutcome` `AcceptedPolicyStands` `NonceOnce` `CooldownRespected` |
| `fcc_requests` | valid and invalid policies, refreshes, fairness | `NoOverlap` `SignedIsDurable` `EveryRequestEnds` |
| `fcc_cooldown_wraps` | `Word` = 8, a cooldown near it | `CooldownRespected`, violated |
| `payment` | two tabs, one payment, two faults, expiring results, fairness | `DecisionsUsable` `CompleteIsOwn` `EventuallyConcluded` |
| `creation` | four clicks, three faults, fairness | `GuardHasPolicy` `EventuallyGuarded` |
| `registration` | four commands, any `-i`, file kept, torn or removed, two identities, three faults, fairness | `ReportedInProduction` `FileOfOneMachine` `EventuallyInProduction` `ResumesUnlessDead` |
| `verify_deployments` | every step on good, incomplete and malformed deployments, one failing query | `AllClear` `NoFalseAlarm` `OneVerdict` |
| `setup` | two faults, one unneeded step or stranger's registration, every governance setting, with and without repairs by hand, fairness | `CompleteWhenWritten` `SentToOwn` `CleanReportBinds` `EventuallyServed` |
| `setup_defaults` | nothing configured, nothing fails, fairness | `DefaultsSuffice`, violated |
| `run_test` | all modes, both stores, a foreign machine, joins, restarts and kills at any time, fairness | `NeverToObsolete` `NotWhileUnresolved` `NothingWhileBanned` `ReportedIsServed` `EventuallyRestored` |

**Bounds and why they suffice.** The vault's hazards need two positions and one nested call: a call
and what its token does to it; a larger `MaxDepth` would only nest calls the reentrancy guard refuses.
The manager's replay barriers compare two executions, so two payments, two result ids and two nonces
show every pair; two prices show the wrong one; the instants 0 to 2 separate preparation, evaluation
and expiry. The five results of `MCResults` are those pairs: the same payment at either price or
released instead, an id and a nonce shared with the other payment, one decided later for the other
guard. Owners are symmetric; they approve 2, before which nothing is approved. A cooldown of three within five instants leaves
room for two triggers that are a cooldown apart and for every pair that is not. With `MaxTime` 3 and
`Validity` 1 in `fcc_requests` a window [1, 2] is followed by a refresh to [3, 4]: a second window and a
write after a release do occur. Two handlers are what a mutex has to separate. In `payment` each tab
can fail once and be interleaved with the other at every stage, and a signed result can expire unused
and its successor be declined; the proofs hold for any number of tabs, payments and faults. Three
faults in `registration` combine a lost receipt or a torn file, an expired challenge and a restart.
`setup` needs one repetition and two faults for a file that names an older extension. In `run_test`
two starts, and a third when the second is banned, let the serving process change once under a restore
and once more after a mistaken ban; two faults are two kills, or one and a foreign machine; `MaxSent` =
8 is more than the restores these can cause, otherwise `EventuallyRestored` would fail. The proofs of
section 4 lift the thirty-one that are not about liveness to all values.

**Deadlock** is checked where the system always has a next step (`FccExtension`, `TeeRegistration`,
`VerifyDeploy`). It is not in the others, which really end: the vault's and manager's time and supply
are used up, the payments of the page are concluded, the clicks of the creation page and the budgets of
set-up and driver are spent.

**Fairness**, and why the code justifies it:

* `ProtectionVault`: a transaction is executed to its end, blocks arrive whatever transactions they
  hold, and a beneficiary keeps claiming; the contract pays nobody by itself.
* `FccExtension`: strong fairness of each handler, because calls out of the process return or fail in
  the end and Go's mutex does not starve a goroutine. The code sets no deadline on these calls; this
  assumption is the environment's.
* `PaymentFlow`: in every tab the owner signs, waits, finds the tokens and tries again (`Run` is strongly fair: the
  button comes and goes); the chain includes what was signed, the extension answers, and time passes
  while no result is held.
* `GuardCreation`: the owner clicks again until a guard exists; wallet, chain and extension answer.
* `TeeRegistration`: the operator again and again asks for all steps (for `EventuallyInProduction`:
  again and again without the file), a started tool goes on, the proxy catches up with the reward
  epoch, the providers answer what they accepted.
* `ExtensionSetup`: the operator goes on with the first script that is needed, or the governance
  setting that is wrong; every wait of a script has a limit.
* `RunTest`: the tool's waits have limits, the process answers what reaches it, and the operator
  registers a new key, starts a process again whose machine is banned, and retries `-retireStaleTees`
  while the rule is missing.

`GuardManager` and `VerifyDeploy` have no liveness property: every step there is somebody's choice.

Each property has a mutant in `PROJECT.json`, an operator beside the definition it replaces, changed
the way a plausible bug would be, with which TLC finds the property violated.

### 3.1 Findings and observations

Two disagreements are shown by runs:

* **A cooldown near 2^64 is no cooldown** (`fcc_cooldown_wraps`). `LastTriggered + CooldownSeconds`
  is a `uint64` sum without a bound on the policy's field (`ext/extension.go:242`): "never again"
  wraps into the past. `docs/fcc-private-rules.md:93` promises the opposite.
* **Who configures no governance gets no machine** (`setup_defaults`). Without `GOVERNANCE_SIGNERS` and
  `INITIAL_OWNER` the node falls back to a fixed address (`docker-compose.yaml:44-48`) and
  `set-governance` to the deployer (`set-governance/main.go:57-60`): the registry refuses the machine at
  every attempt. `set-governance/main.go:6-8` says "a developer who configures nothing still gets a
  working setup".

Others were met while reading and modelling. The models follow the code; no run is about them.

* Handlers are not serialized: CREATE_POLICY decodes and decrypts before the mutex
  (`ext/extension.go:119`), where `docs/extension-contract.md:201` says one invocation at a time.
* The payment page requires the manager's *whole* balance to be zero after an execution
  (`process-payment-flow.tsx:29`); the contract compares with the balance before
  (`GuardManager.sol:395-398`). One unit sent to the manager makes every success look stopped.
* The page indexes a payment before its snapshot exists (`process-payment-flow.tsx:21`): a reload in
  between finds an entry whose snapshot cannot be read and shows no button (`guard-detail.ts:71-85`).
  With one entry per guard, a prepared payment is not offered again once another has taken its place.
* A stopped creation is reported as stopped before completion although its registration was signed and
  may still be mined (`create-guard-flow.tsx:76`).
* A resumed registration cannot get past an expired challenge (`registration.go:25-26`, `76-88`), and
  with another machine's file it reports the wrong one (`registration.go:128-130`, `main.go:72`): what
  `DeadFile` excludes, and why `reported` counts fresh runs only. A write that fails or is cut off can
  tear the file (`registration.go:53`), after which every resume stops at `registration.go:37-44`.
* A run without step a takes any id with `-i` (`registration.go:153-155`): with that of another machine's
  check it promotes that machine and reports its own node as registered (`main.go:72`). `reported`
  therefore counts runs with a check of their own.
* `-retireStaleTees` bans whatever is listed besides the machine of `/info` (`run-test/main.go:285-291`),
  where the flag speaks of obsolete machines (`main.go:93`): a process that restarted and was registered
  after `/info` was read is banned although it is the one that serves, and needs another start
  (`barred`). `NothingWhileBanned` and `EventuallyRestored` say what still holds.
* The set is checked before the transaction is signed (`fcc-ready-for-instruction.sh:88-95`): a machine
  that joins in between may be the target of a policy it cannot read. `NeverToObsolete` says that it is
  at least no older one.
* `confirmLivePolicyCount` counts and does not ask which policy it is (`run-test/main.go:415-430`), and
  `createPolicy` is open to anyone: a stranger's policy in a process that has just restarted passes for
  the restored one. `ReportedIsServed` holds because the model has no such senders.
* `setExtensionId` takes the lowest extension that names the sender (`InstructionSender.sol:38-42`) and
  registration takes any sender: a stranger who registers between the deployment of the sender and its
  registration is who the instructions go to (`Taken`, the exception of `SentToOwn`). R7 reports it.
* Check D5 reads other variables than the signer (`checks.go:140-147`, `signer.go:38-41`); R7 skips a
  query that fails and passes with what it saw (`checks.go:483-486`), which `CleanReportBinds` excepts; the advice for R3 is a step that
  registers a *new* extension (`checks.go:440`, `extension.go:35`).
* `/state` counts the cache, not the store (`ext/extension.go:76`), and the readiness gate relies on it.
* The default scenario of `run-test` evaluates random events, which have no snapshot
  (`run-test/main.go:242`, `ext/extension.go:209-212`): its third step cannot succeed.

## 4. What is proved

All proofs are for arbitrary constants that meet the named assumptions.

**Arithmetic and sums** (`ArithmeticProofs`): a share rounded down is at most the whole and grows with
what it is a share of; a sum of natural numbers over a finite set is a natural number, depends only on
the summands in that set, and changes by what is added, removed or changed. The community modules
define such a sum by a fold that takes the elements in the order of `CHOOSE`; that the fold exists
(`FoldExists`) and that any element may be taken out first (`SumRemove`) are proved by induction on the
size. The library's induction theorem takes a predicate as a parameter, which the provers cannot
instantiate; `SetInduction` takes the set of numbers with the property instead and follows from the
well-foundedness of the order.

**Vault** (`ProtectionVaultProofs`), from `VaultAssumption`. The vested amount lies in `0 .. total` and
never decreases. From `IInv` follow `TypeOK`, `ClaimsWithinVested` and the refinement of
`LinearVesting`. `ClaimsWithinVested` is not inductive: a revert restores positions saved earlier, so
`IInv` says the same of every saved state and how it differs from the current one, which needs the
reentrancy guard (at most one call in progress). Time stands still during a call, so what was within
the vested amount when it was saved still is. `Solvent` and `NothingStranded` need `FInv` besides:
what the vault holds beyond its debts is the units of the call in progress, received and not yet owed
or booked and not yet sent, and the state a revert restores was funded too. A deposit is measured from
the balance at its entry, which covered the debts there were; a callback can only have added to it.

**Manager** (`GuardManagerProofs`), from `ManagerAssumption`, `PowersAssumption` (the prover has no
exponentiation, so that powers of ten are positive is assumed, and evaluated by TLC on every run) and
`NoneAssumption` (the null value is no guard and no snapshot): `IInv`, and from it `TypeOK`,
`ExactlyOnce`, `SnapshotPriced`, `Timely` and the refinement of `EventLifecycle`. The properties speak
of `log`, which a call reaches only when it returns; the barriers are set, and the amount computed,
before the token's code runs. So `IInv` says `Sound` (every execution in the log is behind all three
barriers and justified by its snapshot) of the current state and of the one a revert would restore,
and of the call in progress (`CallInProgress`) that its report is already justified, that it shares no
barrier with an earlier execution, and that callbacks have only added snapshots of this block
(`Added`). State only grows outside reverts (`Extends`), and what is justified stays so
(`JustifiedExtends`), which settles most actions at once. For the refinement, a payment's stage
depends on the snapshots and the log of the committed state alone; a call commits when it returns,
and then binds what callbacks valued and protects what it executed.

`FundedByOwner` and `Backed` need `MInv`: the books are in order (`Booked`) in the current state, or,
while a call has taken units and not yet deposited them, they are once the units in the manager's hands
are added, and they were in the state a revert restores. A log and the positions are matched by
`Rank`, the number of executions up to an entry, because the two grow in different steps; the sum of
an owner's positions then grows by exactly the deposit, whoever is called back in between.

**FCC extension** (`FccExtensionProofs`), from `FccAssumption` and, for all but typing, `Durable`:
`IInv`, `TypeOK`, `NoOverlap`, `FrozenOutcome`, `NonceOnce`, `SignedIsDurable`. The properties speak of
released results, the code decides from a copy of one rule's state; the invariant connects them.
Whoever holds the mutex has a copy that remembers every result released for its rule
(`WorkRemembers`), as do cache and store, although the store may be ahead of the cache after a lost
answer. Before it is written, the result to come is known to be new and later than all of them
(`NewResultFits`), and `saved` means the store has it. The time bound `MaxTime + Validity < Word` says
that timestamps are Unix seconds: window ends do not wrap. The proofs cover any number of rules; the
runs have one.

`AcceptedPolicyStands` and `CooldownRespected` are proved from `PolicyInv`, the latter under
`CooldownsFit`: no policy has a cooldown that makes `lastTriggeredAt + cooldownSeconds` reach 2^64,
the condition `fcc_cooldown_wraps` shows to be needed. `PolicyInv` says that every copy of a rule's
state, stored, cached or in work, has one policy, the stored one, which no step changes once it is
there, so that a creation acknowledged later can only be of that policy. For the cooldown each copy is
spaced and, stronger, none of its triggers is later than the last one it records (`UpToLast`): then
the code's one comparison keeps a new trigger clear of all of them. This is preserved although
instructions arrive in any order, because a late one is compared with the last trigger too, and never
moves it back.

**Payment page** (`WebApplicationProofs`), for any tabs, payments, lifetimes and faults: `TypeOK`,
`CompleteIsOwn` and `DecisionsUsable`. The types need `Awaited`, which says that a tab
waits for at most one transaction or instruction, the one its stage names: only then does a receipt
find its tab in the stage the transaction left it in. `DecisionsUsable` needs `Usable`: whoever is past
the snapshot, a transaction on its way included, is past it because the snapshot exists, and snapshots
are never taken back (`ChainGrows`).

**Guard creation** (`WebApplicationProofs`), for any number of runs and failures: `CreationTypeOK` and
`GuardHasPolicy`. That registered guards have
policies says nothing of the transactions still on their way, so `CreationInv` adds that a page past the
verified acceptance, and every registration it signed, also after the page is gone, is for a stored
policy (`Stored`), and that what the page waits for is its own (`Held`).

**TEE registration** (`TeeRegistrationProofs`), from `RegistrationAssumption`: `TypeOK`,
`FileOfOneMachine` and `ReportedInProduction`, for any commands, identities and faults. `FileInv`
follows the identity of one machine through the tool's memory, the file and the instruction ids
recorded in them: recorded steps are always of the newest machine the chain knows (`Newest`). It is
preserved although the node may come up as another machine at any step, because a run registers the
machine it started with before it records anything of it. `ReportInv` says that a run that started
without a file skips nothing, so the answer it waits for is about its own machine.

Both properties need a condition on the commands, and TLC shows that they do. A command that requests
an attestation (`R`) without registering the node first (`r`) files a challenge of the node of that run
beside a registration of the node of an earlier one (`RegistersFirst` excludes it); a command that makes
a check (`a`) and stops before the promotion (`p`) reports a machine that is not in production
(`EndsWithPromotion`). What `-i` promotes in other runs is arbitrary, and does no harm to the reports of
runs with a check of their own, because a promotion is never taken back. A torn file is excepted in
`FileOfOneMachine`: no run gets past loading it. Of the two
commands the repository documents, `rap` (`tools/cmd/register-tee/main.go:21`) and `rRap`
(`scripts/post-build.sh:161`), both meet both; the flag accepts others.

**Extension set-up** (`ExtensionSetupProofs`), from `SetupAssumption`: `TypeOK`, `CompleteWhenWritten`,
`SentToOwn` and `CleanReportBinds`, for any number of runs, faults, senders and foreign extensions.
`IInv` says for every stage of the scripts what the registry already holds for the extension in hand,
that without repairs by hand the operator has at most one extension per sender (`OneEach`: each
registration is for a sender deployed for it), and that what file, binding and node refer to exists and
is of that sender. Strangers may register any sender at any time, so which extension a contract is bound
to is a matter of order: it is the first that names it, and stays so (`BoundFirst`). Whoever registers
after the operator diverts nothing; who registered before is the exception `Taken`.
`CleanReportBinds` also holds after repairs: check R7 counts the extensions of the sender, so a report
without a warning leaves `setExtensionId` a single one to find, or one whose query R7 passed over.

**verify-deploy** (`ExtensionSetupProofs`), from `VerifyAssumption`, which says what files, registries
and failing queries look like: `VerifyTypeOK`, `AllClear`, `NoFalseAlarm` and `OneVerdict`. The run has
a few hundred deployments; the proofs are for any, with any number of extensions and any combination
of failing queries. A run keeps nothing, so the invariant only says that what is on the screen is the
outcome of a run on what the operator looks at (`OfARun`); the rest is an argument about the checks,
one after the other: a failure in one result is a failure of the report, a skipped check is one whose
precondition another check has already failed, and each entry of the file is judged alike under every
heading.

**Live test driver** (`RunTestProofs`), from `RunTestAssumption`: `TypeOK`, `NeverToObsolete`,
`NotWhileUnresolved`, `NothingWhileBanned` and `ReportedIsServed`, for any number of restarts, joins,
runs, kills and lost ids. Machines are numbered by the starts of the process, and one that is not in
the set has been sent nothing and serves nothing (`Registry`). The machine of `/info` stays in the set
while the tool runs; past the gate everything that has joined since is newer or another owner's, and
the process that serves is not banned (`Chosen`). `Newer` is the heart of it: during a restore, a
process that started after `/info` was read has been sent at most that restore, which it cannot read, and
so serves nothing. It makes a mistaken ban harmless, and a count of one a count on the machine that
answered. The gate sees only the last restore id the operator knows of; `InTurn` and `Before` say why
that is enough: printed restores went to machines in order of their starts, only the last may have gone
to another owner's, and of those to one machine only the last may be unanswered. `CacheHolds` says that
the running process serves what it accepted, so that a count of one policy after an accepted restore is
a count of that policy.

**Only model-checked**: liveness under fairness (`FullyReleased`, `EveryRequestEnds`,
`EventuallyConcluded`, `EventuallyGuarded`, `EventuallyInProduction`, `ResumesUnlessDead`,
`EventuallyServed`, `EventuallyRestored`), which is out of the prover's reach. Every invariant and
every other action property a run checks is proved.

## 5. Not modelled, and the plan

* Whole protocol with all details: `PaymentFlow` composes page, manager and extension as atomic
  handlers. Several rules, cooldowns, lost acknowledgements and a relay by a third party are only in
  `GuardManager` and `FccExtension`, each against an arbitrary environment. Composing those two is the
  next module.
* The decision codec: a decision is a record on both sides and its domain is checked; that the 352-byte
  encoding is canonical on both sides is planned as a module of pure operators.
* A store shared by two extension processes, calls without a deadline, a connection that failed at
  start-up, a decision about no FXRP unit, a policy that expires before an execution: listed under
  hazards without a property, because the code promises nothing there.
* The read side of the web application beyond what a page knows of its payment, form validation, the
  `audit-*` tools, which compare one recorded deployment with constants, and `recover-phase63-policy`.
* The Python and TypeScript servers, which are alternative scaffolds with a demonstration handler;
  process launchers; one-shot deployment and FDC scripts; container configuration. They keep no state
  of the protocol.
* Cryptography (hashes, signatures, the sealed store record, FDC proofs) is taken as what it promises:
  distinct contents have distinct identities, and a signature names its signer.

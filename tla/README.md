# TLA+ models of QX Chain

QX Chain is a Substrate chain for verifiable AI inference. Three pallets hold its
own logic; a runtime wires them, nodes run it and agree on its blocks, and Python and shell
scripts bootstrap, load and measure it. This directory models the pallets, the runtime,
the nodes and the scripts that load them, checks them with TLC and proves their main
properties with TLAPS. Paths below are
relative to the repository's root, `src/`.

## 1. Inventory

| Component | State | Operations | Talks to | What is hard |
|---|---|---|---|---|
| `pallets/pallet-qx-kilt-permissions` | `WorkerDIDs`, `AccountToDID`, `WorkerCredentials`, `GovernanceDID` | `create_worker_did` (any account), `issue_`, `revoke_worker_credential`, `suspend_worker`, `set_governance_did` (root); `verify_worker_credential`, `get_worker_did` for other pallets | read by pallet-qx-ai through `KiltPermissionsImpl` of the runtime | two maps for one fact, the status kept apart from the credential, time as block numbers that saturate, calls in orders nobody planned |
| `pallets/pallet-qx-ai` | request and result tables, their counters, a bounded queue per worker, reverse map, worker status, model registry | `submit_request`, `submit_inference`, `update_ai_worker_status`, `add_allowed_model` | asks the credential pallet on every call | a request's status and its queue entry are updated separately, an error after three writes, answers out of order and repeated, ids that wrap, workers that lose their credential |
| `pallets/pallet-qx-faucet` | `LastClaim`, `ClaimCount`, the pot's balance | unsigned `claim`, `fund_faucet`, `validate_unsigned`, `can_claim`, `remaining_claims` | `pallet_balances`, the transaction pool | a claim is validated on one state and dispatched on another, claims race for the pot, the pot has an existential deposit |
| `runtime/src/lib.rs` | the composed storage; nonces, balances, issuance and sudo key of the FRAME pallets | configuration, `SignedExtra`, `KiltPermissionsImpl`, runtime APIs, genesis presets | all of the above | free calls, failed calls that keep fee and nonce, accounts that are removed with their nonce and created again |
| `node/src/service.rs`, `rpc.rs` | the running tasks, the database | `new_partial`, `new_full` | Substrate client, pool, Aura, GRANDPA, other nodes | a start that fails half-way, essential tasks that take the node down, forks, finality with few validators |
| `node/src/{command,cli,main}.rs`, `chain_spec/` | the same database | `revert`, `import-blocks`, `purge-chain`, the inspecting commands, genesis constants | the node's database, before, after or while it runs | two specifications with one directory, a purge under a running node, a revert of final blocks |
| `scripts/bootstrap_ai_workers.py` | none of its own: the chain's | register, credential, set online, per worker | RPC of the node | waits for inclusion, not for finality or success; is run again over its own results |
| `scripts/inject_transactions.py`, `measure_tx_power.py`, `monte_carlo_power.py` | local nonces, counters, child processes | inject, wait for the pool, start, stop and reset the chain | RPC, processes, RAPL counters | nonce gaps after a failed submission, ignored timeouts, counters that wrap |
| `scripts/l2_workload_emulator.py` | a schedule | submit a workload | RPC | - |
| `scripts/analyze_mc_results.py`, `power_results/scripts` | none | statistics, plots | files | - |
| `scripts/localnet.sh`, `kill_all.sh` | processes, ports, `/tmp/alice`, `/tmp/bob`, `specs/localnet.json` | build, purge, start two nodes; stop everything | each other and `monte_carlo_power.py`, through the machine | no locks between them, no `set -e`, signals that take time |
| `scripts/generate_keys.sh`, `build_all_chainspecs.sh`, `docker_entrypoint.sh` | key files | derive keys, build specs, start a container's node | host | - |

What makes each part correct:

* credentials: a suspended, expired or revoked worker fails the check until time or root
  says otherwise, and only then; the two maps of workers agree.
* inference: a queue lists exactly the open requests of its worker in their order;
  each request is answered at most once, by its worker; history is final; a worker
  without a valid credential can neither receive nor answer.
* faucet: nobody is paid more often or sooner than the limits say; the pot accounts for
  every unit; what is admitted is still valid when it runs.
* runtime: an extrinsic takes effect once, in the order of the nonces; what it costs does
  not depend on whether it succeeds; the issuance is what the accounts hold; somebody
  without an account can get one.
* nodes: no two validators finalize chains that exclude each other; what is final on a disk
  stays there; a validator that lost a part of itself stops; finality follows once the
  validators reach each other.
* load and measurement scripts: what a script reports as submitted is its own transaction,
  in the pool for good, wherever no submission was lost before it; a row of the measurement stands for exactly the transactions of
  its run; every wait ends.
* bootstrap: after a complete run the workers it set up can serve, whatever ran before or
  at the same time.

The hazards behind these are listed in `PROJECT.json`, each at its line.

## 2. Modules

```
KiltPermissions --- SuspensionEvents            InferenceService (abstract)
      |  EXTENDS                                      ^  INSTANCE Service
      +--- QxAi --------------------------------------+
             |  EXTENDS
             +--- BootstrapWorkers

QxFaucet --- QxRuntime ..... ChainSpec --- Consensus --- NodeService
            EXTENDS  INSTANCE          EXTENDS     EXTENDS

TxPool --- TxInjection
   +------ MeasureTxPower
```

Each `<Module>_proofs` holds the theorems about a module, each `MC<Module>` the constants
of its TLC runs; the faucet alone and the faucet in the runtime share `QxRuntime_proofs`.
`PROJECT.json` maps every definition to the lines it models.

A dispatched extrinsic runs in a storage transaction, so each call of a pallet is one
action whose guard is the conjunction of its `ensure!`s; a call that fails changes nothing
and is a stuttering step. The scripts are not atomic: each RPC and each process or file
operation is a step of its own, and another actor may run between any two.

An operator named after another with a suffix (`create_worker_did_again`,
`revert_past_finality`) is a plausible slip in that piece of code. No specification uses
it; it is kept next to the real one to show that a property tells them apart.

**KiltPermissions** - `pallets/pallet-qx-kilt-permissions/src/lib.rs`. The four storage
items with the names of the code, the five calls, `verify_worker_credential`,
`get_worker_did` and `suspend_worker_credential`. The block number is `frame_system`'s
(external); sums saturate at `MaxBlockNumber` as `BlockNumber` does. Names, model
lists and registration blocks are left out, since nothing reads them. **SuspensionEvents**
adds an observer that remembers the last `WorkerSuspended` event of each DID, for
properties about what the event promises.

**QxAi** - `pallets/pallet-qx-ai/src/lib.rs` over `KiltPermissions`, joined as
`KiltPermissionsImpl` does in `runtime/src/lib.rs:314`. Its `Next` is a call of either
pallet or the next block. Ids are taken modulo `IdModulus` (2^32 in the code).
**InferenceService** is what the pallet promises to its callers: requests that are open,
then answered once by their worker, each worker with at most `MaxQueueSize` of them,
answered in any order. `QxAi!ServiceSpec` is that specification under a refinement mapping.

**QxFaucet** - `pallets/pallet-qx-faucet/src/lib.rs`. A claim is validated by
`validate_unsigned` when it enters the pool, may wait there up to its longevity, is
validated again before the dispatch (`pre_dispatch`, by the default of
`ValidateUnsigned`) and runs. `transfer_succeeds` is the external `Currency::transfer`
with `KeepAlive`.

**QxRuntime** - `runtime/src/lib.rs` over `QxFaucet`. `apply_signed` is one signed extrinsic
with any nonce on its way through `SignedExtra`: `CheckNonce` (which an account without balance cannot
pass), the fee, the call, the correction of the fee for a call of sudo, and the removal of
every account with less than the existential deposit left. A call that fails is an extrinsic
like any other: `dispatched` then only takes the fee. Faucet claims enter through
`include` of `QxFaucet`, unsigned. Calls of the other two pallets are told apart by what
they cost, since no balance depends on their outcome. Those of `pallet_balances` and the ones that
root forces through `pallet_sudo` (`force_transfer`, `force_set_balance`, `sudo_as`) may
leave any of two accounts below the deposit and remove it, the pot's too (`moves`, `enough`, `moved_by`,
`destroyed`); `set_key` hands the sudo key on. A wrapped call of the key gets its fee back
(`refunded`), of anybody else it fails. It starts from any of the genesis
states of **ChainSpec** - `node/src/chain_spec/` and the presets of the runtime - whose
amounts are a few classes in the order of the code's constants. `life` and `ran` are
history: `ran` has the nonces the extrinsics were signed with, each with the life of the
account in which it ran.

**NodeService** - `node/src/service.rs` and `command.rs`. `phase` is how far `new_partial`
and `new_full` have come, `tasks` the tasks spawned so far, `store` the database. Each part
of the start is an action, after each of which a `?` may return (`start_fails`). The
commands act on the same `store` while no process has it open, and `purge-chain` also while
one has. A chain is the set of its blocks' slots: one author has one slot, so two chains
of one genesis with the same slots are the same chain. **Consensus** joins nodes with
`ChainSpec`: Aura's slots and authors, block and justification import, and rounds of GRANDPA
(all external, configured by `service.rs` and by the authorities of the genesis). A round is
one step in which a supermajority of connected voters, each within its voting rule and what
it has final, finalizes a chain; a peer that was not in the round imports it later.

**TxPool** (external) - the account nonces and the set of nonces in the pool as
`inject_transactions.py` and its siblings rely on them: a nonce that is stale or taken by a
ready transaction is refused, the future part takes any number of transactions with one
nonce and keeps one of them on promotion, a block takes a gapless run of ready ones.
**TxInjection** - `scripts/inject_transactions.py`, any number of copies. `entered` says whose
transactions the pool took; `author_block` chooses, of several with one nonce, the one that was kept.
That choice is made as late as it can be seen: nothing tells a script which one was dropped. **MeasureTxPower** -
`scripts/measure_tx_power.py`: a run, its waits and its row, and the runs one after the
other. `wait_for_pending_clear` may time out in any state in which it looks.

**BootstrapWorkers** - `scripts/bootstrap_ai_workers.py` over `QxAi`. `Plan` is the list of
calls the script goes through; each is signed (the nonce is read) and submitted in two
steps, may be refused, and the connection may break before or after the inclusion. An
operator with the same sudo key may suspend or revoke in between.

## 3. Runs

| Run | Question | States |
|---|---|---|
| `kilt` | Do credentials, suspensions and the two maps stay right in every order of calls, up to the last block number? | 170,000 |
| `kilt_suspension_noop` | Does an announced suspension always bind? No: finding | |
| `kilt_default_validity` | Does a credential without a period expire, as the comment says? No: finding | |
| `ai` | Are queues, tables and answers right with full queues, answers out of order and workers losing credentials? Does the pallet implement `InferenceService`? | 254,000 |
| `faucet` | Are the limits and the pot right when claims race through the pool? | 307,000 |
| `faucet_keep_alive` | Does an accepted claim pay? No: finding | |
| `injection` | What do copies of the script lose, and do they count what is included? | 42,400 |
| `injection_waits` | Does `--wait` always end? No: finding | |
| `measure` | Is each row exact when its waits did not time out, are rows disjoint, does the script end? | 460,000 |
| `bootstrap` | Does a complete run leave workers that can serve, with two runs and an operator? | 1,150,000 |
| `runtime` | Do nonces, the issuance, the accounts and the pot stay right, whatever is signed, forced by root or claimed? Does somebody without an account get one? | 567,000 |
| `network` | Do validators agree on what is final, keep it, stop when they lose a part of themselves, and go on finalizing? | 135,000 |

Bounds, and why they are enough:

* `kilt`, 2 accounts, 3 DIDs (each account's and the zero default), 4 blocks. Two accounts
  show every confusion between workers, since a call names one; root names DIDs that are
  registered, not yet registered or never (the zero DID, which is also the DID the pallet
  starts with as its governance). Periods are absent, 0 or 2, and blocks reach
  `MaxBlockNumber`, so a sum lapses in its own block, later, and saturates.
* `ai`, 2 workers, 1 customer, 1 model, queues of 2, 3 requests in all, ids
  modulo 4, 2 blocks. Two queued
  requests are the least with an order, the third meets a full queue. `IdModulus` exceeds
  the requests, as 2^32 does.
* `faucet`, drip 2, existential deposit 1, cooldown 2, 2 claims each, 5 blocks. The pot
  holds enough for some of the claims and not for all; it goes through every
  distance from the deposit. `LastBlock` lies below `MaxBlockNumber`: what a cooldown
  does at the end of the 2^32 blocks is left out.
* `injection`, 2 copies of 3 transfers, one with `--wait`, and two faults. Three
  transfers of a copy alternate Alice, Bob, Alice: the fault of the first is followed by a
  transaction of the same account. Two faults are what it takes for a nonce to be in the
  pool twice: each copy loses Alice's first transaction and submits her second, and both
  print success. `SuccessIsOwned` says that only a lost submission below leads there;
  without that exception (`LostBelow`) the run finds it violated. `injection_waits` needs
  one fault only.
* `measure`, runs of 2, 1 and 2 transfers, 4 blocks, one fault. A run may inherit transfers of
  the one before it, and the one after that too.
* `bootstrap`, 2 runs, 2 workers, 1 model, one fault (a broken connection or an operator's
  call), 2 blocks.
* `runtime`, 2 accounts, rich, poor or without a balance by the genesis, and the pot;
  existential deposit 2, fee 1, drip 4, 2 signed extrinsics, one removal per account, 3
  blocks, longevity 1. The amounts
  keep the order of the code's: a drip pays for an account and a fee, a transfer can
  spend an account to dust, and the pot's endowment is no whole number of drips. Two
  extrinsics are enough for an account to be emptied by what it signs, to be created again by a
  claim and to sign with the same nonce once more; for the sudo key to be handed on and used
  by the next; and for one account to empty, or fund, the other or the pot. A claim may wait for two blocks,
  be dropped for its age and be submitted again. What an account signs may have
  any nonce up to `MaxNonce`; all but the right one are refused. Three genesis states: a pot and accounts (`localnet`), a pot
  and none of these accounts (`mainnet`), accounts and no pot (`development`).
* `network`, 2 validators, 3 slots, both local specifications, 2 faults or interventions.
  With two validators every round needs both; two faults are enough to part them and to
  purge, revert or restart one. `VotingLag` is 1 where the default voting rule holds back 2
  blocks (and, of a long unfinalized chain, a quarter, which later rounds make up for): so
  3 slots are enough for forks, blocks that may be voted for, and blocks that may not.
  `FailingTasks` leaves out tasks that nothing depends on.

`CHECK_DEADLOCK FALSE` is set where the system ends, in the runs of scripts, which finish,
and in `runtime` and `network`, where nonces or slots run out. In the runs of the pallets
deadlock is checked: root or an account can always make a call.

Fairness. Nothing is assumed of users, operators or faults. A script runs on until it
ends (weak fairness of its next step: a Python process that is not stopped). `injection`
also assumes that blocks are authored, which Aura does as long as the node runs:
without it `--wait` and the pool prove nothing. `measure` assumes
nothing of the chain: its waits have timeouts, and `MeasureEnds`
holds though it stalls. `bootstrap` asks nothing that would need fairness. `runtime` assumes that authors take what
their pool holds and that whoever claims for an account submits the claim again after it
was dropped, which costs nothing; no fairness for signed extrinsics. `network` assumes that a
process that is not stopped goes on with its start and notices the end of an essential
task (`run_node_until_exit` waits for both), that connected nodes exchange blocks, and that
voters that agree on something complete a round. Clocks, operators and faults are free.

### Findings

* `kilt_suspension_noop`: `suspend_worker` for a DID nobody has registered emits
  `WorkerSuspended` and changes no status (`lib.rs:316`); the worker that registers later is
  active.
* `kilt_default_validity`: a credential issued without a validity period never expires.
* `faucet_keep_alive`: `can_claim` and `validate_unsigned` compare the pot with the drip
  only; the transfer keeps the pot alive and fails within the existential deposit of it.
* `injection_waits`: the local nonce advances before the submission, so one failure leaves a
  gap and `--wait` waits for ever for the next transfer of that account.

Seen on the way and not stated as a run:

* `runtime/src/lib.rs:150` defines `FeelessCalls` "to bypass fee payment", and the comment at
  line 164 has `SkipCheckIfFeeless` "allow faucet claims without needing existing balance".
  Nothing uses `FeelessCalls`, no call carries `feeless_if`, and the extension skips
  nothing: claims are free because they are unsigned. `NewcomerServed` holds on that ground.
* "Worker is credentialed, so transaction is free" (`pallet-qx-ai/src/lib.rs:291`): the calls
  are `Pays::No` for anyone, failing ones included, but an account without a balance
  cannot sign one, credential or not.
* `runtime/src/lib.rs:345` says of the pot "This account must be pre-funded in genesis"; the
  presets of the runtime do not fund it (`:687`, `:727`), so on a chain started from a
  preset every claim is refused until somebody funds the pot.
* `chain_spec/mainnet.rs:64` and `:69` both say "1 million QX tokens", of 10^15 and of
  10^18 units; with 12 decimals the first is a thousand.
* `localnet` and `localnet_single` share the id `qxchain_local` (`localnet.rs:30`): started
  over the other's directory, a node goes on with the other's genesis. `FinalityKept` shows
  that nothing is lost by it; nodes of the two do not talk to each other.
* `bootstrap_ai_workers.py:224` does not look at the receipt: a status update that fails in
  its block is printed as "Status updated". No later step depends on it, and
  `CompleteRunServes` holds.
* `inject_transactions.py:66` takes the pool's answer for success. When two copies have lost
  a submission each, both may print success for one nonce, and the pool drops one of the two
  transactions later. The script promises nothing about that, so it is the exception of
  `SuccessIsOwned` and no finding.
* `measure_tx_power.py:121` ignores that the wait for the pool timed out and writes the row
  as if every transfer had been included. `RowsExact` is about runs whose waits cleared.

## 4. Proofs

The theorems hold for any number of accounts, workers, requests, runs, copies and blocks,
under the named assumptions on the constants: `KiltAssumption`, `NoHashCollision` (two
accounts never hash to one DID), `AiAssumption`, `EventAssumption`, `FaucetAssumption`
(which has the accounts finite, as a sum over all of them needs), `InjectionAssumption`,
`MeasureAssumption` (at least one run, of at least one transfer: asked for none, with
`--runs 0`, the script has no row and ends at `results[0]`, `measure_tx_power.py:222`),
`BootstrapAssumption`, `RuntimeAssumption` (a drip pays for an account and a fee; endowments
are none or a deposit) and `NetworkAssumption` (the specifications share an id, hence a
directory). The results about `QxAi` also assume `RequestBound < IdModulus`, that fewer than
2^32 requests are ever made; beyond that the code overwrites request 0.

* **KiltPermissions**. `KiltInv` is the type invariant with `DIDMapsAgree` and
  `CredentialWindow` (no credential is born expired), which together are inductive; that
  each DID has one holder, which the scan in `suspend_worker` relies on, follows from it
  and `NoHashCollision`. On it rest two action properties: within a block no call ends a suspension (`SuspensionIsBinding`), and a dead credential comes back only by a
  re-issue (`RevivalIsReissue`). That an operation keeps `KiltInv` is one lemma per
  operation, for any typed argument (`CreateKeeps`, `IssueKeeps`, ...), so that whatever
  calls the pallet can cite them.
* **SuspensionEvents**. `StatusAsAnnounced`, that whoever held the DID when its suspension
  was last announced still holds it and carries the announced status, is the strengthening
  of `HeldSuspensionBinds`: the verification alone does not say why it fails.
* **QxAi**. `AiInv` joins the type invariant, the tables, exact and ordered queues, and
  `ResultsDense`, that result ids are those below the counter. The counter of
  results must not wrap onto an old result: results are fewer than requests while one is
  open, by a pigeonhole on the map from results to requests (`FewerResults`). `retain` is a function on sequences without
  recursion, and the lemmas `RetainMiss` and `RetainHit` say what it returns. `KiltInContext`
  shows that the composed system refines `KiltSpec`, so the theorems on credentials hold in
  it. `PalletsImplementService` is the refinement of `InferenceService`.
* **QxFaucet**. `FaucetInv` adds `ClaimsRecorded`: `ClaimCount` is the length of the observed
  history of payments, `LastClaim` bounds its times, and any two lie a cooldown apart. The
  limits follow from it. A claim in the pool may be invalid,
  one that is dispatched never is (`ChecksNeverFailInBlock`), and the pot survives
  (`PotIsNeverReaped`). `PotAccountsForAll` adds the ledger of the pot, a sum over all
  accounts: see below for sums.
* **MeasureTxPower**. `MeasureInv` describes the pool between the steps of a run: while the
  script lives, the pooled nonces of each account are the ones after its on-chain nonce
  without a gap (`PoolGapless`), so what was sent and not yet included is what the pool
  holds; the blocks so far count what the chain included (`Counted(height) = included`); and
  if the wait of the run before cleared, a run starts from a chain that has included all
  that was sent, so the two local nonces are right. A wait that clears at a later block
  means that everything sent is below that block, and the row counts exactly the difference
  of two totals (`RangeTotal`). Rows are disjoint because a run reads its first
  block after the one before it has read its last (`RowsBefore`).
* **BootstrapWorkers**. `PlanShape` and the lemmas after it say which call stands where in
  the concatenated plan, for any lists of models and workers: a credential and a status come after the creation of
  their worker, and every worker has all three. `RunInv` keeps, for each call a run
  has behind it about a worker none of whose calls was refused, what the call leaves behind
  (`Effect`): its worker is registered; until an operator steps in there is a credential, and
  the status is online if the worker is active. A credential that was issued stays
  until a revocation, because the script names no validity period (`PalletsInv`). At the end of
  the plan this is `CompletedRunsServe`. `GovernanceInv` is the argument of
  `CredentialsAreGoverned`: the first call of every plan is signed with the sudo key, so a
  run whose nonce was used up by another run finds that run's governance set.
* **TxInjection**. `GapInv` adds `LocalNoncesCovered`: each nonce a copy has counted past, from the
  on-chain one on, is in the pool or was lost by a fault, so that the next one it submits
  opens no gap. `OwnInv` says that what a copy counts or waits for is its own in the pool or in a
  block, and no other copy's, unless a submission below it was lost. The heart of it is
  `SecondIsBehindALoss`: a nonce that is in the pool and is accepted once more is not ready, so
  one below it is missing, and by `GapsAreLosses` that one was lost. They hold for any number of
  copies and of faults, and any schedule.
* **QxRuntime**. `RuntimeInv` is the invariant of the faucet, the types, `OncePerLife`, and
  two strengthenings. `AccountsExist`: a balance is none or at least the deposit, and only an account that has
  one has a nonce. `RanIsPast`: whatever an account ran has an earlier life than its next
  extrinsic, or the same life and a lower nonce; `OncePerLife` follows for the extrinsic that runs next, because
  `CheckNonce` lets only that one pass. `After` shows that no signed extrinsic overdraws an
  account or leaves one below the deposit, whatever it moves; `ClaimStepInv`, proved with the faucet,
  covers unsigned claims. `LimitsInContext` is the faucet's limit in a runtime in which
  accounts are removed and created again: the faucet does not forget them.
  `ChecksHoldInContext` is its promise about admitted claims there. The promise that the pot survives
  (`PotIsNeverReaped`) holds of the faucet alone: root can remove the pot.
  `PotIsGuarded` says what is left of it in the runtime, and that nobody but root gets
  anything out of the pot except by a recorded claim.
  `IssuanceIsHeld` follows the total issuance through fees, dust, burns, forced balances, refunds and removals: each
  part of a step changes the balances of at most two accounts, and the sum by as much as the issuance.
* **Consensus**. `NetworkInv` is the type invariant with the soundness of the databases. The
  heart of `FinalityInv` is `DecisionsHeld`: behind each decision stands a supermajority,
  and every member of it that was never purged has the decided chain below its finalized
  one. A new round has a supermajority too; the two share a member that was not purged
  (`QuorumsMeet`, counting), whose finalized chain extends the one decision and is
  comparable with the other (`PrefixesAgree`): hence `DecisionsAgree`. That no step but a
  purge takes back what is final (`FinalityIsKept`) is proved once and used for both. All of
  it holds for any specifications under one id, any number of nodes, validators and slots,
  and any `VotingLag`.

Sums and counts. `SumFunctionOnSet` and the total of a range of blocks are recursive
functions of the community modules. That such a function exists and obeys its equation is
proved for the sum at hand (`SumsExist`, `TotalsExist`), by an induction that goes up the
natural numbers: a set of them that contains whatever all smaller numbers allow is all of
them (`CountingUp`, from the well-foundedness of `<` on them). Two more inductions of that form say how a sum
over a finite set changes with one value (`SumChange`) and that a total splits at a block
(`RangeTotal`, `CountedAfterAppend`); the theorems need no other.

Only model-checked: the properties that say something will happen, `CountedIsIncluded`,
`InjectorsEnd`, `MeasureEnds`, `NewcomerServed`, `EssentialFailureStops` and
`FinalityFollows`, since the prover has neither fairness nor ENABLED; and the four findings,
which are counterexamples. Every invariant and every action property of the runs is also a
theorem.

## 5. Not modelled

* Consensus inside: prevotes and precommits (a round is one step, so nothing happens while one
  is under way: that is finality-grandpa's own protocol), the state a voter keeps next to the
  blocks, which `revert` leaves as it is (`command.rs:110` passes no auxiliary revert), equivocation (no validator signs for two forks;
  the runtime has no equivocation reports), changes of the authorities (the runtime has none
  after genesis), skewed clocks, keys inserted over RPC, warp sync, specifications from files.
* In the runtime: the root calls that rewrite storage, code or the issuance at will
  (`set_storage`, `kill_storage`, `set_code`, `force_adjust_total_issuance`) and `remove_key` of
  `pallet_sudo`, after which nothing more is forced; holds, locks and reserves, which no pallet
  places; eras and mortality, weights and the limits of a block, tips, session keys,
  metadata, benchmarks.
* Energy readings and statistics: floats. The wrap of the RAPL counter
  (`measure_tx_power.py:134`) is a property of the machine. `inject_ai_requests` is never
  called.
* Copies of `inject_transactions.py` with different `--amount`: the shorter encoding may have
  the higher priority and replace a ready transaction.
* Re-organisations as the scripts see them: they read the best block of a local chain.
* `monte_carlo_power.py`, which repeats a measured run around restarts of a node, and
  `l2_workload_emulator.py`, which draws its parameters; `--check` of the bootstrap, which
  only prints.
* `localnet.sh`, `kill_all.sh`, key, container and build scripts: tooling of one machine,
  outside the chain. Plots, generated chain specifications, build files.
* Requests queued for a worker that lost its credential for good stay queued
  (`pallet-qx-ai/src/lib.rs:310`). No call reassigns or fails them and no text promises it,
  so there is no property; `InertWhileInvalid` says exactly that nothing moves.

## 6. Plan

Done, in this order: credentials, inference, faucet, injection, measurement, bootstrap;
theorems about the first four; chain specifications, nodes and consensus; the runtime around
the faucet; theorems about both; theorems about the scripts, and about sums.

What would come next:

1. The properties of steps, `SuspensionIsBinding` and `RevivalIsReissue`, in the context of
   `BootstrapWorkers`, and the promises of the pool that both other scripts rely on, stated
   once for `TxPool`.
2. An abstract ledger that `QxRuntime` implements, and an abstract agreement for `Consensus`.
3. `BootstrapWorkers` over `QxRuntime`, with the fee of each signer.
4. Equivocating validators in `Consensus`, less than a third of them.
5. The container entry point: base path and keystore of a validator that is moved.

# Verification of oasis-core

TLA+ models of the consensus applications, of the ABCI multiplexer under them
and of the workers of a node beside them, checked with TLC on small instances
and, for most of them, proved with TLAPS for every value of their constants.
This document is the inventory of the system, the map from modules to code, what
every check and every proof shows, and what is left out.

## The system

An Oasis network consists of a consensus layer and of runtimes. The consensus
layer is a CometBFT chain whose application is an ABCI multiplexer
(`abci/mux.go`) over a fixed list of applications, called in this order in
`BeginBlock` and `EndBlock`: beacon, staking, registry and scheduler,
governance, vault, key manager, roothash, supplementary sanity checks. A
runtime is a deterministic program that an elected committee of nodes executes
off-chain, round by round; the nodes commit to their results in consensus
transactions and the roothash application decides which result becomes the next
block of the runtime. Every node runs workers beside consensus that follow the
chain: one registers the node, one executes batches, one stores the state of
runtimes, and on some nodes one keeps the secrets of the key manager.

| component | state | operations | interacts with | what makes it correct |
|---|---|---|---|---|
| roothash: commitment pool (`roothash/api/commitment`) | votes and scheduler commitments per rank, highest rank, discrepancy flag | verify, add, process commitments | held in the runtime state | a result is accepted only with a quorum, votes in any order |
| roothash: round state machine (`apps/roothash`) | last block, committee, pool, liveness statistics, timeout queue, incoming messages | `executorCommit`, `submitMsg`, committee change, finalization, timeouts | scheduler, registry, staking, compute nodes | rounds are decided in time, only valid results are finalized, EndBlock never fails |
| roothash: records of past rounds (`apps/roothash/state`) | roots of past rounds, equivocation evidence | storing and shrinking roots, `submitEvidence`, expiry, `changeParameters` | governance, registry, staking | gapless bounded history, one punishment per offence |
| roothash: liveness, slashing (`apps/roothash/{liveness,slashing}.go`) | fault counters, suspensions, freezes | `processLivenessStatistics`, slashing and rewards | registry, scheduler, staking | suspensions are served, slashed funds go where they should |
| staking (`apps/staking`) | accounts, escrow and debonding pools, delegations, common pool, fees, deposits, commission schedules | transfers, escrow, debonding, allowances, rewards, fees, slashing, amendments | every other application | tokens are conserved, shares are backed, blocks never fail |
| registry (`apps/registry`) | entities, nodes, runtimes, claims, key map, node status | register, deregister, expire, suspend, resume | staking claims, roothash, scheduler | derived records match the registrations |
| scheduler (`apps/scheduler`) | committees, validators | elections, validator updates | beacon, stake, registry, CometBFT | limits, stake order, agreement with CometBFT |
| beacon (`apps/beacon`) | epoch, scheduled transition, VRF state | proofs, epoch transitions | registry (keys), scheduler (elections) | nobody chooses a key after the lottery's input is known; epochs come on time |
| governance (`apps/governance`) | proposals, votes, deposits, pending upgrades | submit, vote, close, execute | parameters, staking, upgrade manager | tallies follow delegators, deposits match, outcomes are final |
| vault (`apps/vault`) | vaults, pending actions, withdrawal state | authorize, cancel, withdraw | staking hooks | thresholds, nonces, withdrawal limits |
| ABCI multiplexer (`abci`) | canonical state, cached proposal, versions on disk | proposals, blocks, commit, prune, replay | CometBFT, all applications | decided blocks are applied once, in order, whatever was executed ahead |
| upgrade manager (`upgrade`) | descriptors and stages, in memory and in a store | submit, startup and consensus upgrade, restart | governance, multiplexer | approved upgrades migrate the state once |
| executor worker (`worker/compute/executor`) | state of the round, proposal queue, goroutine, channel | proposals, scheduling, execution, commitments | P2P, transaction pool, roothash | one commitment per rank, in turn, nothing blocks |
| storage worker and runtime history (`worker/storage`, `runtime/history`) | indexed blocks, rounds being fetched, applied and finalized, pruning | index, fetch, apply, finalize, checkpoint sync, prune, start | peers, consensus, node database | what is reported as synced is there |
| node database (`storage/mkvs/db/pathbadger`) | finalized and pending nodes, root keys, metadata | batches, finalize, prune, multipart insert | storage worker | finalized roots can be read in full |
| registration worker (`worker/registration`) | role providers, channels, loop | set availability, register, retry, deregister | consensus, other workers | roles are registered as set, callbacks once |
| key manager (`apps/keymanager`, `worker/keymanager`, `keymanager/src`) | statuses, tasks, enclaves, sealed secrets | applications, handoffs, rotation, replication, restarts | registry, enclaves of other nodes | committees keep their secrets |

### What is hard here

- *Interleavings.* Commitments of many nodes for competing schedulers act on one
  runtime state; goroutines of a worker answer while the round they worked for
  is over; proposals are executed before anything is decided.
- *Timers.* The round timeout is stored twice and re-armed from three places.
- *Failure paths.* A failing EndBlock stops every validator, so what it assumes
  of the state has to hold always. A failed transaction keeps what it wrote
  unless its handler opened a transaction context.
- *Crashes and restarts* between two writes, in particular of two stores
  (state and upgrade descriptors, history and node database, enclave and disk),
  and power failures that take back what was not synced.
- *Byzantine nodes*, which sign anything, and peers that answer wrongly or never.
- *Stale state*: parameters that change under the data they bound, results kept
  for a block that is not the one decided, hooks read before they are used.
- *Unsigned arithmetic* at its edges.

`PROJECT.json` lists the hazards at their lines, with the properties that cover
each one.

## Modules

| module | models | code |
|---|---|---|
| `CommitmentPool`, `RootHash` | the pool of one round as operators; the state machine of one runtime over consensus blocks | `roothash/api/commitment`, `scheduler/api`, `apps/roothash` |
| `RoundRecords` | past roots, evidence and their parameters | `apps/roothash/state`, `transactions.go`, `messages.go` |
| `NodeLiveness` | fault counters, suspension and freeze of one node | `apps/roothash/liveness.go`, `registry/api/status.go` |
| `SharePool`, `Staking`, `CommissionSchedule` | the ledger of tokens; commission schedules | `apps/staking`, `staking/api`, `apps/roothash/slashing.go` |
| `Registry` | registrations, claims, keys, expiration, suspension | `apps/registry` |
| `Scheduler` | validator and committee elections | `apps/scheduler` |
| `Beacon` | epochs and the VRF lottery, with the registration of keys and the election filter | `apps/beacon`, `apps/registry`, `registry/api/status.go`, `apps/scheduler` |
| `Governance` | proposals, votes, tallies, pending upgrades | `apps/governance`, `governance/api` |
| `Vault` | one vault and its withdraw hook | `apps/vault`, `vault/api` |
| `ABCIMux`, `Ledger` | execution of proposals and blocks, commit, pruning, crashes; what a replicated ledger promises | `consensus/cometbft/abci` |
| `Upgrade` | one node on its way through upgrades | `upgrade`, `abci`, `apps/governance` |
| `Executor` | the round worker of a compute node | `worker/compute/executor/committee` |
| `StorageSync` | block indexer, runtime history, storage worker, pruners | `worker/storage/committee`, `runtime/history` |
| `NodeDB` | the default node database | `storage/mkvs/db/pathbadger` |
| `Registration` | the registration worker | `worker/registration` |
| `Churp`, `KMSecrets` | consensus status, worker and enclave of the two kinds of key manager | `apps/keymanager`, `keymanager`, `worker/keymanager`, `keymanager/src` |
| `MCRootHash`, `MCRoundRecords`, `MCEconomy`, `MCConsensus`, `MCNode`, `MCLive` | the instances that TLC checks | |
| `SumTheorems` | sums over finite sets, and the induction principles they rest on | |
| `RootHash_proofs`, `RoundRecords_proofs`, `ABCIMux_proofs`, `Beacon_proofs`, `Registration_proofs`, `Executor_proofs`, `Economy_proofs` | lemmas and theorems: each of the component it extends and, further down, of the components it instantiates | |

State and actions carry the names of the code. A handler that succeeds is one
action, an early return is a guard; what a handler calls (retries, sorting,
pruning, saving) is part of it. Steps are split where the code can be
interrupted: at channel operations and goroutines of workers, at calls of the
ABCI, and between writes of a process that may crash. Each module begins with
what it abstracts; the choices that carry weight are these.

**CommitmentPool and RootHash.** `SchedulerCommitments` is two total functions
over ranks; a rank without votes is an absent entry, which is sound because the
code creates an entry only to put a vote into it and deletes only whole entries.
`VerifyExecutorCommitment` is reduced to the checks that depend on the state of
the protocol; signatures, attestations and limits decide only which commitments
exist. The loop of `processCommitments` is a condition on the complete counts,
which only grow in the loop. EndBlock is the composition the code has:
`TryFinalizeRounds`, then `ProcessRoundTimeouts`, each through
`TryFinalizeRound` with its retry after a discrepancy. Faulty nodes sign
anything; honest ones sign valid roots computed from the head of the message
queue, or a failure. Block hashes are the round, bodies of messages their
number.

**RoundRecords.** Blocks of all kinds come in any order. Integers wrap at
`Modulus`. `chain`, `punished` and `raised` are history variables.

**ABCIMux.** The state of the applications is the trace of what was executed
(system handlers, transactions, end of block), which tells apart every order and
repetition. One proposal is kept with its results, as in the code; a crash loses
memory, a power failure also the versions that were not synced, and CometBFT
replays what it has decided. The pruner reads the earliest version when it first
runs after a start (`known`) and lets blocks go by it before it syncs;
`exposed` remembers that this version was not durable. `Ledger` is the abstract specification: decide,
apply, make durable, lose what is not durable.

**Beacon.** The alpha of an epoch is fixed when the epoch begins; `keyEpoch`
records when a node's key became known, so that "the key was fixed before alpha
was known" can be said. The outcome of the lottery is a choice.

**Executor.** A proposal is its round, the rank of its scheduler and the shape
of its batch (transactions, bytes, whether its I/O root is right, whether it
builds on the last block). The select of the round worker takes any case that is
ready. `CommitmentPool`'s promise that honest nodes sign what they computed is
what this worker is for.

**Registration.** A version of a role provider stands for the hook it was set
with. Notifications are flags, as the channels of the code have one slot.

**StorageSync and NodeDB.** Hashes are numbers or trees, 0 is the empty root.
Bad answers of peers are caught by the check of the root and cost an attempt.
Setting up the genesis state and filling in rounds without changes are one step
for each version that is applied and finalized, with a crash between any two;
filling in goes on to checkpoint sync, as the code does. In NodeDB every
operation holds the lock, but its writes are separate stages between which the
process may crash. A multipart insert takes its root of each type from the first
batch that is committed, of chunks or not, and a batch for a root that exists
already only goes through the checks.

**Churp and KMSecrets.** A polynomial is the set of dealers whose polynomials
are summed in it, a checksum the sequence of what was hashed. In KMSecrets the
notification of an epoch is atomic with its change, the goroutine that generates
a secret runs at its block, and nodes that restart are those in `Faulty`; each
policy has its own rotation interval. In Churp an attempt to apply makes a new
dealer, and may be repeated while the transaction of the last one is on its way;
`replaced` are the checksums of the dealers that were given up.

**Staking, Governance, Scheduler, Registry, Vault, Upgrade, NodeLiveness.**
Amounts are small numbers with the code's rounding; a failed transaction changes
nothing (they open transaction contexts or check first); what another
application decides is a choice among what it may decide. Parameters that
governance may change in a way that matters (the weights of fees, the distance
of upgrades, limits and ages) do change. An action of a vault replaces either
authority or both; a message that it executes is reduced to the tokens that it
takes out. `lost` of Registry are the keys that an update of a node has removed
from the key map although the node still uses them. NodeLiveness evaluates a
node at every election, that of an epoch and the one that follows a slash
(`Reelection`). In Upgrade a node executes blocks that are proposed and not
decided: `tried` are their outcomes, `strays` the upgrades that the persistent
upgrade manager got to know, or forgot, in this way. Scheduler states an
election by what it may elect: the shuffles and the sort by stake are an order
of the nodes or entities, and who is elected is who has few enough of the others
before it in that order, which is what the loops of the code with their counters
and early exits find. Governance closes all proposals that are due in one block,
in the order of their keys, each on the state that the one before it left.

## How the instances are put together

A run that checks several components is a *suite*: the module `MC...` EXTENDS
one component, whose constants the .cfg gives, and INSTANCEs the others with
constants of their own. The variable `part` says which instance a behaviour is
of; the variables of the others do not change. So a run asks the same question
of several small instances, each with the bounds that its question needs. The
comment above an instance says what happens in it.

## Runs

| run | instances | what it shows |
|---|---|---|
| `roothash` | resolution: 4 nodes, two of them faulty, a worker that is a backup worker too, 2 rounds, 6 heights; timing: two committees, one without backup workers, 10 heights; messages: a queue of 2, results with wrong counts and hashes | SchedulerCommitmentBacked, RootValid, SafeFinalization, DecidedInTime, MessagesInOrder, StatsBalanced |
| `round_records` | roots: limits 0 to 3, rounds 1 to 4; evidence: ages 0, 1 and 5 with integers modulo 8, so that sums wrap | PastRootsWindow, RootsKept, PunishedOnce |
| `economy` | escrow, fees, slash: two accounts with each of the three kinds of flows, and weights of fees that governance changes; fullCommission: entities that keep all rewards; commission: amendments of two steps over three epochs; authority: a two-of-two admin and a suspend authority, either or both of which are replaced; withdraw: policies that change between withdrawals; registering: two roles, a failure and a crash | TokensConserved, FailuresExplained, DelegatorsTreatedFairly, CommissionPromiseKept, VaultGuarded, RegistrationRight |
| `consensus` | stake, expiration, keys: registrations of two entities or nodes; movedKeys: keys that change their roles; limits, elections: three nodes; tally, proposing: two validators and a delegator, or one that decides and raises or lowers the distance of upgrades; faults: a node of two runtimes with elections in the middle of an epoch; wrapping: a counter of two bits; mux: own, foreign and panicking proposals over 3 heights; pruning: enough heights to prune, crash and prune again; crashes, progress: two upgrades, up to three binaries, and proposals that are executed but not decided | RegistryExact, ElectionsRight, GovernanceRight, AccountabilityKept, ExecutionRight, ImplementsLedger, UpgradesRight |
| `node` | storage, oldNetwork, fillIn, checkpoints, restore; candidates, pruned, ioRoots, multipart; dealing, retrying (repeated applications), changing, degree, updating; rotating, rarer and stopped (policies that change the rotation interval), joining, replicating, majority, ephemeral, policy; executing, resolving, bothRoles | SyncRight, DatabaseComplete, HandoffsRight, MasterSecretsKept, RotationsRight, CommitmentsRight, RolesRight |
| `live` | catchUp, timekeeping, progress, answering, leaving | SyncsUp, EpochsAdvance, ReachesEnd, ProposalsAnswered, RegistrationFollows; BeaconUnbiased |

Every suite checks the types of its parts too (`TypeOK`, `Typed`). A property of
a suite is a conjunction over parts of properties of the components; the comment
above it says what it means in the code, those in the component's module say
what each conjunct means.

The bounds are chosen so that the cases that matter happen: a backup scheduler
is overtaken and disputed; a deadline lies inside the heights; sums wrap; a
limit is both reached and changed; a proposal is executed, dropped, and decided
after all; there is at least one crash or fault for each place where one is
handled, and each property has a mutant in `PROJECT.json` (a definition named
`...Mutant`, a plausible bug in one mapped definition) that violates it within
the same bounds. Deadlock is not checked since the bounds end every behaviour;
what would be a deadlock of the code is stated as a property (NeverBlocks,
HandoffNeverStuck, DecidedInTime and the liveness properties).

### Findings

Six runs expect a violation; `PROJECT.json` quotes the lines they contradict.

1. `unpunished_evidence`: evidence is stored before the node is looked up. A
   transaction that fails because the node is unknown leaves the evidence
   stored, and the same evidence is refused later as a duplicate.
2. `full_commission`: an entity with a commission of 100% whose escrow was
   slashed to nothing makes the distribution of slashed funds, and with it
   EndBlock, fail.
3. `swapped_keys`: a node that moves a key from one role to another loses it
   from the key map, and another node can register it.
4. `fill_in_crash`: a node that crashes while it fills in rounds without changes
   cannot start its storage worker again.
5. `multipart_retry`: an insert that is aborted after a part was restored leaves
   its root node behind, so that the version can be finalized, directly or after
   another insert, although nodes of its root are missing.
6. `heavy_batches`: bytes of transactions that arrive late are added to a copy
   of the state, so a worker commits to a batch that is too large.

### Fairness

Only `live` assumes fairness, for what the code or its surroundings do without
end:

- Beacon: weak fairness of BeginBlock, CometBFT keeps producing blocks;
- Upgrade: weak fairness of executing and committing blocks, strong fairness of
  the operator's restart with each binary (binaries alternate, so that weak
  fairness would promise nothing);
- StorageSync: weak fairness of the indexer, of the worker's loop, of a restart
  after a crash, and of good answers (the worker asks peers again until one is
  right; bad answers are bounded by `MaxFaults`);
- Executor: weak fairness of the cases of the round worker's select that are
  ready, of its goroutine, and of the arrival of missing transactions. Go's
  select chooses among ready cases at random, so that none is passed over for
  ever;
- Registration: weak fairness of the loop, of new epochs, of a restart, and of
  the node shutting down once the worker says it may.

The deadline of a round (DecidedInTime) needs no fairness: it counts consensus
heights. It says nothing of rounds in which no scheduler has committed: the code
gives schedulers unlimited time (`finalization.go`) and only an epoch change
ends such a round.

## Proofs

Every theorem holds for every value of the constants that satisfies the
assumptions below: the bounds of the models (`MaxRound`, `MaxFaults`, ...) are
constants like the others, so a theorem says of behaviours of any length what a
run says of short ones. An inductive invariant `IInv` is shown to hold initially
and to be preserved by each action (one lemma per action), and the properties
are drawn from it.

| module | component | assumptions | theorems |
|---|---|---|---|
| `RootHash_proofs` | RootHash | `PoolAssumption`, `RootHashAssumption`; StatsAlwaysBalanced also `Version261` | every invariant and action property of `roothash`: FinalizationAlwaysSafe, AlwaysDecidedInTime, MessagesAlwaysInOrder, StatsAlwaysBalanced, RootAlwaysValid, SchedulerAlwaysBacked; the others are their parts |
| `RoundRecords_proofs` | RoundRecords | `RecordsAssumption` | PastRootsAlwaysWindow, RootsAlwaysKept, AlwaysPunishedOnce |
| | Governance | `GovernanceAssumption`; GovernanceNeverFails also `StakedValidators`, AlwaysClosedInTime also `VotingTakesTime` | DepositsAlwaysMatch, UpgradesFromProposals, TalliesFollowDelegators, GovernanceNeverFails, OutcomesAlwaysFinal, AlwaysClosedInTime, UpgradesAlwaysApart |
| `ABCIMux_proofs` | ABCIMux | `ABCIMuxAssumption` | AlwaysExecutesRight; Refinement of `Ledger` |
| | KMSecrets | `KMSecretsAssumption` | SecretsAlwaysKept, RotationsAlwaysRight |
| `Beacon_proofs` | Beacon | `BeaconAssumption` | AlwaysUnbiased, TransitionNeverMissed, EpochsOnSchedule |
| | Scheduler | `SchedulerAssumption` | ElectionsAlwaysRight |
| `Registration_proofs` | Registration | `RegistrationAssumption` | AlwaysRegistersRight |
| | Registry | `RegistryAssumption`; RegistryNeverFails also `DebondingInterval # 0` | ClaimsRight, OwnersRight, ExpirationRight, SlashableUntilDebonded, RegistryNeverFails, KeyMapRight, KeysUnique |
| | NodeLiveness | `LivenessAssumption` | AccountabilityAlwaysKept |
| `Executor_proofs` | Executor | `ExecutorAssumption` | AlwaysCommitsRight |
| `Economy_proofs` | Staking, SharePool | `StakingAssumption` | SupplyConserved, SharesAlwaysBacked, SharesNeverDiluted, DebondingAlwaysPaid, OnlySlashedFunds, FailuresAlwaysExplained |
| | Vault | `VaultAssumption` | NeverReused, AlwaysAuthorized, NoncesUsedOnce |

The theorem with the inductive invariant of a component is called Invariance
(GovernanceInvariance, SecretsInvariance, ...), and the types are TypeCorrect or
part of the invariant. The assumptions are types of the parameters, and what the
code checks when it accepts a parameter: an interval, a pruning depth or a queue
limit that is not zero, committees with distinct workers, at least one,
authorities whose threshold can be met. TLC evaluates them for the component
that the module of a run extends; components that are checked as instances with
different constants have them as hypotheses of their theorems, and the module of
the run states them of its instances.

The additional hypotheses name what the code does not ensure by itself, each
with a reason in the runs or under Observations: `Version261` (before it a round
can be charged twice), `StakedValidators` (validators have voting stake, so that a
quorum can be computed), `VotingTakesTime` (no voting period of 0) and a debonding
interval that is not 0.

Where the code itself may reach a case in which the plain promise fails, the
property says what holds instead and the theorem has no hypothesis for it.
FailuresExplained: a block of the staking application fails in two cases only,
which it names. KeyMapExact and SharedKeysLost: the key map is right, and keys
are unique, except for keys that an update of their node has unmapped (`lost`).
PendingUpgradesApart: upgrades are apart by a distance that was in force at some
time, as a distance that is raised is not applied to pending ones.
ReplayPossible: a replay finds its blocks unless the first pruning after a start
went by a version that was not durable (`exposed`). RotationsRight speaks of the
policy that was in force until the rotation.

**Induction, sums and folds.** The library's induction theorems take a predicate,
which the provers cannot instantiate. `SumTheorems` therefore states induction
over a *set* of what has the property (NatSetInduction, SubsetInduction,
FiniteSetInduction), drawn from the well-foundedness of the natural numbers. From it
follow what SumFunctionOnSet computes and how a sum changes with one of its
terms (SumChange), a set that loses an element (SumRemove) and sums of sums
(SumPlus). A fold over a sequence is described by its *trace*, one value for
each position, each made from the one before by the operation; what every step
keeps, the fold keeps. Slashing, rewards, fees, debonding (Staking), the closing
of proposals and the tally (Governance) are folds of this kind.

**RootHash.** `IInv` describes one runtime state: the types; the structure of
the pool (the highest rank is that of the best scheduler commitment, with its
votes and none above it); the timer (what is armed is what is queued, and it is
armed when a scheduler has committed); the queue of messages; that votes of
honest nodes fit the head of the queue; that the root is a valid one and
EndBlock has not failed; and `Timing`, how far the heights may be when a round is
still open. None of these is inductive alone: that a quorum finalizes a valid
root needs that honest votes are current, that needs the queue to change only
with a block, and that EndBlock cannot fail needs the structure of the pool.
`TryFinalizeRoundCases` says once what the finalization code may do, for all of
its callers. The section on the pool proves that rank and position of a
scheduler are inverse to each other modulo the size of the committee, what
adding a commitment keeps, and that a verdict "Finalized" implies a quorum.
StatsBalanced is inductive by itself once `IInv` is known: every path through
finalization that counts a round charges it to exactly one primary scheduler, so
that the sum over the schedulers is the number of rounds since the epoch began.

**RoundRecords.** Stored roots are an interval of rounds that ends at the last
one, has the length the limit allows, and agrees with the chain; evidence that
was punished is stored or too old, unless the age was raised since.
`StoreRootsWindow` and `ShrinkWindow` are the lemmas about the window.

**Governance.** GovernanceInv: proposals are numbered without a gap, the index
of active ones holds each under the epoch it closes at, deposits are those of
active proposals, pending upgrades are those of proposals that passed
(`Orderly`), and each proposal has a ballot. Closing is a trace over the
proposals that are due; each step keeps `Orderly`, and leaves the proposals that
are not due alone. TallyFollowsDelegators compares the loop of the code, which
adds the shares of a validator and takes away those of delegators who voted
themselves, with the sum over delegators; the two are equal since in the loop
what is taken away was added before (`VoteShares`).

**ABCIMux.** StateInv: the canonical state is that of the last commit. ChainInv:
heights, block store and versions on disk. KeptInv: what is kept of a proposal
is nothing or a block of this height executed on the committed state, which is
why reusing it is right. StageInv: how far the decided block is. PruneInv: what
may be gone; the blocks that a replay needs are there, or the first pruning after
a start has let them go. Refinement: under the mapping every step is a step of `Ledger` or
leaves it unchanged; a crash is a loss of what is not durable, a replay repeats
blocks that were decided. The traces are sequences, and the step that compares
the kept results with an execution of the decided block needs that executing is
a function of the state before it.

**KMSecrets.** The checksum of consensus is a chain of one secret per generation
that only grows, later secrets having larger numbers (Chained). An enclave has a
part of this chain and its node has stored the secrets of that part (EnclaveOK);
what is on disk is what consensus has accepted (DiskOK); replication stores what
is missing from above, so that all above the generation at hand is there
(InitOK); a response that is registered is a promise about the disk
(ResponseOK), and one whose next checksum is that of the published secret has
the proposal on disk (NextOK). That promise is what makes a rotation by a
majority of responses safe for every member of the new committee (MemberOK). It
needs that no checksum at a node is that of a secret still to be published
(FreshIn), hence that every secret is made once and that checksums determine
what was hashed. Restarts, crashes and failed requests at any node keep all of
it, a crash between storing a secret and its checksum among them. A rotation is
checked against the interval of the policy in force before the transition, as
the transaction that proposed the secret was.

**Beacon.** A node is eligible only for epochs that begin after one in which its
key was registered already (EligibleLate); a proof is by the registered key, or
the node has changed its key and has to wait (ProvedWithKey); an alpha of high
quality was made from enough proofs (QualityEarned); a transition is always
scheduled, ahead and within one interval (Timed).

**Scheduler.** SchedulerInv: validators that are pending are those of an election
of this block, what CometBFT has is what consensus has, and the committee is
right. The limits are counting arguments about orders: of a set each of whose
elements has fewer than k others before it there are at most k (FewBefore, by its
last element), and if one that could have been taken was not, k are before it.

**Registration.** A callback that waits is that of the last hook (ProvidersOK); an
attempt uses hooks that were set, and its callbacks are of these hooks
(AttemptOK); a callback that was called neither waits nor is part of an attempt
(CalledForgotten); the loop has looked at the providers as they are, or a
notification or an epoch is on its way to it (Announced). Crashes and failed
attempts keep all of them.

**Executor.** Healthy: the state of the round, the goroutine, its channel and the
proposal it works on fit together (so that a result that arrives is expected,
or is drained). Queue: it is bounded and has one proposal for each scheduler of a
round. Turn and InTurn: a batch is executed only when its rank's turn has come.
Votes: one commitment for each rank. BestFirst: when a better proposal than the
batch at hand can be taken up, the round worker has been notified. The state is large, so the lemmas speak of a record `Current`
of it and of each helper of the code once.

**Staking.** StakingInv: types; a sound ledger, in which each pool has exactly
the shares that delegations hold and a pool with shares has a balance whenever
the code divides by it; fees are in the block only while transactions are
delivered; the total is the worth of all accounts and pools, the fees of the block
and those held for the next one; debonding delegations end later than now. Every
operation of the code moves an amount between two of these places, so the lemmas
say of each what it adds to `Worth`. That shares keep their value is the
rounding of SharePool: a deposit gives shares rounded down and a withdrawal
tokens rounded down, so that balance times shares of the others never falls
(NotDiluted). Nothing but a division of kept fees by weights that are all zero
now and were not when the fees were kept, and a deposit of a commission of 100%
into a pool that has shares and no balance, returns an error out of a block
(FailuresExplained).

**Vault.** Only the current nonce has a pending action, and all authorizations
counted in it were given for this action and nonce; authorities stay such that
their threshold can be met, whichever of the two an action replaces, so a vault
cannot lock itself.

**Registry.** What is derived is characterised exactly, element by element
(ClaimsExact, OwnersExact), since "a claim is there when it must be" is needed
for removals and "no other claim is there" for the property. That members of a
committee expire no earlier than this epoch (MembersLast) makes a transition
safe when the debonding interval is not zero; that who served has an expiration
no earlier than the epoch it served in (ServedLast) keeps it registered. An update
sets the keys role by role and removes the old key of each role; a key that moves
to an earlier role is removed after it was set. The key map is right for all keys
but these, as long as no update or registration sets them again; the run
`swapped_keys` shows what happens to them.

**NodeLiveness.** What is left of a suspension and the epochs since the last
evaluation make up the whole of it, also while the counter of failures changes
and wraps, between the evaluations of two runtimes in one election, and when
an election in the middle of an epoch evaluates them again (ServedInv); a node that is not frozen has nothing left of a freeze.

### Only model-checked

- Liveness under fairness (the run `live`): out of the prover's reach. Deadlines
  that count blocks (DecidedInTime, EpochsOnSchedule) are safety and proved.
- Upgrade, StorageSync, NodeDB, Churp and CommissionSchedule have no proofs. The
  properties of StorageSync and NodeDB relate versions in two stores over many
  stages of one operation, those of Churp sets of dealers and a task queue; their
  inductive invariants have not been worked out.
- LimitRespected of Vault, which sums withdrawals over a sliding interval, and
  RunningRuntimesFunded of Registry.
- The invariants of a suite (`Typed`, `TokensConserved`, `RegistryExact`, ...)
  conjoin properties of instances. The theorems state the properties of the
  components, of which the instances are cases; a run checks that the conjunction
  holds of them.

## Observations

Things met while modelling that contradict no line of the repository, or that no
run shows, kept for a reader of the code.

- *Parameters.* Before feature version 26.1 a round that fails on incoming
  messages is charged to schedulers twice (`finalization.go:192`). Raising
  `MaxEvidenceAge` makes evidence acceptable again that was removed as too old
  (PunishedOnce excludes it). A debonding interval of 0 makes BeginBlock fail
  when a member of a committee expires (`registry.go:237`); the theorem
  RegistryNeverFails excludes it. A voting period of 0 leaves proposals active
  for ever (`governance/api/sanity_check.go:26`). `UpgradeMinEpochDiff` can be
  raised without a look at pending upgrades (`governance/messages.go:67`); these
  are then closer than the value in force, which the sanity check refuses
  (`governance/api/sanity_check.go:123`). Fees are divided by the weights in force
  now, not those in force when they were collected: with weights of voters and of
  the next proposer that governance has set to 0 since, BeginBlock divides by
  zero and fails (`staking/fees.go:159`, allowed by
  `staking/api/sanity_check.go:43`).
- *Liveness statistics.* A counter of failures wraps at 256 (`status.go:114`); a
  limit of 0, documented as unlimited, is replaced by 255 (`liveness.go:32`). The election after a slash evaluates
  liveness in the middle of an epoch, over the rounds it has had so far
  (`roothash/messages.go:182`, `scheduler.go:143`).
- *Pruning.* A process that crashes between `ndb.Prune` and `ndb.Sync` leaves an
  earliest version that may not be durable; the next process publishes it as the
  height to retain blocks from before it syncs (`prune.go:127`, against the comment
  at `prune.go:174`). After a power failure then, blocks of the replay are gone.
- *Elections.* `ElectionEligibleAfter` of 0 is eligible although its comment says
  otherwise (`status.go:29`, `:101`). The minimum number of proofs is counted
  before the limit per entity (`shuffle.go:47`). The comment at `roothash.go:237`
  about runtimes without a committee that are not suspended no longer applies.
- *Upgrades.* Executing a proposed block submits a descriptor to the persistent
  upgrade manager, or cancels one, even if another block is decided
  (`governance.go:258`). A node with such a stray upgrade migrates or halts alone;
  OnlyApprovedMigrates names these upgrades as its exception. State
  is written without fsync while the upgrade store is synced (`state.go:660`),
  so a power failure can leave a completed stage without its state
  (`upgrade.go:315`).
- *Storage.* The start check (`worker.go:858`) tests the last synced round, not
  the first to sync, so that a gap of the history after a state sync of
  consensus makes the worker fail (`worker.go:1251`). A failed
  `flushSyncedState` sets the cached round to 0 (`worker.go:1297`).
  `checkCheckpointUsable` uses the mask left by the previous version. In
  pathbadger root keys of losing candidates remain after Finalize, a child of a
  pending root with a sequence number is read through the finalized area, and a
  multipart insert leaves pending entries of the versions it skips.
- *Executor.* After a failed signature the batch stays in processing until the
  round ends or a better rank aborts it. `submitted` is not persisted: after a
  restart within a round a node may commit again. The best proposal, if it
  cannot be taken up, keeps others from being considered. Failed executions are
  retried without delay. Draining the channel after a round may drop events of
  the new round. A goroutine of trust synchronisation that ends while the
  runtime restarts may mark the new runtime as synced (`trust.go`).
- *Registration.* `epoch` of the registration function shadows that of the loop:
  an epoch consumed during retries leaves the loop with an older one, so that a
  later registration expires earlier or is refused until the next epoch. Hooks
  are read once before the retries of the first registration. After a request to
  leave one more registration may follow, as select may take a waiting epoch.
- *CHURP.* `TaskQueue.Cancel` cancels tasks of later handoffs than its comment
  says (`churp.go:1226`). Each attempt to apply creates a new dealer
  (`churp.go:455`). If the submission of one fails and its transaction is included
  nevertheless, or the node crashes in between, consensus has a checksum that the
  enclave no longer knows; it refuses to deal (`handler.rs:1326`) and the handoff
  waits until the next one. DealersKept states that without a crash and without an
  update by the owner nothing else takes a dealer away, HandoffNeverStuck that
  handoffs of other applicants go on. An owner who stops and starts handoffs lets
  an old transaction apply after its dealer was forgotten. A node
  that crashes after it has confirmed loses its reduced share; finalization is
  not retried. The model assumes that it ends before the next epoch.
- *Master secrets.* A crash between storing a secret and its checksum
  (`kdf.rs:414`, `:464`) makes later initialisations fail. A policy that is
  installed in the transition that rotates is not asked about its interval, so that
  a rotation may come sooner than it allows, or although it allows none
  (`status.go:47`, `:208`). A published proposal
  is not loaded again after a restart. Consensus does not check that the
  checksum of a proposal extends the chain.

## Not modelled, and why

- Supplementary sanity checks: they restate invariants of the applications.
- The host of runtimes, enclave RPC, P2P, sentry, remote signer and IAS: I/O
  with processes, hardware and networks; workers model what they may answer.
- The Rust runtime, transaction pool and the arithmetic of secret sharing: the
  executor and key manager models treat them as functions.
- MKVS trees, overlays and proofs, and the badger backend: algorithms on data
  whose properties need induction over trees; `NodeDB` models the store under
  them.
- Test runner, commands, gRPC wrappers, generated code, genesis tools.

Components marked as partly modelled say in `PROJECT.json` what is left out. The
repository is large: the map covers the core logic of the components above,
about a ninth of all lines.

## What is left to do

1. Proofs of StorageSync (the order of indexed, applied and finalized rounds) and
   of NodeDB (a finalized root is complete), then one of both composed.
2. Upgrade: stages only go forward, with the crash between two stores.
3. Churp: the agreement of handoffs, along the lines of KMSecrets.
4. CommissionSchedule, and the withdrawal limit of Vault over a trace of
   withdrawals.

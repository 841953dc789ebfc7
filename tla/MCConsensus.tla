----------------------------- MODULE MCConsensus -----------------------------
(***************************************************************************)
(* Instances of components of the consensus layer: the registry (stake      *)
(* claims, expiration, keys), elections, the liveness records of nodes and  *)
(* the votes of governance, which decide who takes part; and the ABCI       *)
(* multiplexer and the upgrade manager, which carry the chain forward. A    *)
(* behaviour is one of a single part; the variables of the other parts stay *)
(* at their initial values or at 0.                                         *)
(***************************************************************************)
EXTENDS ABCIMux, Integers, Sequences, FiniteSets, TLC

CONSTANT Parts   \* the parts that the run checks

VARIABLES
    part,   \* the part that this behaviour is one of
    registryEpoch, entities, nodes, keyMap, lost, processed, runtimes, suspended,
    owners, claims, balance, registryCommittee, served, registryFailed,
    input, schedulerPending, current, cometbft, schedulerCommittee,
    schedulerFailed,
    governanceEpoch, transition, validators, params, proposals, active, votes,
    governancePending, general, deposits, pool, governanceFailed,
    failures, suspension, frozen, freeze, member, todo, electing, since,
    state, previous, decided, working, upgradePending, store, shouldStop, up,
    binary, crashes, tried, strays, upgradePanicked

registryVars == <<
    registryEpoch, entities, nodes, keyMap, lost, processed, runtimes, suspended,
    owners, claims, balance, registryCommittee, served, registryFailed>>
schedulerVars == <<
    input, schedulerPending, current, cometbft, schedulerCommittee,
    schedulerFailed>>
governanceVars == <<
    governanceEpoch, transition, validators, params, proposals, active, votes,
    governancePending, general, deposits, pool, governanceFailed>>
livenessVars == <<
    failures, suspension, frozen, freeze, member, todo, electing, since>>
upgradeVars == <<
    state, previous, decided, working, upgradePending, store, shouldStop, up,
    binary, crashes, tried, strays, upgradePanicked>>
suiteVars == <<part, registryVars, schedulerVars, governanceVars, livenessVars, upgradeVars, vars>>

\* Block a has a transaction.
NumTxsValue == ("a" :> 1) @@ ("b" :> 0) @@ ("p" :> 0)

\* The subkeys of the descriptors that n1 and n2 may register: always the same
\* ones; keys that change hands but not their role; keys that change roles.
Subkeys(c, ps, vs, ts) == {[consensus |-> c, p2p |-> p, vrf |-> v, tls |-> t] : p \in ps, v \in vs, t \in ts}
FixedKeys == ("n1" :> Subkeys("c1", {"k1"}, {"k2"}, {"k3"})) @@ ("n2" :> Subkeys("c2", {"k4"}, {"k5"}, {"k6"}))
RoleKeys == [n \in {"n1", "n2"} |->
    Subkeys(IF n = "n1" THEN "c1" ELSE "c2", {"k1", "k2"}, {"k3", "k4"}, {"k5", "k6"})]
AnyKeys == LET K == {"k1", "k2", "k3", "k4"}
           IN  [n \in {"n1", "n2"} |-> Subkeys(IF n = "n1" THEN "c1" ELSE "c2", K, K, K)]

\* n1 exchanges two keys, which n2 uses too if it can.
MovedKeysOf == ("n1" :> Subkeys("c1", {"k1", "k2"}, {"k1", "k2"}, {"k3"}))
            @@ ("n2" :> Subkeys("c2", {"k1", "k4"}, {"k2"}, {"k5"}))

EntityOfNode == ("a1" :> "A") @@ ("a2" :> "A") @@ ("b1" :> "B") @@ ("c1" :> "C")

Delegated(as, vs) == [a \in as |-> [v \in vs |-> IF a = v THEN 1 ELSE IF a = "d1" THEN 2 ELSE 0]]
Balances(vs) == [v \in vs |-> IF v = "v1" THEN 5 ELSE 2]
Params == [votingPeriod |-> 1, minDiff |-> 2, cancelDiff |-> 2, threshold |-> 68, deposit |-> 1]
Change(field, value) == [field |-> field, value |-> value]

\* d1 is due in epoch 2, needs binary 1 and a startup upgrade; d2 in epoch 3.
Due == ("d1" :> 2) @@ ("d2" :> 3)
Target(max) == ("d1" :> 1) @@ ("d2" :> max)
Startup == ("d1" :> TRUE) @@ ("d2" :> FALSE)

\* Two entities register a node and a runtime against little stake.
Stake == INSTANCE Registry WITH
    Keys <- {"c1", "c2", "k1", "k2", "k3", "k4", "k5", "k6"},
    MaxNodeExpiration <- 1, Entities <- {"e1", "e2"}, Nodes <- {"n1"},
    Runtimes <- {"r1"}, KeySets <- [n \in {"n1"} |-> FixedKeys[n]], MaxEpoch <- 3,
    MaxBalance <- 2, DebondingInterval <- 1, epoch <- registryEpoch,
    committee <- registryCommittee, failed <- registryFailed
ASSUME Stake!RegistryAssumption

\* Nodes expire, are renewed and are removed over four epochs.
Expiration == INSTANCE Registry WITH
    Keys <- {"c1", "c2", "k1", "k2", "k3", "k4", "k5", "k6"},
    MaxNodeExpiration <- 1, Entities <- {"e1"}, Nodes <- {"n1", "n2"},
    Runtimes <- {"r1"}, KeySets <- FixedKeys, MaxEpoch <- 4, MaxBalance <- 3,
    DebondingInterval <- 1, epoch <- registryEpoch,
    committee <- registryCommittee, failed <- registryFailed
ASSUME Expiration!RegistryAssumption

\* Two nodes update their keys, each key in one role.
NodeKeys == INSTANCE Registry WITH
    Keys <- {"c1", "c2", "k1", "k2", "k3", "k4", "k5", "k6"},
    MaxNodeExpiration <- 1, Entities <- {"e1"}, Nodes <- {"n1", "n2"},
    Runtimes <- {}, KeySets <- RoleKeys, MaxEpoch <- 3, MaxBalance <- 3,
    DebondingInterval <- 1, epoch <- registryEpoch,
    committee <- registryCommittee, failed <- registryFailed
ASSUME NodeKeys!RegistryAssumption

\* Nodes use a key in any of its roles.
SwappedKeys == INSTANCE Registry WITH
    Keys <- {"c1", "c2", "k1", "k2", "k3", "k4", "k5", "k6"},
    MaxNodeExpiration <- 1, Entities <- {"e1"}, Nodes <- {"n1", "n2"},
    Runtimes <- {}, KeySets <- AnyKeys, MaxEpoch <- 1, MaxBalance <- 3,
    DebondingInterval <- 1, epoch <- registryEpoch,
    committee <- registryCommittee, failed <- registryFailed
ASSUME SwappedKeys!RegistryAssumption

\* Keys that are exchanged are lost, and other nodes use them.
MovedKeys == INSTANCE Registry WITH
    Keys <- {"c1", "c2", "k1", "k2", "k3", "k4", "k5"},
    MaxNodeExpiration <- 1, Entities <- {"e1"}, Nodes <- {"n1", "n2"},
    Runtimes <- {}, KeySets <- MovedKeysOf, MaxEpoch <- 3, MaxBalance <- 3,
    DebondingInterval <- 1, epoch <- registryEpoch,
    committee <- registryCommittee, failed <- registryFailed
ASSUME MovedKeys!RegistryAssumption

\* Two entities, one of them with two nodes, under limits on each entity.
Limits == INSTANCE Scheduler WITH
    EntityOf <- [n \in {"a1", "a2", "b1"} |-> EntityOfNode[n]],
    BaseUnitsPerVotingPower <- 2, MinValidators <- 1, MaxValidators <- 2,
    MaxValidatorsPerEntity <- 1, Nodes <- {"a1", "a2", "b1"},
    Entities <- {"A", "B"}, MaxStake <- 3, Groups <- [worker |-> 2, backup |-> 1],
    MaxNodes <- 1, ValidatorsOnly <- FALSE, pending <- schedulerPending,
    committee <- schedulerCommittee, failed <- schedulerFailed
ASSUME Limits!SchedulerAssumption

\* Three entities with a node each compete for two seats.
Elections == INSTANCE Scheduler WITH
    EntityOf <- [n \in {"a1", "b1", "c1"} |-> EntityOfNode[n]],
    BaseUnitsPerVotingPower <- 2, MinValidators <- 1, MaxValidators <- 2,
    MaxValidatorsPerEntity <- 1, Nodes <- {"a1", "b1", "c1"},
    Entities <- {"A", "B", "C"}, MaxStake <- 2,
    Groups <- [worker |-> 1, backup |-> 1], MaxNodes <- 0, ValidatorsOnly <- TRUE,
    pending <- schedulerPending, committee <- schedulerCommittee,
    failed <- schedulerFailed
ASSUME Elections!SchedulerAssumption

\* Two validators and a delegator of both, whose shares are not whole tokens.
Tally == INSTANCE Governance WITH
    Accounts <- {"v1", "v2", "d1"}, Entities <- {"v1", "v2"},
    Delegations <- Delegated({"v1", "v2", "d1"}, {"v1", "v2"}),
    Balance <- Balances({"v1", "v2"}), GenesisParams <- Params,
    ParamChanges <- {Change("deposit", 2)}, InitialBalance <- 2, MaxEpoch <- 2,
    MaxProposals <- 1, epoch <- governanceEpoch, pending <- governancePending,
    failed <- governanceFailed
ASSUME Tally!GovernanceAssumption

\* One validator that decides alone on upgrades and parameters, the distance
\* between upgrades among them.
Deciding == INSTANCE Governance WITH
    Accounts <- {"v1"}, Entities <- {"v1"},
    Delegations <- Delegated({"v1"}, {"v1"}), Balance <- Balances({"v1"}),
    GenesisParams <- Params,
    ParamChanges <- {Change("minDiff", 3), Change("deposit", 0)},
    InitialBalance <- 3, MaxEpoch <- 4, MaxProposals <- 3,
    epoch <- governanceEpoch, pending <- governancePending,
    failed <- governanceFailed
ASSUME Deciding!GovernanceAssumption

\* A node of two runtimes that fails, freezes and unfreezes.
Faults == INSTANCE NodeLiveness WITH
    Width <- 8, MaxLivenessFailures <- 2, FreezeInterval <- 3,
    EvidenceFreeze <- 1, Runtimes <- {"r1", "r2"}, FailureBound <- 3
ASSUME Faults!LivenessAssumption

\* A fault counter of two bits, which wraps when the node fails once more after
\* it was frozen and unfrozen.
Wrapping == INSTANCE NodeLiveness WITH
    Width <- 2, MaxLivenessFailures <- 0, FreezeInterval <- 2,
    EvidenceFreeze <- 1, Runtimes <- {"r1"}, FailureBound <- 4
ASSUME Wrapping!LivenessAssumption

\* Two upgrades, three binaries, proposals that are not decided, crashes and
\* power failures.
Crashes == INSTANCE Upgrade WITH
    Descriptors <- {"d1", "d2"}, EpochOf <- Due, TargetOf <- Target(2),
    HasStartupUpgrade <- Startup, Interval <- 3, MaxHeight <- 12, MaxCrashes <- 3,
    MaxBinary <- 2, Undecided <- TRUE, PowerLoss <- TRUE,
    pending <- upgradePending, panicked <- upgradePanicked
ASSUME Crashes!UpgradeAssumption

\* A node that is restarted after every crash.
Progress == INSTANCE Upgrade WITH
    Descriptors <- {"d1", "d2"}, EpochOf <- Due, TargetOf <- Target(1),
    HasStartupUpgrade <- Startup, Interval <- 2, MaxHeight <- 7, MaxCrashes <- 2,
    MaxBinary <- 1, Undecided <- TRUE, PowerLoss <- FALSE,
    pending <- upgradePending, panicked <- upgradePanicked
ASSUME Progress!UpgradeAssumption

\* Good and bad proposals of this validator and of others, pruning and its
\* handlers, crashes and power failures.
Proposals == INSTANCE ABCIMux WITH MaxHeight <- 3
ASSUME Proposals!ABCIMuxAssumption

\* Blocks of one validator: enough heights to prune, crash and prune again.
Pruning == INSTANCE ABCIMux WITH Own <- {"b"}, Others <- {}, Bad <- {}, NumTxs <- [b \in {"b"} |-> 0], MaxFaults <- 2
ASSUME Pruning!ABCIMuxAssumption

-----------------------------------------------------------------------------
RegistryInit ==
    \/ part = "stake" /\ Stake!Init
    \/ part = "expiration" /\ Expiration!Init
    \/ part = "keys" /\ NodeKeys!Init
    \/ part = "movedKeys" /\ MovedKeys!Init
    \/ part = "swappedKeys" /\ SwappedKeys!Init
    \/ /\ part \notin {"stake", "expiration", "keys", "movedKeys", "swappedKeys"}
       /\ registryEpoch = 0 /\ entities = 0 /\ nodes = 0 /\ keyMap = 0 /\ lost = 0
       /\ processed = 0 /\ runtimes = 0 /\ suspended = 0 /\ owners = 0
       /\ claims = 0 /\ balance = 0 /\ registryCommittee = 0 /\ served = 0
       /\ registryFailed = 0
SchedulerInit ==
    \/ part = "limits" /\ Limits!Init
    \/ part = "elections" /\ Elections!Init
    \/ /\ part \notin {"limits", "elections"}
       /\ input = 0 /\ schedulerPending = 0 /\ current = 0 /\ cometbft = 0
       /\ schedulerCommittee = 0 /\ schedulerFailed = 0
GovernanceInit ==
    \/ part = "tally" /\ Tally!Init
    \/ part = "proposing" /\ Deciding!Init
    \/ /\ part \notin {"tally", "proposing"}
       /\ governanceEpoch = 0 /\ transition = 0 /\ validators = 0 /\ params = 0
       /\ proposals = 0 /\ active = 0 /\ votes = 0 /\ governancePending = 0
       /\ general = 0 /\ deposits = 0 /\ pool = 0 /\ governanceFailed = 0
LivenessInit ==
    \/ part = "faults" /\ Faults!Init
    \/ part = "wrapping" /\ Wrapping!Init
    \/ /\ part \notin {"faults", "wrapping"}
       /\ failures = 0 /\ suspension = 0 /\ frozen = 0 /\ freeze = 0 /\ member = 0
       /\ todo = 0 /\ electing = 0 /\ since = 0
UpgradeInit ==
    \/ part = "crashes" /\ Crashes!Init
    \/ part = "progress" /\ Progress!Init
    \/ /\ part \notin {"crashes", "progress"}
       /\ state = 0 /\ previous = 0 /\ decided = 0 /\ working = 0
       /\ upgradePending = 0 /\ store = 0 /\ shouldStop = 0 /\ up = 0
       /\ binary = 0 /\ crashes = 0 /\ tried = 0 /\ strays = 0
       /\ upgradePanicked = 0

SuiteInit == part \in Parts /\ Init /\ RegistryInit /\ SchedulerInit /\ GovernanceInit /\ LivenessInit /\ UpgradeInit

RegistryNext ==
    /\ \/ part = "stake" /\ Stake!Next
       \/ part = "expiration" /\ Expiration!Next
       \/ part = "keys" /\ NodeKeys!Next
       \/ part = "movedKeys" /\ MovedKeys!Next
       \/ part = "swappedKeys" /\ SwappedKeys!Next
    /\ UNCHANGED <<part, schedulerVars, governanceVars, livenessVars, upgradeVars, vars>>
SchedulerNext ==
    /\ \/ part = "limits" /\ Limits!Next
       \/ part = "elections" /\ Elections!Next
    /\ UNCHANGED <<part, registryVars, governanceVars, livenessVars, upgradeVars, vars>>
GovernanceNext ==
    /\ \/ part = "tally" /\ Tally!Next
       \/ part = "proposing" /\ Deciding!Next
    /\ UNCHANGED <<part, registryVars, schedulerVars, livenessVars, upgradeVars, vars>>
LivenessNext ==
    /\ \/ part = "faults" /\ Faults!Next
       \/ part = "wrapping" /\ Wrapping!Next
    /\ UNCHANGED <<part, registryVars, schedulerVars, governanceVars, upgradeVars, vars>>
UpgradeNext ==
    /\ \/ part = "crashes" /\ Crashes!Next
       \/ part = "progress" /\ Progress!Next
    /\ UNCHANGED <<part, registryVars, schedulerVars, governanceVars, livenessVars, vars>>
RootNext ==
    /\ \/ part = "mux" /\ Proposals!Next
       \/ part = "pruning" /\ Pruning!Next
    /\ UNCHANGED <<part, registryVars, schedulerVars, governanceVars, livenessVars, upgradeVars>>

SuiteNext == RootNext \/ RegistryNext \/ SchedulerNext \/ GovernanceNext \/ LivenessNext \/ UpgradeNext

SuiteSpec == SuiteInit /\ [][SuiteNext]_suiteVars

-----------------------------------------------------------------------------
\* Every variable stays in its type.
Typed ==
    /\ part = "stake" => Stake!TypeOK
    /\ part = "limits" => Limits!TypeOK
    /\ part = "tally" => Tally!TypeOK
    /\ part = "proposing" => Deciding!TypeOK
    /\ part = "faults" => Faults!TypeOK
    /\ part = "mux" => Proposals!TypeOK
    /\ part = "pruning" => Pruning!TypeOK
    /\ part = "crashes" => Crashes!TypeOK

\* The registry's derived records match the registrations in every order of
\* registration, renewal, expiration and removal: stake claims and owners, the
\* key index but for the keys that an update loses, the expiration flags; expired nodes can be slashed while their
\* stake debonds, and no transition fails.
RegistryExact ==
    /\ part = "stake" => Stake!ClaimsMatchRegistrations /\ Stake!OwnersExist
    /\ part = "expiration" =>
          /\ Expiration!SlashableWhileDebonding
          /\ Expiration!ExpirationProcessedOnce
          /\ Expiration!BlocksNeverFail
    /\ part = "keys" => NodeKeys!SubKeysUnique /\ NodeKeys!KeyMapExact
    /\ part = "movedKeys" => MovedKeys!SharedKeysLost /\ MovedKeys!KeyMapExact

\* Runtimes run only with a committee and enough stake; a faulty node serves
\* its suspensions and freezes in full, once for each fault; the outcome of a
\* proposal, once there is one, is final.
AccountabilityKept ==
  [][/\ part = "tally" => Tally!OutcomesFinal
     /\ part = "stake" => Stake!RunningRuntimesFunded
     /\ part = "faults" =>
          /\ Faults!SuspensionServed
          /\ Faults!FreezeNeverShortened
          /\ Faults!FrozenAtMostOnce
     /\ part = "wrapping" =>
          /\ Wrapping!SuspensionServed
          /\ Wrapping!FreezeNeverShortened
          /\ Wrapping!FrozenAtMostOnce]_suiteVars

\* The validators that CometBFT uses are those elected; elections prefer stake,
\* respect the limits on each entity, and leave a runtime with a complete
\* committee or none.
ElectionsRight ==
    /\ part = "limits" =>
          /\ Limits!ValidatorSetAgrees
          /\ Limits!EntityLimits
          /\ Limits!CommitteeComplete
    /\ part = "elections" =>
          /\ Elections!HighestStakeElected
          /\ Elections!CommitteeComplete

\* Tallies follow the delegators, deposits are those of open proposals,
\* proposals close in time, and pending upgrades come from proposals and are
\* apart.
GovernanceRight ==
    /\ part = "tally" =>
          /\ Tally!TallyFollowsDelegators
          /\ Tally!BlocksNeverFail
    /\ part = "proposing" =>
          /\ Deciding!DepositsMatch
          /\ Deciding!ClosedInTime
          /\ Deciding!PendingUpgradesApart
          /\ Deciding!PendingFromProposals

\* No key of a node is a key of another node (the check of registration in
\* registry/api).
SubKeysUnique ==
    /\ part = "swappedKeys" => SwappedKeys!SubKeysUnique

\* Approved upgrades, and only those, migrate the state, once, in the first
\* block of their epoch and with the binary they are for, wherever the node
\* crashes and whatever proposals it executes (but for the upgrades of blocks
\* that are executed and not decided); the stages of an upgrade never get out
\* of order.
UpgradesRight ==
  [][/\ part = "crashes" =>
          /\ Crashes!MigratedExactlyOnce'
          /\ Crashes!OnlyApprovedMigrates'
          /\ Crashes!RightBinary
     /\ part = "progress" =>
          /\ Progress!MigratedExactlyOnce'
          /\ Progress!OnlyApprovedMigrates'
          /\ Progress!NeverPanics']_suiteVars
=============================================================================

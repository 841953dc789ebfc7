-------------------------------- MODULE MCLive --------------------------------
(***************************************************************************)
(* Small instances of the components that have to make progress, each with  *)
(* the fairness that the code and its environment give. A behaviour is one  *)
(* of a single part, with the steps of the beacon in part "timekeeping";    *)
(* the variables of the other parts stay at their initial values or at 0.   *)
(***************************************************************************)
EXTENDS Beacon, Integers, Sequences, FiniteSets, TLC

CONSTANT Parts   \* the parts that the run checks

VARIABLES
    part,   \* the part that this behaviour is one of
    head, retained, blocks, lastRound, synced, toPrune, db, phase, forced, cached,
    applied, latest, storageSeen, fill, attempts, cp, syncing, summaries,
    pendingApply, pendingFinalize, finalizing, available, storageFaults,
    storageCrashes,
    upgradeState, previous, decided, working, pending, store, shouldStop, up,
    binary, upgradeCrashes, tried, strays, panicked,
    round, next, executorPc, executorState, job, processed, proposals, pruned,
    reselect, schedulerRank, poolRank, flush, discrepancy, predicted, submitted,
    signed, published, signFailed, executorFaults,
    registrationEpoch, registered, entity, epochCh, entityCh, registerCh,
    provider, registrationPc, loopEpoch, armed, first, attempt, stopReg, stored,
    registrationSeen, called, changes, registrationFaults, registrationCrashes

storageVars == <<
    head, retained, blocks, lastRound, synced, toPrune, db, phase, forced, cached,
    applied, latest, storageSeen, fill, attempts, cp, syncing, summaries,
    pendingApply, pendingFinalize, finalizing, available, storageFaults,
    storageCrashes>>
upgradeVars == <<
    upgradeState, previous, decided, working, pending, store, shouldStop, up,
    binary, upgradeCrashes, tried, strays, panicked>>
executorVars == <<
    round, next, executorPc, executorState, job, processed, proposals, pruned,
    reselect, schedulerRank, poolRank, flush, discrepancy, predicted, submitted,
    signed, published, signFailed, executorFaults>>
registrationVars == <<
    registrationEpoch, registered, entity, epochCh, entityCh, registerCh,
    provider, registrationPc, loopEpoch, armed, first, attempt, stopReg, stored,
    registrationSeen, called, changes, registrationFaults, registrationCrashes>>
suiteVars == <<part, storageVars, upgradeVars, executorVars, registrationVars, vars>>

\* d1 is due in epoch 2, needs binary 1 and a startup upgrade; d2 in epoch 3.
Due == ("d1" :> 2) @@ ("d2" :> 3)
Target(max) == ("d1" :> 1) @@ ("d2" :> max)
Startup == ("d1" :> TRUE) @@ ("d2" :> FALSE)
EmptyDB == [state |-> <<>>, io |-> {}, last |-> -1, earliest |-> 0]
Roots(rs, E, h) == [r \in rs |-> IF r \in E THEN h ELSE r]
Batch(txs) == [txs |-> txs, weight |-> 1, good |-> TRUE, linked |-> TRUE]

\* Peers that answer some time.
CatchUp == INSTANCE StorageSync WITH
    Genesis <- 1, MaxRound <- 2, InitialDBs <- {EmptyDB}, FirstRetained <- 1,
    BatchSize <- 2, NumKept <- 1, MaxPendingVersions <- 3, MaxInFlightRounds <- 2,
    AvailableBelow <- 1, UnavailableAbove <- 2, CheckpointsAt <- {},
    CheckpointSyncDisabled <- TRUE, MaxFaults <- 1, MaxCrashes <- 1,
    StateOf <- Roots(0..2, {0, 1}, 0), IOOf <- Roots(1..2, {1}, 0),
    seen <- storageSeen, faults <- storageFaults, crashes <- storageCrashes
ASSUME CatchUp!StorageSyncAssumption

\* A node that is restarted after every crash.
Progress == INSTANCE Upgrade WITH
    Descriptors <- {"d1", "d2"}, EpochOf <- Due, TargetOf <- Target(1),
    HasStartupUpgrade <- Startup, Interval <- 2, MaxHeight <- 7, MaxCrashes <- 2,
    MaxBinary <- 1, Undecided <- FALSE, PowerLoss <- FALSE, state <- upgradeState,
    crashes <- upgradeCrashes
ASSUME Progress!UpgradeAssumption

\* A worker that is the second scheduler in the first round.
Answering == INSTANCE Executor WITH
    Worker <- TRUE, Backup <- FALSE, Schedulers <- 2, Position <- 0,
    Shapes <- {Batch(2)}, OwnShape <- Batch(1), MaxBatchSize <- 2,
    MaxBatchSizeBytes <- 2, MaxPendingProposals <- 2, MaxRound <- 1,
    MaxFaults <- 2, pc <- executorPc, state <- executorState,
    faults <- executorFaults
ASSUME Answering!ExecutorAssumption

\* A node with one role that is asked to leave.
Leaving == INSTANCE Registration WITH
    Providers <- {"a"}, DelayReregistration <- FALSE, MaxEpoch <- 5,
    MaxChanges <- 2, MaxFaults <- 1, MaxCrashes <- 1, epoch <- registrationEpoch,
    pc <- registrationPc, seen <- registrationSeen, faults <- registrationFaults,
    crashes <- registrationCrashes
ASSUME Leaving!RegistrationAssumption

-----------------------------------------------------------------------------
StorageInit ==
    \/ part = "catchUp" /\ CatchUp!Init
    \/ /\ part \notin {"catchUp"}
       /\ head = 0 /\ retained = 0 /\ blocks = 0 /\ lastRound = 0 /\ synced = 0
       /\ toPrune = 0 /\ db = 0 /\ phase = 0 /\ forced = 0 /\ cached = 0
       /\ applied = 0 /\ latest = 0 /\ storageSeen = 0 /\ fill = 0 /\ attempts = 0
       /\ cp = 0 /\ syncing = 0 /\ summaries = 0 /\ pendingApply = 0
       /\ pendingFinalize = 0 /\ finalizing = 0 /\ available = 0
       /\ storageFaults = 0 /\ storageCrashes = 0
UpgradeInit ==
    \/ part = "progress" /\ Progress!Init
    \/ /\ part \notin {"progress"}
       /\ upgradeState = 0 /\ previous = 0 /\ decided = 0 /\ working = 0
       /\ pending = 0 /\ store = 0 /\ shouldStop = 0 /\ up = 0 /\ binary = 0
       /\ upgradeCrashes = 0 /\ tried = 0 /\ strays = 0 /\ panicked = 0
ExecutorInit ==
    \/ part = "answering" /\ Answering!Init
    \/ /\ part \notin {"answering"}
       /\ round = 0 /\ next = 0 /\ executorPc = 0 /\ executorState = 0 /\ job = 0
       /\ processed = 0 /\ proposals = 0 /\ pruned = 0 /\ reselect = 0
       /\ schedulerRank = 0 /\ poolRank = 0 /\ flush = 0 /\ discrepancy = 0
       /\ predicted = 0 /\ submitted = 0 /\ signed = 0 /\ published = 0
       /\ signFailed = 0 /\ executorFaults = 0
RegistrationInit ==
    \/ part = "leaving" /\ Leaving!Init
    \/ /\ part \notin {"leaving"}
       /\ registrationEpoch = 0 /\ registered = 0 /\ entity = 0 /\ epochCh = 0
       /\ entityCh = 0 /\ registerCh = 0 /\ provider = 0 /\ registrationPc = 0
       /\ loopEpoch = 0 /\ armed = 0 /\ first = 0 /\ attempt = 0 /\ stopReg = 0
       /\ stored = 0 /\ registrationSeen = 0 /\ called = 0 /\ changes = 0
       /\ registrationFaults = 0 /\ registrationCrashes = 0

SuiteInit == part \in Parts /\ Init /\ StorageInit /\ UpgradeInit /\ ExecutorInit /\ RegistrationInit

StorageNext ==
    /\ part = "catchUp" /\ CatchUp!Next
    /\ UNCHANGED <<part, upgradeVars, executorVars, registrationVars, vars>>
UpgradeNext ==
    /\ part = "progress" /\ Progress!Next
    /\ UNCHANGED <<part, storageVars, executorVars, registrationVars, vars>>
ExecutorNext ==
    /\ part = "answering" /\ Answering!Next
    /\ UNCHANGED <<part, storageVars, upgradeVars, registrationVars, vars>>
RegistrationNext ==
    /\ part = "leaving" /\ Leaving!Next
    /\ UNCHANGED <<part, storageVars, upgradeVars, executorVars, vars>>
\* Two nodes that register, change keys and prove.
RootNext ==
    /\ part = "timekeeping" /\ Next
    /\ UNCHANGED <<part, storageVars, upgradeVars, executorVars, registrationVars>>

SuiteNext == RootNext \/ StorageNext \/ UpgradeNext \/ ExecutorNext \/ RegistrationNext

SuiteSpec == SuiteInit /\ [][SuiteNext]_suiteVars

\* Consensus, the indexer and the storage worker go on, peers answer some time
\* and a node that is down is started again; CometBFT goes on executing and
\* committing blocks, and the operator of a node that is down keeps trying to
\* start it with each of the binaries; the loops of the executor and of the
\* registration worker go on, as do their goroutines, transactions and epochs.
FairSpec ==
    /\ SuiteSpec
    /\ WF_suiteVars(part = "catchUp" /\ CatchUp!Reindex /\ UNCHANGED <<part, upgradeVars, executorVars, registrationVars, vars>>)
    /\ WF_suiteVars(part = "catchUp" /\ CatchUp!Index /\ UNCHANGED <<part, upgradeVars, executorVars, registrationVars, vars>>)
    /\ WF_suiteVars(part = "catchUp" /\ CatchUp!Restart /\ UNCHANGED <<part, upgradeVars, executorVars, registrationVars, vars>>)
    /\ WF_suiteVars(part = "catchUp" /\ CatchUp!WorkerStep /\ UNCHANGED <<part, upgradeVars, executorVars, registrationVars, vars>>)
    /\ \A r \in 1..2, t \in {"io", "state"} :
        /\ WF_suiteVars(part = "catchUp" /\ r \in DOMAIN syncing /\ CatchUp!FetchDiff(r, t, "good") /\ UNCHANGED <<part, upgradeVars, executorVars, registrationVars, vars>>)
    /\ WF_suiteVars(part = "timekeeping" /\ BeginBlock /\ UNCHANGED <<part, storageVars, upgradeVars, executorVars, registrationVars>>)
    /\ WF_suiteVars(part = "progress" /\ (\E o \in Progress!Outcomes : Progress!ExecuteBlock(o)) /\ UNCHANGED <<part, storageVars, executorVars, registrationVars, vars>>)
    /\ WF_suiteVars(part = "progress" /\ Progress!Commit(FALSE) /\ UNCHANGED <<part, storageVars, executorVars, registrationVars, vars>>)
    /\ \A b \in 0..1 :
        /\ SF_suiteVars(part = "progress" /\ Progress!Restart(b) /\ UNCHANGED <<part, storageVars, executorVars, registrationVars, vars>>)
    /\ WF_suiteVars(part = "answering" /\ Answering!Top /\ UNCHANGED <<part, storageVars, upgradeVars, registrationVars, vars>>)
    /\ WF_suiteVars(part = "answering" /\ Answering!Reselect /\ UNCHANGED <<part, storageVars, upgradeVars, registrationVars, vars>>)
    /\ WF_suiteVars(part = "answering" /\ Answering!HandleProcessedBatch /\ UNCHANGED <<part, storageVars, upgradeVars, registrationVars, vars>>)
    /\ WF_suiteVars(part = "answering" /\ Answering!FinishJob /\ UNCHANGED <<part, storageVars, upgradeVars, registrationVars, vars>>)
    /\ WF_suiteVars(part = "answering" /\ Answering!HandleTransactions(1) /\ UNCHANGED <<part, storageVars, upgradeVars, registrationVars, vars>>)
    /\ WF_suiteVars(part = "leaving" /\ Leaving!Loop /\ UNCHANGED <<part, storageVars, upgradeVars, executorVars, vars>>)
    /\ WF_suiteVars(part = "leaving" /\ Leaving!RegistrationStopped /\ UNCHANGED <<part, storageVars, upgradeVars, executorVars, vars>>)
    /\ WF_suiteVars(part = "leaving" /\ Leaving!NewEpoch /\ UNCHANGED <<part, storageVars, upgradeVars, executorVars, vars>>)
    /\ WF_suiteVars(part = "leaving" /\ Leaving!Restart /\ UNCHANGED <<part, storageVars, upgradeVars, executorVars, vars>>)

-----------------------------------------------------------------------------
\* Every round that consensus finalizes is synced some time, crashes and failed
\* fetches or not.
SyncsUp == \A r \in 1..2 : part = "catchUp" /\ head >= r ~> part = "catchUp" /\ synced >= r

\* Epochs come every Interval blocks without end.
EpochsAdvance == part = "timekeeping" ~> (epoch = MaxEpoch /\ height = 1 + Interval * epoch)

\* A node that is restarted gets through every upgrade.
ReachesEnd == part = "progress" ~> (part = "progress" /\ upgradeState.height = 7)

\* A proposal of the first scheduler that can be executed gets a commitment of
\* the worker, failures on the way or not, unless the round ends, its batch is
\* disputed or signing fails.
ProposalsAnswered == 
    LET p == [round |-> 1, rank |-> 0, shape |-> Batch(2), invalid |-> FALSE]
    IN part = "answering" /\ Answering!Executable(p) ~> part = "answering" /\ Answering!Answered(p)

\* The registered roles become those that the providers have set, unless they
\* change again; a node that is asked to leave stops registering, also after a
\* crash, and is shut down when its registration has lapsed.
RegistrationFollows == 
    /\ part = "leaving" /\ Leaving!Wanted("a", 1) ~> part = "leaving" /\ Leaving!Reached("a", 1)
    /\ part = "leaving" /\ stored ~> part = "leaving" /\ Leaving!Left
=============================================================================

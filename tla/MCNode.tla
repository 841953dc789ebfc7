-------------------------------- MODULE MCNode --------------------------------
(***************************************************************************)
(* Instances of the components of a node beside consensus: the storage      *)
(* worker with the runtime history, the node database, the executor worker  *)
(* and the key manager (CHURP, master and ephemeral secrets). A behaviour   *)
(* is one of a single part, with the steps of an executor worker in part    *)
(* "executing"; the variables of the other parts stay at their initial      *)
(* values or at 0.                                                          *)
(***************************************************************************)
EXTENDS Executor, Integers, Sequences, FiniteSets, TLC

CONSTANT Parts   \* the parts that the run checks

VARIABLES
    part,   \* the part that this behaviour is one of
    head, retained, blocks, lastRound, synced, toPrune, db, phase, forced, cached,
    applied, latest, seen, fill, attempts, cp, syncing, summaries, pendingApply,
    pendingFinalize, finalizing, available, storageFaults, storageCrashes,
    decided, final, nodes, pending, roots, updated, meta, batches, insert,
    touched, nodeDBCrashes, inserts,
    churpEpoch, churpStatus, churpTxs, churpWorker, churpEnclave, churpDisk,
    replaced, updates, churpFaults,
    secretsEpoch, secretsStatus, secretsPublished, reg, secretsTxs, secretsWorker,
    secretsEnclave, secretsDisk, made, secretsFaults,
    backupRound, backupNext, backupPc, backupState, backupJob, backupProcessed,
    backupProposals, backupPruned, backupReselect, backupSchedulerRank,
    backupPoolRank, backupFlush, backupDiscrepancy, backupPredicted,
    backupSubmitted, backupSigned, backupPublished, backupSignFailed, backupFaults

storageVars == <<
    head, retained, blocks, lastRound, synced, toPrune, db, phase, forced, cached,
    applied, latest, seen, fill, attempts, cp, syncing, summaries, pendingApply,
    pendingFinalize, finalizing, available, storageFaults, storageCrashes>>
nodeDBVars == <<
    decided, final, nodes, pending, roots, updated, meta, batches, insert,
    touched, nodeDBCrashes, inserts>>
churpVars == <<
    churpEpoch, churpStatus, churpTxs, churpWorker, churpEnclave, churpDisk,
    replaced, updates, churpFaults>>
secretsVars == <<
    secretsEpoch, secretsStatus, secretsPublished, reg, secretsTxs, secretsWorker,
    secretsEnclave, secretsDisk, made, secretsFaults>>
backupVars == <<
    backupRound, backupNext, backupPc, backupState, backupJob, backupProcessed,
    backupProposals, backupPruned, backupReselect, backupSchedulerRank,
    backupPoolRank, backupFlush, backupDiscrepancy, backupPredicted,
    backupSubmitted, backupSigned, backupPublished, backupSignFailed, backupFaults>>
suiteVars == <<part, storageVars, nodeDBVars, churpVars, secretsVars, backupVars, vars>>

EmptyDB == [state |-> <<>>, io |-> {}, last |-> -1, earliest |-> 0]
\* The database of a network that ended with round n, 1 is the hash of its state;
\* the node may have crashed before it finalized the last round.
OldDBs(n) == {[EmptyDB EXCEPT !.state = [v \in 1..n |-> 1], !.io = 1..n, !.last = l, !.earliest = 1] : l \in {n - 1, n}}
\* The roots of rounds: r |-> r except for the rounds in E, which have the hash h.
Roots(rs, E, h) == [r \in rs |-> IF r \in E THEN h ELSE r]
\* Batches of proposals: their transactions, the bytes of each, and what is wrong.
Batch(txs, weight, good, linked) == [txs |-> txs, weight |-> weight, good |-> good, linked |-> linked]
GoodBatch  == Batch(1, 1, TRUE, TRUE)
BadBatch   == Batch(1, 1, FALSE, TRUE)
LongBatch  == Batch(3, 1, TRUE, TRUE)
HeavyBatch == Batch(2, 2, TRUE, TRUE)
LooseBatch == Batch(1, 1, TRUE, FALSE)
ExecutingShapes == {GoodBatch, BadBatch}
HeavyShapes == {HeavyBatch}

\* A runtime with empty state at genesis, and a crash.
Storage == INSTANCE StorageSync WITH
    Genesis <- 1, MaxRound <- 4, InitialDBs <- {EmptyDB}, FirstRetained <- 1,
    BatchSize <- 1, NumKept <- 1, MaxPendingVersions <- 2, MaxInFlightRounds <- 2,
    AvailableBelow <- 1, UnavailableAbove <- 2, CheckpointsAt <- {},
    CheckpointSyncDisabled <- TRUE, MaxFaults <- 0, MaxCrashes <- 1,
    StateOf <- Roots(0..4, 0..2, 0), IOOf <- Roots(1..4, {1}, 0),
    faults <- storageFaults, crashes <- storageCrashes
ASSUME Storage!StorageSyncAssumption

\* A runtime whose genesis state is that of an earlier network, with a crash
\* also while the versions in between are filled in.
OldNetwork == INSTANCE StorageSync WITH
    Genesis <- 4, MaxRound <- 6, InitialDBs <- OldDBs(2), FirstRetained <- 4,
    BatchSize <- 2, NumKept <- 1, MaxPendingVersions <- 3, MaxInFlightRounds <- 2,
    AvailableBelow <- 1, UnavailableAbove <- 2, CheckpointsAt <- {},
    CheckpointSyncDisabled <- TRUE, MaxFaults <- 0, MaxCrashes <- 1,
    StateOf <- Roots(0..6, 1..4, 1), IOOf <- Roots(4..6, {4}, 0),
    faults <- storageFaults, crashes <- storageCrashes
ASSUME OldNetwork!StorageSyncAssumption

\* Consensus was state synced; no state changed before the first round it
\* knows; a checkpoint may be used nevertheless.
FilledIn == INSTANCE StorageSync WITH
    Genesis <- 1, MaxRound <- 4, InitialDBs <- {EmptyDB}, FirstRetained <- 3,
    BatchSize <- 2, NumKept <- 1, MaxPendingVersions <- 3, MaxInFlightRounds <- 2,
    AvailableBelow <- 1, UnavailableAbove <- 2, CheckpointsAt <- {4},
    CheckpointSyncDisabled <- FALSE, MaxFaults <- 0, MaxCrashes <- 0,
    StateOf <- Roots(0..4, 0..3, 0), IOOf <- Roots(1..4, 1..3, 0),
    faults <- storageFaults, crashes <- storageCrashes
ASSUME FilledIn!StorageSyncAssumption

\* The same node crashes.
FilledInCrash == INSTANCE StorageSync WITH
    Genesis <- 1, MaxRound <- 4, InitialDBs <- {EmptyDB}, FirstRetained <- 3,
    BatchSize <- 2, NumKept <- 1, MaxPendingVersions <- 3, MaxInFlightRounds <- 2,
    AvailableBelow <- 1, UnavailableAbove <- 2, CheckpointsAt <- {},
    CheckpointSyncDisabled <- TRUE, MaxFaults <- 0, MaxCrashes <- 1,
    StateOf <- Roots(0..4, 0..3, 0), IOOf <- Roots(1..4, 1..3, 0),
    faults <- storageFaults, crashes <- storageCrashes
ASSUME FilledInCrash!StorageSyncAssumption

\* Consensus was state synced and the state changed since genesis.
Checkpoints == INSTANCE StorageSync WITH
    Genesis <- 1, MaxRound <- 4, InitialDBs <- {EmptyDB}, FirstRetained <- 2,
    BatchSize <- 2, NumKept <- 1, MaxPendingVersions <- 3, MaxInFlightRounds <- 2,
    AvailableBelow <- 1, UnavailableAbove <- 2, CheckpointsAt <- {2, 3},
    CheckpointSyncDisabled <- FALSE, MaxFaults <- 1, MaxCrashes <- 1,
    StateOf <- Roots(0..4, {}, 0), IOOf <- Roots(1..4, {1}, 0),
    faults <- storageFaults, crashes <- storageCrashes
ASSUME Checkpoints!StorageSyncAssumption

\* Checkpoint sync is only worth a try.
Restore == INSTANCE StorageSync WITH
    Genesis <- 1, MaxRound <- 3, InitialDBs <- {EmptyDB}, FirstRetained <- 1,
    BatchSize <- 2, NumKept <- 1, MaxPendingVersions <- 3, MaxInFlightRounds <- 2,
    AvailableBelow <- 1, UnavailableAbove <- 2, CheckpointsAt <- {3},
    CheckpointSyncDisabled <- FALSE, MaxFaults <- 1, MaxCrashes <- 0,
    StateOf <- Roots(0..3, {0, 1}, 0), IOOf <- Roots(1..3, {1}, 0),
    faults <- storageFaults, crashes <- storageCrashes
ASSUME Restore!StorageSyncAssumption

\* Rival roots of the state, with a crash.
Candidates == INSTANCE NodeDB WITH
    Types <- {"state"}, Slots <- {1, 2}, Trees <- {<<1, 1>>, <<1, 2>>, <<2, 2>>},
    MaxVersion <- 2, MaxPendingVersions <- 2, MaxBatches <- <<1, 2>>,
    CleanInserts <- TRUE, MaxCrashes <- 1, MaxInserts <- 0,
    crashes <- nodeDBCrashes
ASSUME Candidates!NodeDBAssumption

\* Pruning of state.
Pruned == INSTANCE NodeDB WITH
    Types <- {"state"}, Slots <- {1, 2}, Trees <- {<<1, 1>>, <<2, 1>>},
    MaxVersion <- 3, MaxPendingVersions <- 2, MaxBatches <- <<1, 1, 1>>,
    CleanInserts <- TRUE, MaxCrashes <- 1, MaxInserts <- 0,
    crashes <- nodeDBCrashes
ASSUME Pruned!NodeDBAssumption

\* Roots without children.
IORoots == INSTANCE NodeDB WITH
    Types <- {"io"}, Slots <- {1}, Trees <- {<<1>>, <<2>>}, MaxVersion <- 2,
    MaxPendingVersions <- 2, MaxBatches <- <<2, 1>>, CleanInserts <- TRUE,
    MaxCrashes <- 1, MaxInserts <- 0, crashes <- nodeDBCrashes
ASSUME IORoots!NodeDBAssumption

\* A checkpoint is restored, once.
Multipart == INSTANCE NodeDB WITH
    Types <- {"state"}, Slots <- {1, 2}, Trees <- {<<1, 1>>, <<2, 1>>},
    MaxVersion <- 3, MaxPendingVersions <- 2, MaxBatches <- <<1, 1, 1>>,
    CleanInserts <- TRUE, MaxCrashes <- 0, MaxInserts <- 1,
    crashes <- nodeDBCrashes
ASSUME Multipart!NodeDBAssumption

\* A checkpoint is restored again; batches may be open when an insert begins.
MultipartRetry == INSTANCE NodeDB WITH
    Types <- {"state"}, Slots <- {1, 2}, Trees <- {<<1, 1>>, <<2, 1>>},
    MaxVersion <- 2, MaxPendingVersions <- 2, MaxBatches <- <<0, 1>>,
    CleanInserts <- FALSE, MaxCrashes <- 0, MaxInserts <- 2,
    crashes <- nodeDBCrashes
ASSUME MultipartRetry!NodeDBAssumption

\* Two nodes deal a secret and hand it over, and one of them crashes.
Dealing == INSTANCE Churp WITH
    Nodes <- {"a", "b"}, Threshold <- 0, Interval <- 1, Extra <- 0, Updates <- {},
    Committee <- {}, Disabled <- 99, MaxAttempts <- 1, MaxEpoch <- 2, MaxUpdates <- 0,
    MaxFaults <- 1, epoch <- churpEpoch, status <- churpStatus, txs <- churpTxs,
    worker <- churpWorker, enclave <- churpEnclave, disk <- churpDisk,
    faults <- churpFaults
ASSUME Dealing!ChurpAssumption

\* Applications are repeated.
Retrying == INSTANCE Churp WITH
    Nodes <- {"a", "b"}, Threshold <- 0, Interval <- 1, Extra <- 0, Updates <- {},
    Committee <- {}, Disabled <- 99, MaxAttempts <- 2, MaxEpoch <- 1, MaxUpdates <- 0,
    MaxFaults <- 0, epoch <- churpEpoch, status <- churpStatus, txs <- churpTxs,
    worker <- churpWorker, enclave <- churpEnclave, disk <- churpDisk,
    faults <- churpFaults
ASSUME Retrying!ChurpAssumption

\* Another node joins a committee of one.
Changing == INSTANCE Churp WITH
    Nodes <- {"a", "b"}, Threshold <- 0, Interval <- 1, Extra <- 0, Updates <- {},
    Committee <- {"a"}, Disabled <- 99, MaxAttempts <- 1, MaxEpoch <- 2, MaxUpdates <- 0,
    MaxFaults <- 1, epoch <- churpEpoch, status <- churpStatus, txs <- churpTxs,
    worker <- churpWorker, enclave <- churpEnclave, disk <- churpDisk,
    faults <- churpFaults
ASSUME Changing!ChurpAssumption

\* A third node joins, with polynomials of degree one.
Degree == INSTANCE Churp WITH
    Nodes <- {"a", "b", "c"}, Threshold <- 1, Interval <- 1, Extra <- 0,
    Updates <- {}, Committee <- {"a", "b"}, Disabled <- 99, MaxAttempts <- 1, MaxEpoch <- 2,
    MaxUpdates <- 0, MaxFaults <- 0, epoch <- churpEpoch, status <- churpStatus,
    txs <- churpTxs, worker <- churpWorker, enclave <- churpEnclave,
    disk <- churpDisk, faults <- churpFaults
ASSUME Degree!ChurpAssumption

\* The owner stops and starts handoffs.
Updating == INSTANCE Churp WITH
    Nodes <- {"a", "b"}, Threshold <- 0, Interval <- 1, Extra <- 0,
    Updates <- {[interval |-> 0, extra |-> 0], [interval |-> 2, extra |-> 1]},
    Committee <- {}, Disabled <- 99, MaxAttempts <- 1, MaxEpoch <- 2, MaxUpdates <- 2,
    MaxFaults <- 0, epoch <- churpEpoch, status <- churpStatus, txs <- churpTxs,
    worker <- churpWorker, enclave <- churpEnclave, disk <- churpDisk,
    faults <- churpFaults
ASSUME Updating!ChurpAssumption

\* The committee of two nodes makes a master secret, and one of them is
\* restarted.
Rotating == INSTANCE KMSecrets WITH
    Nodes <- {"a", "b"}, Committee <- {"a", "b"}, Faulty <- {"b"},
    RotationInterval <- <<1>>, ReplicationPercent <- 66, Kinds <- {"master"},
    MaxRetries <- 0, MaxEpoch <- 2, MaxSecrets <- 1, MaxPolicy <- 1,
    MaxFaults <- 1, epoch <- secretsEpoch, status <- secretsStatus,
    published <- secretsPublished, txs <- secretsTxs, worker <- secretsWorker,
    enclave <- secretsEnclave, disk <- secretsDisk, faults <- secretsFaults
ASSUME Rotating!KMSecretsAssumption

\* A policy makes rotation rarer, also while a secret is on its way.
Rarer == INSTANCE KMSecrets WITH
    Nodes <- {"b"}, Committee <- {"b"}, Faulty <- {"b"}, RotationInterval <- <<1, 2>>,
    ReplicationPercent <- 66, Kinds <- {"master"}, MaxRetries <- 0, MaxEpoch <- 4,
    MaxSecrets <- 2, MaxPolicy <- 2, MaxFaults <- 0, epoch <- secretsEpoch,
    status <- secretsStatus, published <- secretsPublished, txs <- secretsTxs,
    worker <- secretsWorker, enclave <- secretsEnclave, disk <- secretsDisk,
    faults <- secretsFaults
ASSUME Rarer!KMSecretsAssumption

\* A policy stops rotation while a secret is on its way.
Stopped == INSTANCE KMSecrets WITH
    Nodes <- {"b"}, Committee <- {"b"}, Faulty <- {}, RotationInterval <- <<1, 0>>,
    ReplicationPercent <- 66, Kinds <- {"master"}, MaxRetries <- 0, MaxEpoch <- 4,
    MaxSecrets <- 2, MaxPolicy <- 2, MaxFaults <- 0, epoch <- secretsEpoch,
    status <- secretsStatus, published <- secretsPublished, txs <- secretsTxs,
    worker <- secretsWorker, enclave <- secretsEnclave, disk <- secretsDisk,
    faults <- secretsFaults
ASSUME Stopped!KMSecretsAssumption

\* A node that joins replicates two master secrets.
Joining == INSTANCE KMSecrets WITH
    Nodes <- {"a", "b"}, Committee <- {"a"}, Faulty <- {"b"},
    RotationInterval <- <<1>>, ReplicationPercent <- 66, Kinds <- {"master"},
    MaxRetries <- 0, MaxEpoch <- 3, MaxSecrets <- 2, MaxPolicy <- 1,
    MaxFaults <- 0, epoch <- secretsEpoch, status <- secretsStatus,
    published <- secretsPublished, txs <- secretsTxs, worker <- secretsWorker,
    enclave <- secretsEnclave, disk <- secretsDisk, faults <- secretsFaults
ASSUME Joining!KMSecretsAssumption

\* A node that joins is restarted.
Replicating == INSTANCE KMSecrets WITH
    Nodes <- {"a", "b"}, Committee <- {"a"}, Faulty <- {"b"},
    RotationInterval <- <<1>>, ReplicationPercent <- 66, Kinds <- {"master"},
    MaxRetries <- 0, MaxEpoch <- 2, MaxSecrets <- 1, MaxPolicy <- 1,
    MaxFaults <- 1, epoch <- secretsEpoch, status <- secretsStatus,
    published <- secretsPublished, txs <- secretsTxs, worker <- secretsWorker,
    enclave <- secretsEnclave, disk <- secretsDisk, faults <- secretsFaults
ASSUME Replicating!KMSecretsAssumption

\* Two of three nodes are enough to rotate.
Majority == INSTANCE KMSecrets WITH
    Nodes <- {"a", "b", "c"}, Committee <- {"a", "b", "c"}, Faulty <- {"b"},
    RotationInterval <- <<1>>, ReplicationPercent <- 66, Kinds <- {"master"},
    MaxRetries <- 0, MaxEpoch <- 2, MaxSecrets <- 1, MaxPolicy <- 1,
    MaxFaults <- 0, epoch <- secretsEpoch, status <- secretsStatus,
    published <- secretsPublished, txs <- secretsTxs, worker <- secretsWorker,
    enclave <- secretsEnclave, disk <- secretsDisk, faults <- secretsFaults
ASSUME Majority!KMSecretsAssumption

\* Ephemeral secrets.
Ephemeral == INSTANCE KMSecrets WITH
    Nodes <- {"a", "b"}, Committee <- {"a", "b"}, Faulty <- {"b"},
    RotationInterval <- <<1>>, ReplicationPercent <- 66, Kinds <- {"ephemeral"},
    MaxRetries <- 0, MaxEpoch <- 2, MaxSecrets <- 2, MaxPolicy <- 1,
    MaxFaults <- 1, epoch <- secretsEpoch, status <- secretsStatus,
    published <- secretsPublished, txs <- secretsTxs, worker <- secretsWorker,
    enclave <- secretsEnclave, disk <- secretsDisk, faults <- secretsFaults
ASSUME Ephemeral!KMSecretsAssumption

\* The policy is updated while ephemeral secrets are generated.
PolicyUpdate == INSTANCE KMSecrets WITH
    Nodes <- {"a", "b"}, Committee <- {"a", "b"}, Faulty <- {"b"},
    RotationInterval <- <<1, 1>>, ReplicationPercent <- 66, Kinds <- {"ephemeral"},
    MaxRetries <- 0, MaxEpoch <- 2, MaxSecrets <- 2, MaxPolicy <- 2,
    MaxFaults <- 0, epoch <- secretsEpoch, status <- secretsStatus,
    published <- secretsPublished, txs <- secretsTxs, worker <- secretsWorker,
    enclave <- secretsEnclave, disk <- secretsDisk, faults <- secretsFaults
ASSUME PolicyUpdate!KMSecretsAssumption

\* A backup worker that waits for a discrepancy.
Resolving == INSTANCE Executor WITH
    Worker <- FALSE, Backup <- TRUE, Schedulers <- 2, Position <- 0,
    Shapes <- {GoodBatch, LongBatch}, OwnShape <- GoodBatch, MaxBatchSize <- 2,
    MaxBatchSizeBytes <- 2, MaxPendingProposals <- 2, MaxRound <- 1,
    MaxFaults <- 1, round <- backupRound, next <- backupNext, pc <- backupPc,
    state <- backupState, job <- backupJob, processed <- backupProcessed,
    proposals <- backupProposals, pruned <- backupPruned,
    reselect <- backupReselect, schedulerRank <- backupSchedulerRank,
    poolRank <- backupPoolRank, flush <- backupFlush,
    discrepancy <- backupDiscrepancy, predicted <- backupPredicted,
    submitted <- backupSubmitted, signed <- backupSigned,
    published <- backupPublished, signFailed <- backupSignFailed,
    faults <- backupFaults
ASSUME Resolving!ExecutorAssumption

\* A worker that is a backup worker too.
BothRoles == INSTANCE Executor WITH
    Worker <- TRUE, Backup <- TRUE, Schedulers <- 2, Position <- 0,
    Shapes <- {GoodBatch, HeavyBatch, LooseBatch}, OwnShape <- GoodBatch,
    MaxBatchSize <- 2, MaxBatchSizeBytes <- 2, MaxPendingProposals <- 2,
    MaxRound <- 1, MaxFaults <- 1, round <- backupRound, next <- backupNext,
    pc <- backupPc, state <- backupState, job <- backupJob,
    processed <- backupProcessed, proposals <- backupProposals,
    pruned <- backupPruned, reselect <- backupReselect,
    schedulerRank <- backupSchedulerRank, poolRank <- backupPoolRank,
    flush <- backupFlush, discrepancy <- backupDiscrepancy,
    predicted <- backupPredicted, submitted <- backupSubmitted,
    signed <- backupSigned, published <- backupPublished,
    signFailed <- backupSignFailed, faults <- backupFaults
ASSUME BothRoles!ExecutorAssumption

-----------------------------------------------------------------------------
StorageInit ==
    \/ part = "storage" /\ Storage!Init
    \/ part = "oldNetwork" /\ OldNetwork!Init
    \/ part = "fillIn" /\ FilledIn!Init
    \/ part = "fillInCrash" /\ FilledInCrash!Init
    \/ part = "checkpoints" /\ Checkpoints!Init
    \/ part = "restore" /\ Restore!Init
    \/ /\ part \notin {"storage", "oldNetwork", "fillIn", "fillInCrash", "checkpoints", "restore"}
       /\ head = 0 /\ retained = 0 /\ blocks = 0 /\ lastRound = 0 /\ synced = 0
       /\ toPrune = 0 /\ db = 0 /\ phase = 0 /\ forced = 0 /\ cached = 0
       /\ applied = 0 /\ latest = 0 /\ seen = 0 /\ fill = 0 /\ attempts = 0
       /\ cp = 0 /\ syncing = 0 /\ summaries = 0 /\ pendingApply = 0
       /\ pendingFinalize = 0 /\ finalizing = 0 /\ available = 0
       /\ storageFaults = 0 /\ storageCrashes = 0
NodeDBInit ==
    \/ part = "candidates" /\ Candidates!Init
    \/ part = "pruned" /\ Pruned!Init
    \/ part = "ioRoots" /\ IORoots!Init
    \/ part = "multipart" /\ Multipart!Init
    \/ part = "multipartRetry" /\ MultipartRetry!Init
    \/ /\ part \notin {"candidates", "pruned", "ioRoots", "multipart", "multipartRetry"}
       /\ decided = 0 /\ final = 0 /\ nodes = 0 /\ pending = 0 /\ roots = 0
       /\ updated = 0 /\ meta = 0 /\ batches = 0 /\ insert = 0 /\ touched = 0
       /\ nodeDBCrashes = 0 /\ inserts = 0
ChurpInit ==
    \/ part = "dealing" /\ Dealing!Init
    \/ part = "retrying" /\ Retrying!Init
    \/ part = "changing" /\ Changing!Init
    \/ part = "degree" /\ Degree!Init
    \/ part = "updating" /\ Updating!Init
    \/ /\ part \notin {"dealing", "retrying", "changing", "degree", "updating"}
       /\ churpEpoch = 0 /\ churpStatus = 0 /\ churpTxs = 0 /\ churpWorker = 0
       /\ churpEnclave = 0 /\ churpDisk = 0 /\ replaced = 0 /\ updates = 0 /\ churpFaults = 0
SecretsInit ==
    \/ part = "rotating" /\ Rotating!Init
    \/ part = "rarer" /\ Rarer!Init
    \/ part = "stopped" /\ Stopped!Init
    \/ part = "joining" /\ Joining!Init
    \/ part = "replicating" /\ Replicating!Init
    \/ part = "majority" /\ Majority!Init
    \/ part = "ephemeral" /\ Ephemeral!Init
    \/ part = "policy" /\ PolicyUpdate!Init
    \/ /\ part \notin {"rotating", "rarer", "stopped", "joining", "replicating", "majority", "ephemeral", "policy"}
       /\ secretsEpoch = 0 /\ secretsStatus = 0 /\ secretsPublished = 0 /\ reg = 0
       /\ secretsTxs = 0 /\ secretsWorker = 0 /\ secretsEnclave = 0
       /\ secretsDisk = 0 /\ made = 0 /\ secretsFaults = 0
BackupInit ==
    \/ part = "resolving" /\ Resolving!Init
    \/ part = "bothRoles" /\ BothRoles!Init
    \/ /\ part \notin {"resolving", "bothRoles"}
       /\ backupRound = 0 /\ backupNext = 0 /\ backupPc = 0 /\ backupState = 0
       /\ backupJob = 0 /\ backupProcessed = 0 /\ backupProposals = 0
       /\ backupPruned = 0 /\ backupReselect = 0 /\ backupSchedulerRank = 0
       /\ backupPoolRank = 0 /\ backupFlush = 0 /\ backupDiscrepancy = 0
       /\ backupPredicted = 0 /\ backupSubmitted = 0 /\ backupSigned = 0
       /\ backupPublished = 0 /\ backupSignFailed = 0 /\ backupFaults = 0

SuiteInit == part \in Parts /\ Init /\ StorageInit /\ NodeDBInit /\ ChurpInit /\ SecretsInit /\ BackupInit

StorageNext ==
    /\ \/ part = "storage" /\ Storage!Next
       \/ part = "oldNetwork" /\ OldNetwork!Next
       \/ part = "fillIn" /\ FilledIn!Next
       \/ part = "fillInCrash" /\ FilledInCrash!Next
       \/ part = "checkpoints" /\ Checkpoints!Next
       \/ part = "restore" /\ Restore!Next
    /\ UNCHANGED <<part, nodeDBVars, churpVars, secretsVars, backupVars, vars>>
NodeDBNext ==
    /\ \/ part = "candidates" /\ Candidates!Next
       \/ part = "pruned" /\ Pruned!Next
       \/ part = "ioRoots" /\ IORoots!Next
       \/ part = "multipart" /\ Multipart!Next
       \/ part = "multipartRetry" /\ MultipartRetry!Next
    /\ UNCHANGED <<part, storageVars, churpVars, secretsVars, backupVars, vars>>
ChurpNext ==
    /\ \/ part = "dealing" /\ Dealing!Next
       \/ part = "retrying" /\ Retrying!Next
       \/ part = "changing" /\ Changing!Next
       \/ part = "degree" /\ Degree!Next
       \/ part = "updating" /\ Updating!Next
    /\ UNCHANGED <<part, storageVars, nodeDBVars, secretsVars, backupVars, vars>>
SecretsNext ==
    /\ \/ part = "rotating" /\ Rotating!Next
       \/ part = "rarer" /\ Rarer!Next
       \/ part = "stopped" /\ Stopped!Next
       \/ part = "joining" /\ Joining!Next
       \/ part = "replicating" /\ Replicating!Next
       \/ part = "majority" /\ Majority!Next
       \/ part = "ephemeral" /\ Ephemeral!Next
       \/ part = "policy" /\ PolicyUpdate!Next
    /\ UNCHANGED <<part, storageVars, nodeDBVars, churpVars, backupVars, vars>>
BackupNext ==
    /\ \/ part = "resolving" /\ Resolving!Next
       \/ part = "bothRoles" /\ BothRoles!Next
    /\ UNCHANGED <<part, storageVars, nodeDBVars, churpVars, secretsVars, vars>>
\* A worker that is the second scheduler in the first round and the first in
\* the next.
RootNext ==
    /\ part = "executing" /\ Next
    /\ UNCHANGED <<part, storageVars, nodeDBVars, churpVars, secretsVars, backupVars>>

SuiteNext == RootNext \/ StorageNext \/ NodeDBNext \/ ChurpNext \/ SecretsNext \/ BackupNext

SuiteSpec == SuiteInit /\ [][SuiteNext]_suiteVars

-----------------------------------------------------------------------------
\* Every variable stays in its type.
Typed ==
    /\ part = "storage" => Storage!TypeOK
    /\ part = "fillIn" => FilledIn!TypeOK
    /\ part = "checkpoints" => Checkpoints!TypeOK
    /\ part = "dealing" => Dealing!TypeOK
    /\ part = "updating" => Updating!TypeOK
    /\ part = "rotating" => Rotating!TypeOK
    /\ part = "ephemeral" => Ephemeral!TypeOK
    /\ part = "executing" => TypeOK

\* What the history reports as synced is in the database and not pruned; the
\* worker never gives up, applies and finalizes rounds in order and within the
\* limits, and offers its storage only when it is not far behind.
SyncRight ==
    /\ part = "storage" =>
          /\ Storage!SyncedIsUsable
          /\ Storage!NeverFails
          /\ Storage!WithinLimits
          /\ Storage!InOrder
          /\ Storage!AvailableWhenSynced
    /\ part = "oldNetwork" =>
          /\ OldNetwork!SyncedIsUsable
          /\ OldNetwork!NeverFails
    /\ part = "fillIn" => FilledIn!SyncedIsUsable /\ FilledIn!NeverFails
    /\ part = "checkpoints" =>
          /\ Checkpoints!SyncedIsUsable
          /\ Checkpoints!NeverFails
    /\ part = "restore" => Restore!SyncedIsUsable /\ Restore!NeverFails

\* The finalized root of every version that is not pruned can be read in full,
\* whatever rivals it had and wherever the node crashed; candidates do not
\* disturb each other, and nothing of a finalized version is left over.
DatabaseComplete ==
    /\ part = "candidates" =>
          /\ Candidates!FinalizedComplete
          /\ Candidates!CandidatesApart
          /\ Candidates!NoLeftovers
    /\ part = "pruned" =>
          /\ Pruned!FinalizedComplete
          /\ Pruned!CandidatesApart
          /\ Pruned!NoLeftovers
    /\ part = "ioRoots" =>
          /\ IORoots!FinalizedComplete
          /\ IORoots!CandidatesApart
          /\ IORoots!NoLeftovers
    /\ part = "multipart" => Multipart!FinalizedComplete

\* The storage worker gets through its start whatever the node did before.
SyncNeverFails ==
    /\ part = "fillInCrash" => FilledInCrash!NeverFails

\* A finalized root can be read in full, also after an insert that was aborted.
FinalizedComplete ==
    /\ part = "multipartRetry" => MultipartRetry!FinalizedComplete

\* Every member of a committee keeps its share of the last handoff wherever it
\* crashes, the nodes of a handoff never wait for what nobody can give unless an
\* application was repeated, and handoffs renew the shares and never the secret.
HandoffsRight ==
  [][/\ part = "dealing" =>
          /\ Dealing!SharesKept'
          /\ Dealing!HandoffNeverStuck'
          /\ Dealing!DealersKept'
          /\ Dealing!SecretKept
     /\ part = "retrying" =>
          /\ Retrying!SharesKept'
          /\ Retrying!HandoffNeverStuck'
          /\ Retrying!DealersKept'
          /\ Retrying!SecretKept
     /\ part = "changing" =>
          /\ Changing!SharesKept'
          /\ Changing!HandoffNeverStuck'
          /\ Changing!DealersKept'
          /\ Changing!SecretKept
     /\ part = "degree" => Degree!SharesKept' /\ Degree!HandoffNeverStuck'
     /\ part = "updating" => Updating!SharesKept' /\ Updating!SecretKept]_suiteVars

\* Every node of the key manager committee has stored every master secret
\* wherever it was restarted; enclaves use those that consensus accepted, and
\* the same ephemeral secret in an epoch.
MasterSecretsKept ==
    /\ part = "rotating" =>
          /\ Rotating!CommitteeHasSecrets
          /\ Rotating!SecretsAgree
    /\ part = "rarer" =>
          /\ Rarer!CommitteeHasSecrets
          /\ Rarer!SecretsAgree
    /\ part = "stopped" =>
          /\ Stopped!CommitteeHasSecrets
          /\ Stopped!SecretsAgree
    /\ part = "joining" =>
          /\ Joining!CommitteeHasSecrets
          /\ Joining!SecretsAgree
    /\ part = "replicating" =>
          /\ Replicating!CommitteeHasSecrets
          /\ Replicating!SecretsAgree
    /\ part = "majority" =>
          /\ Majority!CommitteeHasSecrets
          /\ Majority!SecretsAgree
    /\ part = "ephemeral" =>
          /\ Ephemeral!CommitteeHasSecrets
          /\ Ephemeral!SecretsAgree
    /\ part = "policy" =>
          /\ PolicyUpdate!CommitteeHasSecrets
          /\ PolicyUpdate!SecretsAgree

\* The chain of master secrets only grows, by one secret at a time and not more
\* often than the policy said until then.
RotationsRight ==
  [][/\ part = "rotating" => Rotating!RotationsRight
     /\ part = "rarer" => Rarer!RotationsRight
     /\ part = "stopped" => Stopped!RotationsRight
     /\ part = "joining" => Joining!RotationsRight]_suiteVars

\* Backup workers, and workers that are backup workers too, commit as they
\* should: they execute a batch only in its turn or under a discrepancy, once,
\* and never block.
RolesRight ==
    /\ part = "resolving" =>
          /\ Resolving!NeverBlocks
          /\ Resolving!NeverForgotten
          /\ Resolving!VotesOnce
          /\ Resolving!InTurn
    /\ part = "bothRoles" => BothRoles!CommitmentsRight
=============================================================================

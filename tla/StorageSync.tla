------------------------------ MODULE StorageSync ------------------------------
(***************************************************************************)
(* How a node follows the state of a runtime: the block indexer copies       *)
(* committed blocks from consensus into the runtime history, the storage     *)
(* worker fetches the state and I/O roots of each block from peers, applies  *)
(* and finalizes them in the node database and tells the history how far     *)
(* the state has been synced, and two pruners remove old blocks and old      *)
(* state.  The node may crash at any time; the history, the database and     *)
(* consensus survive.                                                       *)
(*                                                                         *)
(* Hashes are numbers, 0 is the hash of the empty root.  Peers are honest or *)
(* caught: a bad write log never passes the check of the expected root, and  *)
(* checkpoints whose root is not in the block header are left out.  That a   *)
(* root which the database has is complete is the matter of NodeDB.          *)
(***************************************************************************)
EXTENDS Integers, FiniteSets, FiniteSetsExt

CONSTANTS Genesis, MaxRound,    \* first round of the runtime, last round of the model
          StateOf, IOOf,        \* round |-> hash of the root in the block header
          InitialDBs,           \* databases the node may start with
          FirstRetained,        \* earliest round that consensus can tell about at first
          BatchSize,            \* of the reindexer
          NumKept,              \* blocks that the history pruner keeps
          MaxPendingVersions, MaxInFlightRounds,
          AvailableBelow, UnavailableAbove,   \* lag of the storage role
          CheckpointsAt,        \* rounds of which peers have checkpoints
          CheckpointSyncDisabled,
          MaxFaults, MaxCrashes \* bounds

Rounds == Genesis..MaxRound
Types  == {"io", "state"}
None   == -1

\* The round before the first one; "nothing synced yet".
UndefinedRound == Genesis - 1

StorageSyncAssumption ==
    /\ Genesis \in Nat \ {0} /\ MaxRound \in Nat /\ Genesis < MaxRound
    /\ StateOf \in [0..MaxRound -> Nat] /\ IOOf \in [Rounds -> Nat] /\ IOOf[Genesis] = 0
    /\ FirstRetained \in Rounds /\ CheckpointsAt \subseteq Rounds
    /\ BatchSize \in Nat \ {0} /\ NumKept \in Nat \ {0}
    /\ MaxPendingVersions \in Nat \ {0, 1} /\ MaxInFlightRounds \in Nat \ {0}
    /\ AvailableBelow <= UnavailableAbove /\ CheckpointSyncDisabled \in BOOLEAN

VARIABLES
    head, retained,  \* consensus: its latest round of the runtime, the earliest it can tell
    blocks, lastRound,  \* history: its blocks, the last round committed to it
    synced,          \* history: lastStorageSyncedRound, in memory
    toPrune,         \* history: the round in pruneCh, or None
    db,              \* node database: [state, io, last, earliest]
    phase,           \* of the storage worker
    forced, cached, applied, latest, seen, fill, attempts,
    cp,              \* checkpoint sync: [todo, prev, remaining]
    syncing,         \* round |-> [outstanding, awaitingRetry]
    summaries,       \* summaryCache: the rounds in it
    pendingApply,    \* fetched diffs
    pendingFinalize, \* rounds
    finalizing,      \* the round that is being finalized: [round, status]
    available,       \* the storage role
    faults, crashes

vars == <<head, retained, blocks, lastRound, synced, toPrune, db, phase, forced, cached, applied,
          latest, seen, fill, attempts, cp, syncing, summaries, pendingApply, pendingFinalize,
          finalizing, available, faults, crashes>>
histVars   == <<blocks, lastRound, toPrune>>
consVars   == <<head, retained>>
startVars  == <<forced, fill, attempts, cp>>
roundVars  == <<applied, latest, seen, syncing, summaries, pendingApply, pendingFinalize, finalizing, available>>
boundVars  == <<faults, crashes>>

NoCheckpoint == [todo |-> {}, prev |-> None, remaining |-> Types]
NoSyncing    == [r \in {} |-> [outstanding |-> {}, awaitingRetry |-> {}]]
Idle         == [round |-> None, status |-> "none"]

-----------------------------------------------------------------------------
(***************************************************************************)
(* The node database, by roots.                                             *)
(***************************************************************************)

HasState(d, v, h) == h = 0 \/ (v >= d.earliest /\ v \in DOMAIN d.state /\ d.state[v] = h)
HasRoot(d, t, r) ==
    IF t = "state" THEN HasState(d, r, StateOf[r]) ELSE IOOf[r] = 0 \/ (r >= d.earliest /\ r \in d.io)

PutState(d, v, h) == IF h = 0 THEN d ELSE [d EXCEPT !.state = [x \in DOMAIN @ \cup {v} |-> IF x = v THEN h ELSE @[x]]]
PutRoot(d, t, r) ==
    IF t = "state" THEN PutState(d, r, StateOf[r]) ELSE [d EXCEPT !.io = IF IOOf[r] = 0 THEN @ ELSE @ \cup {r}]

\* Apply succeeds at once if the root is there; otherwise the version must be
\* open and the root it builds on must be there.
CanApply(d, t, r) ==
    \/ HasRoot(d, t, r)
    \/ /\ d.last < r
       /\ t = "state" /\ r > Genesis => HasRoot(d, t, r - 1)

SetFinalized(d, r) == [d EXCEPT !.last = r, !.earliest = IF d.last = None THEN r ELSE @]

\* The versions of which the database holds roots that are not final yet.
PendingVersions(d) == {v \in DOMAIN d.state \cup d.io : v > d.last}

-----------------------------------------------------------------------------
(***************************************************************************)
(* Consensus, the indexer and the history.                                  *)
(***************************************************************************)

\* Consensus finalizes a round of the runtime.
NewBlock ==
    /\ head < MaxRound
    /\ head' = head + 1
    /\ UNCHANGED <<retained, histVars, synced, db, phase, cached, startVars, roundVars, boundVars>>

\* Consensus prunes only what the history has indexed.
CanPruneConsensus(r) == r <= lastRound

PruneConsensus ==
    /\ phase # "down" /\ retained < head /\ CanPruneConsensus(retained)
    /\ retained' = retained + 1
    /\ UNCHANGED <<head, histVars, synced, db, phase, cached, startVars, roundVars, boundVars>>

CommitMutant(rs) == blocks' = blocks \cup rs /\ lastRound' = Max(rs) + 1 /\ toPrune' = Max(rs)

Commit(rs) ==
    /\ blocks' = blocks \cup rs
    /\ lastRound' = Max(rs)
    /\ toPrune' = Max(rs)

\* A batch of reindexTo; when there is nothing left the history is initialized.
Reindex ==
    LET start == Max({lastRound + 1, retained})
    IN /\ phase = "reindex"
       /\ IF start <= head
          THEN Commit(start..Min({start + BatchSize - 1, head})) /\ UNCHANGED phase
          ELSE phase' = "start" /\ UNCHANGED histVars
       /\ UNCHANGED <<consVars, synced, db, cached, startVars, roundVars, boundVars>>

\* index: a block that consensus announces.
Index ==
    /\ phase \notin {"down", "reindex"} /\ lastRound < head
    /\ Commit({lastRound + 1})
    /\ UNCHANGED <<consVars, synced, db, phase, cached, startVars, roundVars, boundVars>>

CanPruneRuntimeMutant(rs) == synced # None /\ \A r \in rs : r <= synced + 1

\* The storage worker's prune handler.
CanPruneRuntime(rs) == synced # None /\ \A r \in rs : r < synced

\* keepLastPruner: all the blocks that are due, or none of them.
PruneHistory ==
    LET due == {r \in blocks : r <= toPrune - NumKept}
    IN /\ phase # "down" /\ toPrune # None
       /\ toPrune' = None
       /\ blocks' = IF due # {} /\ CanPruneRuntime(due) THEN blocks \ due ELSE blocks
       /\ UNCHANGED <<consVars, lastRound, synced, db, phase, cached, startVars, roundVars, boundVars>>

\* statePruner: a version before the earliest block of the history.
PruneState ==
    LET v == db.earliest
    IN /\ phase = "rounds" /\ blocks # {} /\ db.last # None
       /\ v < Min(blocks) /\ v < db.last
       /\ db' = [db EXCEPT !.state = [x \in DOMAIN @ \ {v} |-> @[x]], !.io = @ \ {v}, !.earliest = v + 1]
       /\ UNCHANGED <<consVars, histVars, synced, phase, cached, startVars, roundVars, boundVars>>

-----------------------------------------------------------------------------
(***************************************************************************)
(* The storage worker starts.                                               *)
(***************************************************************************)

\* flushSyncedState: the synced state and the checkpoint of the history.
FlushSyncedState(r) == synced' = r /\ cached' = r

\* Where the sync start check sends the worker: iterative sync needs the block
\* of its first round, or an earliest block whose state is still that of genesis.
StartCheck(last, initial) ==
    LET first == IF last = UndefinedRound THEN Genesis ELSE last
        early == Min(blocks)
    IN CASE first \in blocks -> IF initial /\ ~CheckpointSyncDisabled THEN "checkpoint" ELSE "rounds"
         [] first \notin blocks /\ blocks # {} /\ StateOf[early] = StateOf[Genesis] /\ IOOf[early] = 0 -> "fill"
         [] OTHER -> "forced"

Subscribe == /\ applied' = cached' /\ latest' = UndefinedRound /\ seen' = lastRound - 1
             /\ UNCHANGED <<syncing, summaries, pendingApply, pendingFinalize, finalizing, available>>

Enter(p) ==
    /\ phase' = IF p = "forced" THEN "checkpoint" ELSE p
    /\ forced' = (p = "forced")
    /\ IF p = "rounds" THEN Subscribe ELSE UNCHANGED roundVars

\* Serve, up to initGenesis or the sync start check.
Start ==
    LET known == db.last \in blocks
        last  == IF known /\ db.last >= Genesis THEN db.last ELSE UndefinedRound
    IN /\ phase = "start"
       /\ cached' = last
       /\ synced' = IF known THEN db.last ELSE None
       /\ fill' = Genesis /\ attempts' = 0 /\ cp' = NoCheckpoint
       /\ Enter(IF last = UndefinedRound THEN "leftover" ELSE StartCheck(last, FALSE))
       /\ UNCHANGED <<consVars, histVars, db, boundVars>>

LatestVersion == Max({db.last, 0})

\* Whether the database fits the state at genesis, as it is or filled in.
FitsGenesis ==
    CASE HasState(db, Min({LatestVersion, Genesis}), StateOf[Genesis]) -> "genesis"
      [] LatestVersion < Genesis -> "forced"
      [] OTHER -> "failed"

\* initGenesis finalizes the versions before genesis of which there is one state
\* root, one by one.
FinalizeLeftover ==
    LET v == db.last + 1
    IN /\ phase = "leftover" /\ UNCHANGED cached
       /\ IF db.last # None /\ v < Genesis /\ v \in DOMAIN db.state
          THEN db' = SetFinalized(db, v) /\ UNCHANGED <<phase, forced, roundVars>>
          ELSE Enter(FitsGenesis) /\ UNCHANGED db
       /\ UNCHANGED <<consVars, histVars, synced, fill, attempts, cp, boundVars>>

\* It fills in the versions up to genesis, each with an Apply and a Finalize.
InitGenesis ==
    LET v == LatestVersion + 1
        h == StateOf[Genesis]
    IN /\ phase = "genesis" /\ UNCHANGED cached
       /\ IF v <= Genesis
          THEN /\ db' = IF HasState(db, v, h) THEN SetFinalized(db, v) ELSE PutState(db, v, h)
               /\ UNCHANGED <<phase, forced, roundVars>>
          ELSE Enter(StartCheck(UndefinedRound, TRUE)) /\ UNCHANGED db
       /\ UNCHANGED <<consVars, histVars, synced, fill, attempts, cp, boundVars>>

\* What the fill in of a version does next.  Apply finds the root of a version
\* that is already finalized, so that Finalize is called and fails.
FillResult(v) ==
    CASE HasState(db, v, StateOf[Genesis]) -> IF db.last + 1 = v THEN "finalize" ELSE "failed"
      [] ~HasState(db, v, StateOf[Genesis]) /\ db.last < v -> "apply"
      [] OTHER -> "skip"

\* The versions up to the earliest block, and then checkpoint sync unless it is
\* disabled.
FillIn ==
    LET early == Min(blocks)
        v     == fill + 1
        res   == FillResult(v)
    IN /\ phase = "fill"
       /\ IF fill >= early
          THEN /\ FlushSyncedState(early)
               /\ Enter(IF CheckpointSyncDisabled THEN "rounds" ELSE "checkpoint")
               /\ UNCHANGED <<db, fill>>
          ELSE /\ fill' = IF res = "apply" THEN fill ELSE v
               /\ db' = CASE res = "finalize" -> SetFinalized(db, v)
                          [] res = "apply"    -> PutState(db, v, StateOf[Genesis])
                          [] OTHER            -> db
               /\ phase' = IF res = "failed" THEN "failed" ELSE phase
               /\ UNCHANGED <<synced, cached, forced, roundVars>>
       /\ UNCHANGED <<consVars, histVars, attempts, cp, boundVars>>

-----------------------------------------------------------------------------
(***************************************************************************)
(* Checkpoint sync.                                                         *)
(***************************************************************************)

Offered == {<<v, t>> \in CheckpointsAt \X Types :
    /\ v <= head /\ (CheckpointSyncDisabled => v = Genesis)
    /\ ~(v = Genesis /\ t = "io") /\ v \in blocks}

\* Another attempt: the checkpoints that peers report.
ListCheckpoints ==
    /\ phase = "checkpoint" /\ cp.todo = {}
    /\ UNCHANGED cached
    /\ IF ~forced /\ attempts > 1
       THEN Enter("rounds") /\ UNCHANGED <<attempts, cp>>
       ELSE /\ attempts' = Min({attempts + 1, 2})
            /\ \E list \in SUBSET Offered :
                cp' = [NoCheckpoint EXCEPT !.todo = list]
            /\ UNCHANGED <<phase, forced, roundVars>>
    /\ UNCHANGED <<consVars, histVars, synced, db, fill, boundVars>>

\* The roots of v that are left; another version begins a new multipart insert.
Remaining(v) == IF cp.prev = v THEN cp.remaining ELSE IF v = Genesis THEN {"state"} ELSE Types

Usable(v, t) == Max({synced, 0}) < v /\ t \in cp.remaining

\* handleCheckpoint of the next checkpoint of the list, newest versions first:
\* all chunks are restored, or it fails and the next one is tried, or the attempt
\* ends.  The root is there from its first chunk on.
RestoreCheckpoint(status) ==
    \E c \in cp.todo : LET v == c[1] t == c[2] left == Remaining(v) \ {t} IN
        /\ phase = "checkpoint"
        /\ \A o \in cp.todo : o[1] <= v
        /\ Usable(v, t)
        /\ status # "done" => faults < MaxFaults
        /\ faults' = IF status = "done" THEN faults ELSE faults + 1
        /\ \E d \in {PutRoot(db, t, v)} \cup (IF status = "done" THEN {} ELSE {db}) :
            IF status = "done" /\ left = {}
            THEN /\ cp' = NoCheckpoint
                 /\ db' = SetFinalized(d, v)
                 /\ FlushSyncedState(v)
                 /\ Enter("rounds")
            ELSE /\ cp' = [todo |-> IF status = "bail" THEN {} ELSE cp.todo \ {c}, prev |-> v,
                           remaining |-> IF status = "done" THEN left ELSE left \cup {t}]
                 /\ db' = d
                 /\ UNCHANGED <<synced, cached, phase, forced, roundVars>>
        /\ UNCHANGED <<consVars, histVars, fill, attempts, crashes>>

SkipCheckpoint ==
    \E c \in cp.todo :
        /\ phase = "checkpoint"
        /\ \A o \in cp.todo : o[1] <= c[1]
        /\ ~Usable(c[1], c[2])
        /\ cp' = [cp EXCEPT !.todo = @ \ {c}]
        /\ UNCHANGED <<consVars, histVars, synced, db, cached, phase, roundVars, forced, fill, attempts, boundVars>>

-----------------------------------------------------------------------------
(***************************************************************************)
(* The main loop.                                                           *)
(***************************************************************************)

NudgeAvailability(last, la) ==
    available' = IF last = UndefinedRound \/ la = UndefinedRound THEN available
                 ELSE IF la >= last /\ la - last < AvailableBelow THEN TRUE
                 ELSE IF la < last \/ la - last > UnavailableAbove THEN FALSE
                 ELSE available

\* triggerRoundFetches: rounds begin while there is room, and what awaits
\* a retry is fetched again.
TriggerRoundFetches(sy, ap, la) ==
    LET fresh == {i \in (ap + 1)..la : i \notin DOMAIN sy /\ i - ap <= MaxInFlightRounds}
    IN [i \in DOMAIN sy \cup fresh |->
           IF i \in fresh THEN [outstanding |-> Types, awaitingRetry |-> {}]
           ELSE [outstanding |-> sy[i].outstanding \cup sy[i].awaitingRetry, awaitingRetry |-> {}]]

Retry(sy, r, t) == [sy EXCEPT ![r].outstanding = @ \ {t}, ![r].awaitingRetry = @ \cup {t}]

BelowPendingLimit == Cardinality(pendingFinalize) < MaxPendingVersions - 1

NextDiffs == {d \in pendingApply : d.round = applied + 1}

\* What the loop does before it waits for events.
ApplyReady    == NextDiffs # {} /\ BelowPendingLimit
FinalizeReady == cached + 1 \in pendingFinalize
Waiting       == phase = "rounds" /\ ~ApplyReady /\ ~FinalizeReady

Fetching(r, t) == r \in DOMAIN syncing /\ t \in syncing[r].outstanding /\ ~\E d \in pendingApply : d.round = r /\ d.type = t

BlockEvent ==
    LET r    == seen + 1
        need == (IF applied = UndefinedRound THEN applied + 1 ELSE applied)..(r - 1) \ summaries
    IN /\ Waiting /\ r <= lastRound
       /\ seen' = r /\ latest' = r
       /\ NudgeAvailability(cached, r)
       /\ IF need \subseteq blocks
          THEN /\ summaries' = summaries \cup need \cup {r} \cup (IF applied = UndefinedRound THEN {applied} ELSE {})
               /\ syncing' = TriggerRoundFetches(syncing, applied, r)
               /\ UNCHANGED phase
          ELSE phase' = "failed" /\ UNCHANGED <<summaries, syncing>>
       /\ UNCHANGED <<consVars, histVars, synced, db, cached, startVars, applied, pendingApply,
                      pendingFinalize, finalizing, boundVars>>

HeartbeatMutant ==
    /\ Waiting /\ latest # UndefinedRound /\ syncing' = syncing
    /\ UNCHANGED <<consVars, histVars, synced, db, phase, cached, startVars, applied, latest, seen, summaries,
                   pendingApply, pendingFinalize, finalizing, available, boundVars>>

Heartbeat ==
    /\ Waiting /\ latest # UndefinedRound
    /\ syncing' = TriggerRoundFetches(syncing, applied, latest)
    /\ UNCHANGED <<consVars, histVars, synced, db, phase, cached, startVars, applied, latest, seen, summaries,
                   pendingApply, pendingFinalize, finalizing, available, boundVars>>

\* fetchDiff, and the event it ends in: the root is there, the diff is empty, a
\* peer answers, with a good or a bad write log, or no peer does.
FetchDiff(r, t, answer) ==
    LET local == HasRoot(db, t, r)
    IN /\ Waiting /\ Fetching(r, t)
       /\ answer # "good" => ~local /\ faults < MaxFaults
       /\ faults' = IF answer = "good" THEN faults ELSE faults + 1
       /\ IF answer = "error"
          THEN syncing' = Retry(syncing, r, t) /\ UNCHANGED pendingApply
          ELSE /\ pendingApply' = pendingApply \cup
                      {[round |-> r, type |-> t, fetched |-> ~local, bad |-> answer = "bad"]}
               /\ syncing' = TriggerRoundFetches(syncing, applied, latest)
       /\ UNCHANGED <<consVars, histVars, synced, db, phase, cached, startVars, applied, latest, seen,
                      summaries, pendingFinalize, finalizing, available, crashes>>

\* Apply checks the new root against the expected one.
ApplyDiff(d) ==
    CASE ~d.fetched -> <<TRUE, db>>
      [] d.fetched /\ (d.bad \/ ~CanApply(db, d.type, d.round)) -> <<FALSE, db>>
      [] OTHER -> <<TRUE, PutRoot(db, d.type, d.round)>>

ApplyNext(d) ==
    LET r    == d.round
        res  == ApplyDiff(d)
        out  == syncing[r].outstanding \ {d.type}
        done == out = {} /\ syncing[r].awaitingRetry = {}
    IN /\ phase = "rounds" /\ ApplyReady /\ d \in NextDiffs
       /\ pendingApply' = pendingApply \ {d}
       /\ db' = res[2]
       /\ IF ~res[1] THEN syncing' = Retry(syncing, r, d.type) /\ UNCHANGED <<applied, summaries, pendingFinalize>>
          ELSE IF ~done THEN syncing' = [syncing EXCEPT ![r].outstanding = out] /\ UNCHANGED <<applied, summaries, pendingFinalize>>
          ELSE /\ syncing' = [x \in DOMAIN syncing \ {r} |-> syncing[x]]
               /\ summaries' = summaries \ {r - 1}
               /\ applied' = r
               /\ pendingFinalize' = pendingFinalize \cup {r}
       /\ UNCHANGED <<consVars, histVars, synced, phase, cached, startVars, latest, seen, finalizing, available, boundVars>>

StartFinalize ==
    /\ phase = "rounds" /\ ~ApplyReady /\ FinalizeReady
    /\ pendingFinalize' = pendingFinalize \ {cached + 1}
    /\ finalizing' = [round |-> cached + 1, status |-> "running"]
    /\ UNCHANGED <<consVars, histVars, synced, db, phase, cached, startVars, applied, latest, seen, syncing,
                   summaries, pendingApply, available, boundVars>>

\* finalize, in a goroutine of its own: an already finalized round is fine.
Finalize ==
    LET r  == finalizing.round
        ok == db.last \in {None, r - 1} /\ \A t \in Types : HasRoot(db, t, r)
    IN /\ finalizing.status = "running"
       /\ db' = IF db.last >= r \/ ~ok THEN db ELSE SetFinalized(db, r)
       /\ finalizing' = [finalizing EXCEPT !.status = IF db.last >= r \/ ok THEN "ok" ELSE "error"]
       /\ UNCHANGED <<consVars, histVars, synced, phase, cached, startVars, applied, latest, seen, syncing,
                      summaries, pendingApply, pendingFinalize, available, boundVars>>

Finalized ==
    /\ Waiting /\ finalizing.status \in {"ok", "error"}
    /\ finalizing' = Idle
    /\ IF finalizing.status = "ok"
       THEN FlushSyncedState(finalizing.round) /\ NudgeAvailability(cached', latest) /\ UNCHANGED phase
       ELSE phase' = "failed" /\ UNCHANGED <<synced, cached, available>>
    /\ UNCHANGED <<consVars, histVars, db, startVars, applied, latest, seen, syncing, summaries, pendingApply,
                   pendingFinalize, boundVars>>

-----------------------------------------------------------------------------
Crash ==
    /\ phase \notin {"down"} /\ crashes < MaxCrashes
    /\ crashes' = crashes + 1 /\ phase' = "down"
    /\ synced' = None /\ toPrune' = None /\ cached' = UndefinedRound
    /\ forced' = FALSE /\ fill' = Genesis /\ attempts' = 0 /\ cp' = NoCheckpoint
    /\ applied' = UndefinedRound /\ latest' = UndefinedRound /\ seen' = 0
    /\ syncing' = NoSyncing /\ summaries' = {} /\ pendingApply' = {} /\ pendingFinalize' = {}
    /\ finalizing' = Idle /\ available' = FALSE
    /\ UNCHANGED <<consVars, blocks, lastRound, db, faults>>

Restart ==
    /\ phase = "down"
    /\ phase' = "reindex"
    /\ UNCHANGED <<consVars, histVars, synced, db, cached, startVars, roundVars, boundVars>>

Init ==
    /\ head = FirstRetained /\ retained = FirstRetained
    /\ blocks = {} /\ lastRound = 0 /\ toPrune = None /\ synced = None
    /\ db \in InitialDBs
    /\ phase = "reindex" /\ cached = UndefinedRound
    /\ forced = FALSE /\ fill = Genesis /\ attempts = 0 /\ cp = NoCheckpoint
    /\ applied = UndefinedRound /\ latest = UndefinedRound /\ seen = 0
    /\ syncing = NoSyncing /\ summaries = {} /\ pendingApply = {} /\ pendingFinalize = {}
    /\ finalizing = Idle /\ available = FALSE
    /\ faults = 0 /\ crashes = 0

WorkerStep ==
    \/ Start \/ FinalizeLeftover \/ InitGenesis \/ FillIn \/ ListCheckpoints \/ SkipCheckpoint
    \/ \E s \in {"done", "next", "bail"} : RestoreCheckpoint(s)
    \/ BlockEvent \/ Heartbeat \/ StartFinalize \/ Finalize \/ Finalized
    \/ \E d \in pendingApply : ApplyNext(d)

Next ==
    \/ NewBlock \/ PruneConsensus \/ Reindex \/ Index \/ PruneHistory \/ PruneState
    \/ WorkerStep
    \/ \E r \in DOMAIN syncing, t \in Types, a \in {"good", "bad", "error"} : FetchDiff(r, t, a)
    \/ Crash \/ Restart

-----------------------------------------------------------------------------
Status == {"none", "running", "ok", "error"}

\* Every variable stays in its type.
TypeOK ==
    /\ head \in Rounds /\ retained \in Rounds
    /\ blocks \subseteq Rounds /\ lastRound \in {0} \cup Rounds
    /\ synced \in {None} \cup 0..MaxRound /\ toPrune \in {None} \cup Rounds
    /\ db.last \in {None} \cup 0..MaxRound /\ db.io \subseteq Rounds
    /\ phase \in {"down", "reindex", "start", "leftover", "genesis", "fill", "checkpoint", "rounds", "failed"}
    /\ cached \in {UndefinedRound} \cup Rounds /\ applied \in {UndefinedRound} \cup Rounds
    /\ DOMAIN syncing \subseteq Rounds /\ finalizing.status \in Status
    /\ available \in BOOLEAN

\* The round that the history reports as synced has its block, and all its
\* roots are in the database: finalized, complete and not pruned.
SyncedIsUsable ==
    synced >= Genesis =>
        /\ synced \in blocks /\ synced <= db.last
        /\ synced >= db.earliest
        /\ \A t \in Types : HasRoot(db, t, synced)

\* The worker never gives up: the history keeps every block it still needs,
\* whatever is pruned and wherever the node crashes.
NeverFails == phase # "failed"

\* The limits of the database hold: it never has more open versions than it
\* allows, and the blocks that a fetch refers to are in the cache.
WithinLimits ==
    /\ Cardinality(PendingVersions(db)) <= MaxPendingVersions
    /\ Cardinality(DOMAIN syncing) <= MaxInFlightRounds
    /\ \A r \in DOMAIN syncing : {r - 1, r} \subseteq summaries

\* Rounds are applied and finalized in order, and each only once: what waits for
\* finalization are the rounds between the finalized and the applied one.
InOrder ==
    phase = "rounds" =>
        /\ pendingFinalize \cup ({finalizing.round} \ {None}) = (cached + 1)..applied
        /\ \A r \in (cached + 1)..applied, t \in Types : HasRoot(db, t, r)

\* A node that offers its storage to others is not far behind.
AvailableWhenSynced == available => latest >= cached /\ latest - cached <= UnavailableAbove

\* Everything that is committed is synced some time.
SyncsUp == \A r \in Rounds : head >= r ~> synced >= r
================================================================================

-------------------------------- MODULE Upgrade --------------------------------
(***************************************************************************)
(* One node on its way through upgrades: the pending upgrades of the         *)
(* governance application in the replicated state, the descriptors of the    *)
(* node's upgrade manager in memory and in its own store, and the ABCI       *)
(* multiplexer, which calls both while it executes proposed blocks, while it *)
(* executes and commits decided ones, and when it starts.  The node may      *)
(* crash at any time and is started again by its operator, with the same     *)
(* binary or a newer one.                                                    *)
(***************************************************************************)
EXTENDS Integers, FiniteSets, Sequences, SequencesExt

CONSTANTS Descriptors,
          EpochOf, TargetOf,   \* of a descriptor: its epoch, the binary it needs
          HasStartupUpgrade,   \* descriptor |-> its handler has a startup part
          Interval,            \* blocks per epoch
          MaxHeight, MaxCrashes, MaxBinary,   \* bounds
          Undecided,           \* blocks are executed that are proposed but not decided,
                               \* with other outcomes of governance proposals
          PowerLoss            \* a crash may lose the last block of the state database

UpgradeAssumption ==
    /\ EpochOf \in [Descriptors -> Nat \ {0}] /\ TargetOf \in [Descriptors -> 0..MaxBinary]
    /\ HasStartupUpgrade \in [Descriptors -> BOOLEAN]
    /\ Interval \in Nat \ {0} /\ MaxHeight \in Nat /\ MaxCrashes \in Nat /\ MaxBinary \in Nat
    /\ Undecided \in BOOLEAN /\ PowerLoss \in BOOLEAN

EpochAt(h) == h \div Interval
EpochStarts(h) == h % Interval = 0

\* The outcome of governance in a block: nothing, an upgrade passes, or the
\* cancellation of one does.
Outcomes == [op : {"pass", "cancel"}, d : Descriptors] \cup {[op |-> "none"]}

VARIABLES
    state,      \* the committed state: [height, gov, migrated]
    previous,   \* the state before the last block
    decided,    \* height |-> the outcome in the decided block
    working,    \* the state after the executed proposal, or None
    pending,    \* the upgrade manager's list: [d, height, stage]
    store,      \* and what it has written of it
    shouldStop, \* the upgrade manager waits for the node to stop
    up, binary, crashes,
    tried,      \* history: <<height, outcome>> applied locally but not committed
    strays,     \* history: upgrades of outcomes that were applied and not decided
    panicked    \* an assertion of the code failed

vars == <<state, previous, decided, working, pending, store, shouldStop, up, binary, crashes, tried, strays, panicked>>

None == [height |-> -1, gov |-> {}, migrated |-> {}, outcome |-> [op |-> "none"]]

-----------------------------------------------------------------------------
(***************************************************************************)
(* The upgrade manager.  Stage 0: none, 1: startup, 2: consensus.            *)
(***************************************************************************)

\* flushDescriptorLocked drops completed upgrades and saves the rest.
Flush(list) == SelectSeq(list, LAMBDA pu : pu.stage < 2)

SubmitDescriptor(list, d) ==
    IF \E i \in DOMAIN list : list[i].d = d THEN list
    ELSE Append(list, [d |-> d, height |-> 0, stage |-> 0])

\* An upgrade in progress is not canceled.
CancelUpgrade(list, d) ==
    IF \E i \in DOMAIN list : list[i].d = d /\ (list[i].height # 0 \/ list[i].stage > 0) THEN list
    ELSE SelectSeq(list, LAMBDA pu : pu.d # d)

EnsureCompatibleMutant(d, b) == TargetOf[d] < b

EnsureCompatible(d, b) == TargetOf[d] = b

\* Reaching the epoch: the node stops unless this binary can go on at once.
MustStop(d, b) == ~EnsureCompatible(d, b) \/ HasStartupUpgrade[d]

ReachedMutant(pu, epoch) == pu.height = 0 /\ epoch + 1 >= EpochOf[pu.d]

Reached(pu, epoch) == pu.height = 0 /\ epoch >= EpochOf[pu.d]

\* One upgrade in ConsensusUpgrade; acc: [list, stop, panic, mig].
UpgradeStep(acc, pu, epoch, height, inBlock, b) ==
    LET reached == Reached(pu, epoch)
        at      == IF reached THEN [pu EXCEPT !.height = height] ELSE pu
        started == IF reached THEN [at EXCEPT !.stage = 1] ELSE at
        Keep(x) == [acc EXCEPT !.list = Append(@, x)]
    IN IF acc.stop \/ acc.panic \/ at.height = 0 THEN Keep(pu)
       ELSE IF reached /\ MustStop(pu.d, b) THEN [Keep(at) EXCEPT !.stop = TRUE]
       ELSE IF started.height < height
            THEN [Keep([started EXCEPT !.stage = 2]) EXCEPT !.panic = started.stage # 1]
       ELSE IF started.height > height THEN [Keep(started) EXCEPT !.panic = TRUE]
       ELSE [Keep(started) EXCEPT !.mig = IF inBlock THEN @ \cup {pu.d} ELSE @]

\* ConsensusUpgrade(ctx, epoch, height).
ConsensusUpgrade(list, stopped, epoch, height, inBlock, b) ==
    FoldLeft(LAMBDA acc, pu : UpgradeStep(acc, pu, epoch, height, inBlock, b),
             [list |-> <<>>, stop |-> stopped, panic |-> FALSE, mig |-> {}], list)

-----------------------------------------------------------------------------
(***************************************************************************)
(* Blocks.                                                                  *)
(***************************************************************************)

\* Governance's BeginBlock: the upgrade of a new epoch must be under way.
GovernanceAllows(gov, list, h) ==
    EpochStarts(h) => \A d \in gov : EpochOf[d] = EpochAt(h) =>
        \E i \in DOMAIN list : list[i].d = d /\ list[i].stage >= 1

GovernanceBegin(gov, h) ==
    IF EpochStarts(h) THEN {d \in gov : EpochOf[d] # EpochAt(h)} ELSE gov

\* What a block may decide: proposals close when an epoch begins.
Possible(gov, h, o) ==
    o.op # "none" =>
        /\ EpochStarts(h) /\ EpochOf[o.d] > EpochAt(h)
        /\ (o.op = "pass") <=> (o.d \notin gov)

GovernanceEnd(gov, o) ==
    CASE o.op = "none" -> gov [] o.op = "pass" -> gov \cup {o.d} [] o.op = "cancel" -> gov \ {o.d}

LocalEnd(list, o) ==
    CASE o.op = "none" -> list
      [] o.op = "pass" -> Flush(SubmitDescriptor(list, o.d))
      [] o.op = "cancel" -> Flush(CancelUpgrade(list, o.d))

Halt(list) == /\ up' = FALSE /\ store' = list /\ pending' = <<>> /\ working' = None /\ shouldStop' = FALSE

\* BeginBlock and EndBlock of a block, proposed or decided.
ExecuteBlock(o) ==
    LET h     == state.height + 1
        begin == ConsensusUpgrade(pending, shouldStop, EpochAt(h), state.height, TRUE, binary)
        list1 == Flush(begin.list)
        gov1  == GovernanceBegin(state.gov, h)
        end   == ConsensusUpgrade(LocalEnd(list1, o), FALSE, EpochAt(h), state.height, TRUE, binary)
        list2 == Flush(end.list)
    IN /\ up /\ ~panicked /\ h <= MaxHeight
       /\ Possible(gov1, h, o)
       /\ h \in DOMAIN decided => decided[h] = o
       /\ decided' = IF Undecided \/ h \in DOMAIN decided THEN decided ELSE Append(decided, o)
       /\ panicked' = (begin.panic \/ end.panic)
       /\ tried' = IF begin.stop \/ begin.panic \/ ~GovernanceAllows(state.gov, list1, h) THEN tried
                   ELSE tried \cup {<<h, o>>}
       /\ IF begin.stop \/ begin.panic \/ ~GovernanceAllows(state.gov, list1, h) THEN Halt(list1)
          ELSE IF end.stop \/ end.panic THEN Halt(list2)
          ELSE /\ pending' = list2 /\ store' = list2
               /\ working' = [height |-> h, gov |-> GovernanceEnd(gov1, o), outcome |-> o,
                              migrated |-> state.migrated \cup {<<d, h>> : d \in begin.mig \cup end.mig}]
               /\ UNCHANGED <<shouldStop, up>>
       /\ UNCHANGED <<state, previous, binary, crashes, strays>>

\* Commit: the state, and then maybeHaltForUpgrade, which asks the node to stop
\* but does not wait; the node may crash between the two.
Commit(crash) ==
    LET h   == working.height
        acc == ConsensusUpgrade(pending, shouldStop, EpochAt(h + 1), h, FALSE, binary)
    IN /\ up /\ ~panicked /\ working # None
       /\ state' = [height |-> h, gov |-> working.gov, migrated |-> working.migrated]
       /\ previous' = state
       /\ decided' = IF h \in DOMAIN decided THEN decided ELSE Append(decided, working.outcome)
       /\ strays' = strays \cup {t[2].d : t \in {x \in tried : x[1] = h /\ x[2].op # "none" /\ x[2] # working.outcome}}
       /\ tried' = {t \in tried : t[1] # h}
       /\ IF crash
          THEN /\ crashes < MaxCrashes /\ crashes' = crashes + 1
               /\ Halt(store) /\ panicked' = panicked
          ELSE /\ UNCHANGED crashes
               /\ panicked' = acc.panic
               /\ IF acc.panic THEN Halt(Flush(acc.list))
                  ELSE /\ pending' = Flush(acc.list) /\ store' = Flush(acc.list)
                       /\ shouldStop' = acc.stop
                       /\ working' = None /\ UNCHANGED up
       /\ UNCHANGED binary

\* The halt hooks have stopped the node, before it was asked to execute the
\* next block.
Stop ==
    /\ up /\ shouldStop
    /\ Halt(store)
    /\ UNCHANGED <<state, previous, decided, binary, crashes, tried, strays, panicked>>

Crash ==
    /\ up /\ crashes < MaxCrashes /\ crashes' = crashes + 1
    /\ Halt(store)
    /\ UNCHANGED <<state, previous, decided, binary, tried, strays, panicked>>

\* The power fails and the state database, which is not synced, has lost a
\* block.
LosePower ==
    /\ PowerLoss /\ up /\ crashes < MaxCrashes /\ crashes' = crashes + 1
    /\ state' = previous
    /\ Halt(store)
    /\ UNCHANGED <<previous, decided, binary, tried, strays, panicked>>

\* checkStatus: no start in the middle of an upgrade this binary does not know.
CheckStatus(list, b) ==
    \A i \in DOMAIN list : list[i].height # 0 => EnsureCompatible(list[i].d, b)

StartupUpgrade(list) ==
    [i \in DOMAIN list |-> IF list[i].height # 0 /\ list[i].stage = 0
                           THEN [list[i] EXCEPT !.stage = 1] ELSE list[i]]

\* completeStateSync submits what the replicated state has pending.
CompleteStateSync(list, gov) == FoldLeft(SubmitDescriptor, list, SetToSeq(gov))

Restart(b) ==
    /\ ~up /\ ~panicked /\ b \in {x \in 0..MaxBinary : x >= binary}
    /\ CheckStatus(store, b)
    /\ pending' = CompleteStateSync(Flush(StartupUpgrade(store)), state.gov)
    /\ store' = pending'
    /\ up' = TRUE /\ binary' = b /\ shouldStop' = FALSE /\ working' = None
    /\ UNCHANGED <<state, previous, decided, crashes, tried, strays, panicked>>

-----------------------------------------------------------------------------
Init ==
    /\ state = [height |-> 0, gov |-> {}, migrated |-> {}]
    /\ previous = state /\ decided = <<>> /\ working = None
    /\ pending = <<>> /\ store = <<>>
    /\ shouldStop = FALSE /\ up = TRUE /\ binary = 0 /\ crashes = 0 /\ panicked = FALSE
    /\ tried = {} /\ strays = {}

Next ==
    \/ \E o \in Outcomes : ExecuteBlock(o)
    \/ \E crash \in BOOLEAN : Commit(crash)
    \/ Stop
    \/ Crash
    \/ LosePower
    \/ \E b \in 0..MaxBinary : Restart(b)

Spec == Init /\ [][Next]_vars

\* CometBFT goes on executing and committing blocks, and the operator of a
\* node that is down keeps trying to start it with each of the binaries.
FairSpec ==
    /\ Spec
    /\ WF_vars(\E o \in Outcomes : ExecuteBlock(o))
    /\ WF_vars(Commit(FALSE))
    /\ \A b \in 0..MaxBinary : SF_vars(Restart(b))

-----------------------------------------------------------------------------
(***************************************************************************)
(* Properties.                                                              *)
(***************************************************************************)

TypeOK ==
    /\ state.height \in 0..MaxHeight /\ state.gov \subseteq Descriptors
    /\ Len(decided) <= MaxHeight /\ up \in BOOLEAN /\ binary \in 0..MaxBinary
    /\ \A i \in DOMAIN pending : pending[i].stage \in 0..1 /\ pending[i].height \in 0..MaxHeight
    /\ up => store = pending

\* Approved: a decided block let d pass, no later one canceled it.
Approved(d) ==
    \E h \in DOMAIN decided : /\ decided[h] = [op |-> "pass", d |-> d]
                              /\ \A k \in DOMAIN decided : k > h => decided[k] # [op |-> "cancel", d |-> d]

\* The first block of the epoch of d.
UpgradeBlock(d) == EpochOf[d] * Interval

\* The chain never passes the epoch of an approved upgrade without the
\* migration: it is part of the first block of the epoch and of no other,
\* wherever the node crashed and whatever binary it was started with.
MigratedExactlyOnce ==
    \A d \in Descriptors : Approved(d) =>
        {h \in 0..MaxHeight : <<d, h>> \in state.migrated} =
            IF state.height >= UpgradeBlock(d) THEN {UpgradeBlock(d)} ELSE {}

\* A migration is only carried out for an upgrade the chain has approved, except
\* when the node has executed a block that was not decided, in which the
\* upgrade passed or was canceled: the upgrade manager keeps what it did for it.
OnlyApprovedMigrates == \A m \in state.migrated : Approved(m[1]) \/ m[1] \in strays

\* The block that begins the epoch of an approved upgrade, and every later one
\* until the next, is committed by the binary the upgrade is for.
RightBinary ==
    \A d \in Descriptors :
        (state.height < UpgradeBlock(d) /\ state'.height = UpgradeBlock(d) /\ Approved(d))
            => binary = TargetOf[d]

\* Stages complete in order and an upgrade height is never in the future (the
\* assertions of PushStage and ConsensusUpgrade).  A crash in the middle of an
\* upgrade is safe: the block is executed again on restart.
NeverPanics == ~panicked

\* A node that is restarted gets through every upgrade.
ReachesEnd == <>(state.height = MaxHeight)
=============================================================================

------------------------------ MODULE RootHash ------------------------------
(***************************************************************************)
(* The roothash application's state machine for one compute runtime        *)
(* (go/consensus/cometbft/apps/roothash): a consensus block is BeginBlock   *)
(* (committee changes), any number of transactions and EndBlock (round      *)
(* finalization, then round timeouts).  Runtimes do not share any of this   *)
(* state, so one runtime is enough.                                         *)
(*                                                                          *)
(* `st` is the consensus state of the runtime: roothash.RuntimeState, the   *)
(* round timeout queue (the heights at which this runtime is queued) and    *)
(* the incoming message queue.  Block and header hashes are abstracted to   *)
(* the round (every round has one block), message bodies to the sequence    *)
(* number, so an InMessagesHash is a sequence of numbers.                   *)
(***************************************************************************)
EXTENDS CommitmentPool, FiniteSetsExt

CONSTANTS
    Root,           \* state roots
    ValidRoot,      \* the roots an honest execution of some batch can produce
    GenesisRoot,
    Faulty,         \* nodes that may sign anything
    Committees,     \* committees the scheduler may elect
    Nil,            \* nil pointers: no committee, no pool, no statistics
    RoundTimeout,   \* Executor.RoundTimeout, in consensus blocks
    MaxInMessages,  \* TxnScheduler.MaxInMessages
    Version261,     \* is the consensus feature version 26.1 active?
    MaxCommits,     \* bound on the commitments in one transaction (1 or 2)
    MaxHeight,      \* bound on consensus heights
    MaxRound,       \* bound on runtime rounds
    MaxMessages     \* bound on submitted incoming messages

\* Liveness statistics of a committee's epoch.
Stats == [total : Nat, live : [Node -> Nat], finalized : [Node -> Nat], missed : [Node -> Nat]]

ASSUME RootHashAssumption ==
    /\ ValidRoot \subseteq Root /\ GenesisRoot \in ValidRoot
    /\ Result \subseteq [root : Root, inCount : Nat, inHash : Seq(Nat)]
    /\ Faulty \subseteq Node
    /\ \A c \in Committees : IsCommittee(c)
    /\ Nil \notin Committees /\ Nil \notin Pool /\ Nil \notin Stats
    /\ RoundTimeout \in Nat \ {0}
    /\ {MaxInMessages, MaxCommits, MaxHeight, MaxRound, MaxMessages} \subseteq Nat
    /\ Version261 \in BOOLEAN

VARIABLES
    height,     \* height of the block being processed, or of the last one
    phase,      \* "begin": BeginBlock is next; "deliver": transactions or EndBlock
    active,     \* the registry lists the runtime as active (not suspended)
    pending,    \* the runtime is registered for finalization in this block
    st,         \* consensus state of the runtime
    nextSeq,    \* NextSequenceNumber of the incoming message queue
    ghost       \* history: round of the last committee change, height of the first scheduler commitment

vars == <<height, phase, active, pending, st, nextSeq, ghost>>

TimeoutNever == 0

\* The 15/10 stretch factor of the round timeout for backup workers.
BackupTimeout == (RoundTimeout * 15) \div 10

NewLivenessStatistics ==
    LET zero == [n \in Node |-> 0]
    IN  [total |-> 0, live |-> zero, finalized |-> zero, missed |-> zero]

State == [suspended : BOOLEAN, committee : Committees \cup {Nil},
          pool : Pool \cup {Nil}, stats : Stats \cup {Nil},
          round : Nat, kind : {"Normal", "RoundFailed", "EpochTransition", "Suspended"},
          root : Root, lastNormalRound : Nat, nextTimeout : Nat,
          timeouts : SUBSET Nat, queue : Seq(Nat), queueSize : Int, failed : BOOLEAN]

-----------------------------------------------------------------------------
(* Helpers of the handlers; each returns the updated consensus state.       *)

RearmMutant(s, next) ==
    [s EXCEPT !.nextTimeout = next,
              !.timeouts = @ \cup (IF next = TimeoutNever THEN {} ELSE {next})]

RearmRoundTimeout(s, next) ==
    [s EXCEPT !.nextTimeout = next,
              !.timeouts = (s.timeouts \ {s.nextTimeout})
                             \cup (IF next = TimeoutNever THEN {} ELSE {next})]

FinalizeBlock(s, kind, root) ==
    RearmRoundTimeout(
        [s EXCEPT !.round = @ + 1, !.kind = kind, !.root = root,
                  !.lastNormalRound = IF kind = "Normal" THEN s.round + 1 ELSE @,
                  !.pool = IF kind = "Suspended" THEN Nil ELSE NewPool],
        TimeoutNever)

PrimaryScheduler(s) == s.committee.workers[SchedulerIdx(s.committee, s.round + 1, 0)]

\* SchedulerID of the commitment that is being finalized.
SchedulerOf(s) ==
    s.committee.workers[SchedulerIdx(s.committee, s.round + 1, s.pool.highestRank)]

FailRound(s) ==
    FinalizeBlock([s EXCEPT !.stats.missed[PrimaryScheduler(s)] = @ + 1],
                  "RoundFailed", s.root)

\* Rounds and proposals are counted when the commitment has been accepted ...
CountProposalMutant(s) ==
    [s EXCEPT !.stats.total = @ + 1, !.stats.finalized[SchedulerOf(s)] = @ + 1,
              !.stats.missed[PrimaryScheduler(s)] = @ + 1]

CountProposal(s) ==
    LET counted == [s.stats EXCEPT !.total = @ + 1]
        primary == PrimaryScheduler(s)
    IN  [s EXCEPT !.stats = IF SchedulerOf(s) = primary
                            THEN [counted EXCEPT !.finalized[primary] = @ + 1]
                            ELSE [counted EXCEPT !.missed[primary] = @ + 1]]

\* ... and the nodes that voted for it were live.
CountLiveNodes(s, result) ==
    [s EXCEPT !.stats.live = [n \in Node |->
        IF IsMember(s.committee, n) /\ s.pool.votes[s.pool.highestRank][n] = result
        THEN @[n] + 1 ELSE @[n]]]

FetchRuntimeMessages(s, limit) ==
    SubSeq(s.queue, 1, IF limit < Len(s.queue) THEN limit ELSE Len(s.queue))

RemoveRuntimeMessages(s, n) ==
    [s EXCEPT !.queue = SubSeq(s.queue, n + 1, Len(s.queue)),
              !.queueSize = @ - n,
              !.failed = @ \/ n > s.queueSize]

FinalizeRound(s) ==
    LET result  == s.pool.commitment[s.pool.highestRank]
        msgs    == FetchRuntimeMessages(s, result.inCount)
        counted == CountProposal(s)
    IN  IF msgs # result.inHash
        THEN FailRound(IF Version261 THEN s ELSE counted)
        ELSE FinalizeBlock(
                CountLiveNodes(RemoveRuntimeMessages(counted, Len(msgs)), result),
                "Normal", result.root)

(* tryFinalizeRound: a detected discrepancy re-arms the timer and retries,  *)
(* as the backup workers may have voted already.                            *)
TryFinalizeRound(s, timeout) ==
    LET c     == s.committee
        s0    == [s EXCEPT !.stats = IF @ = Nil THEN NewLivenessStatistics ELSE @]
        first == Verdict(s.pool, c, timeout)
        s1    == IF first = "DiscrepancyDetected"
                 THEN RearmRoundTimeout([s0 EXCEPT !.pool = ProcessCommitments(s.pool, c, timeout)],
                                        height + BackupTimeout)
                 ELSE s0
        final == IF first = "DiscrepancyDetected"
                 THEN Verdict(s1.pool, c, s1.nextTimeout = height)
                 ELSE first
    IN  CASE final = "StillWaiting" -> s1
          [] final = "Finalized"    -> FinalizeRound(s1)
          [] OTHER                  -> FailRound(s1)

\* getRuntimeState: what transactions are refused for and EndBlock fails on.
Runnable(s) == ~s.suspended /\ s.committee # Nil /\ s.pool # Nil

TryFinalize(s, timeout) ==
    IF Runnable(s) THEN TryFinalizeRound(s, timeout) ELSE [s EXCEPT !.failed = TRUE]

TryFinalizeRounds(s) == IF pending THEN TryFinalize(s, FALSE) ELSE s

ProcessRoundTimeouts(s) ==
    IF ~s.failed /\ height \in s.timeouts THEN TryFinalize(s, TRUE) ELSE s

-----------------------------------------------------------------------------
(* onNewRuntime, for a runtime with its genesis block at round 0.           *)
Init ==
    /\ height = 1 /\ phase = "begin" /\ active = TRUE /\ pending = FALSE
    /\ st = [suspended |-> TRUE, committee |-> Nil, pool |-> Nil, stats |-> Nil,
             round |-> 0, kind |-> "Normal", root |-> GenesisRoot, lastNormalRound |-> 0,
             nextTimeout |-> TimeoutNever, timeouts |-> {},
             queue |-> <<>>, queueSize |-> 0, failed |-> FALSE]
    /\ nextSeq = 0
    /\ ghost = [epochRound |-> 0, firstCommit |-> 0]

BeginBlock ==
    /\ phase = "begin" /\ ~st.failed /\ height < MaxHeight
    /\ height' = height + 1 /\ phase' = "deliver" /\ pending' = FALSE

BeginBlockNoChange ==
    /\ BeginBlock
    /\ UNCHANGED <<active, st, nextSeq, ghost>>

(* onRuntimeCommitteeChanged: an epoch transition or a new election.  The   *)
(* runtime is suspended without a committee or when its owner lacks stake.  *)
CommitteeChanged(committee, sufficientStake) ==
    LET suspend == committee = Nil \/ ~sufficientStake
        block   == FinalizeBlock(st, IF suspend THEN "Suspended" ELSE "EpochTransition", st.root)
    IN  /\ BeginBlock /\ active /\ st.round < MaxRound
        /\ active' = ~suspend
        /\ st' = [block EXCEPT !.suspended = suspend,
                               !.committee = IF suspend THEN Nil ELSE committee,
                               !.stats = Nil]
        /\ ghost' = [epochRound |-> st.round + 1, firstCommit |-> 0]
        /\ UNCHANGED nextSeq

(* executorCommit: the commitments of a transaction are added to a working  *)
(* copy of the pool, which is only stored if all of them are accepted.      *)
StoreCommitments(pool) ==
    LET s == [st EXCEPT !.pool = pool] IN
    /\ pending' = TRUE
    /\ st' = IF pool.highestRank # st.pool.highestRank
             THEN RearmRoundTimeout(s, height + RoundTimeout) ELSE s
    /\ ghost' = [ghost EXCEPT !.firstCommit =
                    IF st.pool.highestRank = NoRank /\ pool.highestRank # NoRank
                    THEN height ELSE @]
    /\ UNCHANGED <<height, phase, active, nextSeq>>

Acceptable(pool, ec) ==
    /\ st.round < MaxRound
    /\ VerifyExecutorCommitment(st.round, ec)
    /\ CommitmentAllowed(pool, st.committee, ec)

(* What the environment signs: an honest node votes for a result it         *)
(* computed itself from messages at the head of the queue, or for failure.  *)
Signable(ec) ==
    ec.node \notin Faulty /\ ec.vote # Failure =>
        /\ ec.vote.root \in ValidRoot
        /\ ec.vote.inCount <= Len(st.queue)
        /\ ec.vote.inHash = SubSeq(st.queue, 1, ec.vote.inCount)

Commitments == [node : Node, scheduler : Node, round : {st.round, st.round + 1}, vote : Vote]

ExecutorCommit(ec) ==
    /\ phase = "deliver" /\ Runnable(st)
    /\ Signable(ec) /\ Acceptable(st.pool, ec)
    /\ StoreCommitments(AddVerifiedExecutorCommitment(st.pool, st.committee, ec))

ExecutorCommitTwo(ec1) ==
    /\ MaxCommits >= 2
    /\ phase = "deliver" /\ Runnable(st)
    /\ Signable(ec1) /\ Acceptable(st.pool, ec1)
    /\ LET pool == AddVerifiedExecutorCommitment(st.pool, st.committee, ec1) IN
       \E ec2 \in Commitments :
          /\ Signable(ec2) /\ Acceptable(pool, ec2)
          /\ StoreCommitments(AddVerifiedExecutorCommitment(pool, st.committee, ec2))

(* submitMsg, for a caller that can pay the fee and the transferred tokens. *)
SubmitMsgMutant ==
    /\ phase = "deliver" /\ Runnable(st)
    /\ st.queueSize < MaxInMessages /\ nextSeq < MaxMessages
    /\ st' = [st EXCEPT !.queue = <<nextSeq>> \o @, !.queueSize = @ + 1]
    /\ nextSeq' = nextSeq + 1
    /\ UNCHANGED <<height, phase, active, pending, ghost>>

SubmitMsg ==
    /\ phase = "deliver" /\ Runnable(st)
    /\ st.queueSize < MaxInMessages
    /\ nextSeq < MaxMessages
    /\ st' = [st EXCEPT !.queue = Append(@, nextSeq), !.queueSize = @ + 1]
    /\ nextSeq' = nextSeq + 1
    /\ UNCHANGED <<height, phase, active, pending, ghost>>

(* A node registration that pays for the runtime resumes it in the registry. *)
ResumeRuntime ==
    /\ phase = "deliver" /\ ~active
    /\ active' = TRUE
    /\ UNCHANGED <<height, phase, pending, st, nextSeq, ghost>>

EndBlock ==
    /\ phase = "deliver"
    /\ phase' = "begin"
    /\ st' = ProcessRoundTimeouts(TryFinalizeRounds(st))
    /\ ghost' = [ghost EXCEPT !.firstCommit = IF st'.round = st.round THEN @ ELSE 0]
    /\ UNCHANGED <<height, active, pending, nextSeq>>

Next ==
    \/ BeginBlockNoChange
    \/ \E committee \in Committees \cup {Nil}, sufficientStake \in BOOLEAN :
          CommitteeChanged(committee, sufficientStake)
    \/ \E ec \in Commitments : ExecutorCommit(ec)
    \/ \E ec1 \in Commitments : ExecutorCommitTwo(ec1)
    \/ SubmitMsg
    \/ ResumeRuntime
    \/ EndBlock

Spec == Init /\ [][Next]_vars

-----------------------------------------------------------------------------
(*                               Properties                                *)

\* Every variable stays in its type.
TypeOK ==
    /\ height \in Nat /\ phase \in {"begin", "deliver"}
    /\ active \in BOOLEAN /\ pending \in BOOLEAN /\ nextSeq \in Nat
    /\ ghost \in [epochRound : Nat, firstCommit : Nat]
    /\ st \in State

\* Is there an executor pool in which a scheduler has committed to a proposal?
Scheduled(s) == s.pool # Nil /\ s.pool.highestRank # NoRank

(* processCommitments dereferences sc.Commitment of the highest rank without *)
(* a nil check: whenever a scheduler has that rank, its own commitment is in *)
(* the pool, its vote agrees with it, it is not a failure, no worse rank is  *)
(* left, and in resolution no other rank at all.                             *)
SchedulerCommitmentBacked ==
    Scheduled(st) =>
        LET p  == st.pool
            hr == p.highestRank
        IN  /\ p.commitment[hr] \in Result
            /\ p.votes[hr][SchedulerOf(st)] = p.commitment[hr]
            /\ \A r \in Rank : r > hr \/ (p.discrepancy /\ r # hr) =>
                   p.votes[r] = NoVotes /\ p.commitment[r] = NoVote

(* The timeout queue holds exactly the runtime's NextTimeout, a timeout is   *)
(* armed if and only if a scheduler has committed, and none is left behind   *)
(* in the past (processRoundTimeouts only looks at the current height).      *)
TimeoutArmed ==
    /\ st.timeouts = IF st.nextTimeout = TimeoutNever THEN {} ELSE {st.nextTimeout}
    /\ st.nextTimeout # TimeoutNever <=> Scheduled(st)
    /\ st.nextTimeout # TimeoutNever =>
          st.nextTimeout > height \/ (phase = "deliver" /\ st.nextTimeout = height)

(* EndBlock never fails: a runtime that is queued for finalization or for a  *)
(* timeout is not suspended and has a committee and a pool (getRuntimeState) *)
(* and the incoming message queue size never underflows.  A failing EndBlock *)
(* would stop every validator.                                               *)
EndBlockNeverFails == ~st.failed

(* Once a scheduler has committed, the round is decided within a bounded     *)
(* number of blocks, whatever the nodes do: the timer can be restarted at    *)
(* most once for each better rank and once for discrepancy resolution.       *)
RoundDecidedInTime ==
    Scheduled(st) => height <= ghost.firstCommit + MaxGroupSize * RoundTimeout + (3 * RoundTimeout) \div 2

(* The meta record of the incoming message queue agrees with the queue, the  *)
(* queue respects its limit and holds consecutive messages in their order.   *)
QueueConsistent ==
    /\ st.queueSize = Len(st.queue) /\ st.queueSize <= MaxInMessages
    /\ \A i \in 1 .. Len(st.queue) : st.queue[i] = nextSeq - Len(st.queue) + (i - 1)

(* What an honest node has signed in the open round stays applicable until   *)
(* the round ends: the messages it processed are still those at the head of  *)
(* the queue, so finalization does not fail on the incoming messages hash.   *)
HonestVotesApplicable ==
    st.pool # Nil =>
        \A r \in Rank, n \in Node \ Faulty :
            st.pool.votes[r][n] \in Result =>
                LET v == st.pool.votes[r][n] IN
                FetchRuntimeMessages(st, v.inCount) = v.inHash

\* The rounds that each node answers for as primary scheduler.
Charged(stats) == [n \in Node |-> stats.finalized[n] + stats.missed[n]]

(* Every round of the committee's epoch that was finalized or failed is      *)
(* charged to exactly one primary scheduler, and a node is never counted as  *)
(* live in more rounds than there were.                                      *)
StatsBalanced ==
    st.stats # Nil =>
        /\ SumFunctionOnSet(Charged(st.stats), Node) = st.round - ghost.epochRound
        /\ \A n \in Node : st.stats.live[n] <= st.stats.total

(* The committee keeps the faulty nodes below both thresholds.               *)
FaultsTolerated(c) ==
    /\ Cardinality(Workers(c) \cap Faulty) < Cardinality(Workers(c)) - c.stragglers
    /\ Cardinality(c.backups \cap Faulty) <= Cardinality(c.backups) \div 2

(* Under a committee with tolerably many faulty nodes the runtime's state    *)
(* root only becomes the result of an honest execution, whatever the faulty  *)
(* nodes, including faulty schedulers, sign.                                 *)
RootStep ==
    st.committee # Nil /\ FaultsTolerated(st.committee) => st'.root \in {st.root} \cup ValidRoot

RootValid == [][RootStep]_vars

(* A runtime block is only ever appended, one for each BeginBlock or         *)
(* EndBlock, and the state root changes only with a Normal block, which      *)
(* LastNormalRound then names.                                               *)
GrowStep ==
    /\ st'.round \in {st.round, st.round + 1}
    /\ st'.root # st.root => st'.round > st.round /\ st'.kind = "Normal"
    /\ st'.lastNormalRound # st.lastNormalRound =>
          st'.kind = "Normal" /\ st'.lastNormalRound = st'.round

ChainGrows == [][GrowStep]_vars

(* A Normal block carries the result of the best ranked scheduler that had   *)
(* committed, and was voted for by all but the allowed stragglers of the     *)
(* workers or by a majority of the backup workers.                           *)
QuorumStep ==
    st'.round > st.round /\ st'.kind = "Normal" =>
        /\ Scheduled(st)
        /\ LET c == st.committee
               result == st.pool.commitment[st.pool.highestRank]
               For(N) == {n \in N : st.pool.votes[st.pool.highestRank][n] = result}
           IN  /\ st'.root = result.root
               /\ \/ Cardinality(For(Workers(c))) >= Cardinality(Workers(c)) - c.stragglers
                  \/ 2 * Cardinality(For(c.backups)) > Cardinality(c.backups)

FinalizedByQuorum == [][QuorumStep]_vars

(* Backup schedulers cannot jump the queue: while the best commitment is     *)
(* not the primary scheduler's, a discrepancy is declared only when the      *)
(* round timer expires (the fairness comment in processCommitments).         *)
WaitStep ==
    Scheduled(st) /\ Scheduled(st') /\ st'.round = st.round
    /\ ~st.pool.discrepancy /\ st'.pool.discrepancy
    => st.pool.highestRank = 0 \/ st.nextTimeout = height

BackupSchedulersWait == [][WaitStep]_vars

(* While a discrepancy is being resolved, the proposal under dispute and the *)
(* votes cast so far stay as they are, and workers cannot add votes to       *)
(* improve their liveness record.                                            *)
StableStep ==
    Scheduled(st) /\ st.pool.discrepancy /\ st'.round = st.round =>
        LET hr == st.pool.highestRank IN
        /\ st'.pool.discrepancy /\ st'.pool.highestRank = hr
        /\ st'.pool.commitment = st.pool.commitment
        /\ \A n \in Node :
             st'.pool.votes[hr][n] # st.pool.votes[hr][n] =>
                st.pool.votes[hr][n] = NoVote /\ n \in st.committee.backups

ResolutionStable == [][StableStep]_vars

(* What a block can do to the chain and to an open round: Normal blocks are  *)
(* appended with a quorum for the best scheduler's result, a discrepancy is  *)
(* not declared ahead of the primary scheduler's time, and the proposal      *)
(* under dispute cannot be swapped while it is voted on.                     *)
SafeFinalization == [][GrowStep /\ QuorumStep /\ WaitStep /\ StableStep]_vars

(* A round that a scheduler has opened ends in time: its timeout is armed,   *)
(* EndBlock always gets to process it, and restarts of the timer are bounded.*)
DecidedInTime == TimeoutArmed /\ EndBlockNeverFails /\ RoundDecidedInTime

(* Incoming messages are consumed in order, and never from under the votes   *)
(* of honest nodes.                                                          *)
MessagesInOrder == QueueConsistent /\ HonestVotesApplicable
=============================================================================

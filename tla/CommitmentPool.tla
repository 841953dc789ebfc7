--------------------------- MODULE CommitmentPool ---------------------------
(***************************************************************************)
(* The pool of executor commitments of one runtime round: discrepancy      *)
(* detection among the primary workers, discrepancy resolution by the      *)
(* backup workers (go/roothash/api/commitment/pool.go, votes.go) and the   *)
(* scheduling order of a committee (go/scheduler/api/api.go).              *)
(*                                                                         *)
(* All definitions are constant operators on pool records; RootHash holds  *)
(* the pool in its state.  A commitment hash (ToVote) is a member of       *)
(* Result; a vote is a Result or Failure.  SchedulerCommitments, a map     *)
(* from rank to {Commitment, Votes}, is kept as two total functions: a     *)
(* rank whose votes are all NoVote is a rank absent from the map (the code *)
(* creates an entry only to put a vote in it and deletes whole entries).   *)
(***************************************************************************)
EXTENDS Integers, Sequences, FiniteSets

CONSTANTS
    Node,           \* public keys of executor nodes
    Result,         \* hashes of compute results headers (ExecutorCommitment.ToVote)
    Failure,        \* a failure-indicating vote (nil in the Votes map)
    NoVote,         \* the node has no entry in the Votes map
    MaxGroupSize    \* bound on the number of workers of a committee

ASSUME PoolAssumption ==
    /\ IsFiniteSet(Node)
    /\ MaxGroupSize \in Nat \ {0}
    /\ Failure \notin Result
    /\ NoVote \notin Result \cup {Failure}

Rank == 0 .. MaxGroupSize - 1

\* The value math.MaxUint64 of HighestRank: worse than every rank.
NoRank == MaxGroupSize

Vote == Result \cup {Failure}

NoVotes == [n \in Node |-> NoVote]

Pool == [highestRank : Rank \cup {NoRank},
         votes       : [Rank -> [Node -> Vote \cup {NoVote}]],
         commitment  : [Rank -> Result \cup {NoVote}],
         discrepancy : BOOLEAN]

ExecutorCommitment == [node : Node, scheduler : Node, round : Nat, vote : Vote]

-----------------------------------------------------------------------------
(* The committee: workers in their order, the set of backup workers (a     *)
(* node may be both) and the number of allowed stragglers of the runtime's *)
(* executor parameters, which are fixed for the committee's epoch.          *)

IsCommittee(c) ==
    /\ c.workers \in Seq(Node)
    /\ Len(c.workers) \in 1 .. MaxGroupSize
    /\ \A i, j \in DOMAIN c.workers : c.workers[i] = c.workers[j] => i = j
    /\ c.backups \in SUBSET Node
    /\ c.stragglers \in Nat

Workers(c) == {c.workers[i] : i \in DOMAIN c.workers}

IsMember(c, n) == n \in Workers(c) \cup c.backups

SchedulerIdx(c, round, rank) ==
    LET total == Len(c.workers) IN
    1 + ((rank + total - (round % total)) % total)

SchedulerRank(c, round, n) ==
    LET idx == CHOOSE i \in DOMAIN c.workers : c.workers[i] = n
    IN  (round + (idx - 1)) % Len(c.workers)

-----------------------------------------------------------------------------
NewPool == [highestRank |-> NoRank,
            votes       |-> [r \in Rank |-> NoVotes],
            commitment  |-> [r \in Rank |-> NoVote],
            discrepancy |-> FALSE]

(* What a commitment must satisfy on its own: it builds on the last block   *)
(* and a scheduler does not indicate failure.  Signatures, attestations and *)
(* the limits on emitted messages only decide which commitments exist.      *)
VerifyMutant(lastRound, ec) == ec.round = lastRound + 1

VerifyExecutorCommitment(lastRound, ec) ==
    /\ ec.round = lastRound + 1
    /\ ec.vote = Failure => ec.node # ec.scheduler

\* Resolution takes votes of backup workers only, detection those of any member.
RoleAllowed(p, c, ec) ==
    IF p.discrepancy THEN ec.node \in c.backups ELSE IsMember(c, ec.node)

CommitmentAllowed(p, c, ec) ==
    /\ RoleAllowed(p, c, ec)
    /\ ec.scheduler \in Workers(c)
    /\ LET rank == SchedulerRank(c, ec.round, ec.scheduler) IN
       /\ rank <= p.highestRank
       /\ p.discrepancy => rank = p.highestRank
       /\ p.votes[rank][ec.node] = NoVote

\* A scheduler's own commitment takes over from every worse rank.
PromotesMutant(p, c, ec) == SchedulerRank(c, ec.round, ec.scheduler) < p.highestRank

Promotes(p, c, ec) ==
    /\ ec.node = ec.scheduler
    /\ SchedulerRank(c, ec.round, ec.scheduler) < p.highestRank

AddVerifiedExecutorCommitment(p, c, ec) ==
    LET rank == SchedulerRank(c, ec.round, ec.scheduler)
        own  == ec.node = ec.scheduler
        promoted == Promotes(p, c, ec)
        Dropped(q) == promoted /\ q > rank
    IN  [highestRank |-> IF promoted THEN rank ELSE p.highestRank,
         votes |-> [q \in Rank |->
                      IF q = rank THEN [p.votes[q] EXCEPT ![ec.node] = ec.vote]
                      ELSE IF Dropped(q) THEN NoVotes ELSE p.votes[q]],
         commitment |-> [q \in Rank |->
                      IF q = rank /\ own THEN ec.vote
                      ELSE IF Dropped(q) THEN NoVote ELSE p.commitment[q]],
         discrepancy |-> p.discrepancy]

-----------------------------------------------------------------------------
(* Counting.  The loop over the members with its early exit decides on the  *)
(* same condition as the complete counts, since the counts only grow.       *)

Voters(p, c) == IF p.discrepancy THEN c.backups ELSE Workers(c)

VotesFor(p, c, v) == {n \in Voters(p, c) : p.votes[p.highestRank][n] = v}

Committed(p, c) == {n \in Voters(p, c) : p.votes[p.highestRank][n] # NoVote}

VotedResults(p, c) == {v \in Result : VotesFor(p, c, v) # {}}

DisagreementMutant(p, c) == Cardinality(VotesFor(p, c, Failure)) > c.stragglers

Disagreement(p, c) ==
    \/ Cardinality(VotedResults(p, c)) > 1
    \/ Cardinality(VotesFor(p, c, Failure)) > c.stragglers

HasSchedulerCommitment(p) ==
    p.highestRank \in Rank /\ p.votes[p.highestRank] # NoVotes

\* Backup schedulers (rank above 0) wait for the round timer.
MayDeclare(p, timeout) == p.highestRank = 0 \/ timeout

DetectDiscrepancy(p, c, timeout) ==
    LET required == Cardinality(Voters(p, c)) - c.stragglers
                      - Cardinality(Committed(p, c) \ VotesFor(p, c, Failure))
    IN  CASE Disagreement(p, c) ->
                IF MayDeclare(p, timeout) THEN "DiscrepancyDetected" ELSE "StillWaiting"
          [] ~Disagreement(p, c) /\ required > 0 ->
                IF timeout THEN "DiscrepancyDetected" ELSE "StillWaiting"
          [] OTHER -> "Finalized"

MajorityMutant(total) == total \div 2

Majority(total) == (total \div 2) + 1

ResolveDiscrepancy(p, c, timeout) ==
    LET total     == Cardinality(Voters(p, c))
        required  == Majority(total)
        remaining == total - Cardinality(Committed(p, c))
        BestReaches(k) == \E v \in Result : Cardinality(VotesFor(p, c, v)) + k >= required
        scheduler == Cardinality(VotesFor(p, c, p.commitment[p.highestRank]))
    IN  CASE ~BestReaches(remaining) -> "InsufficientVotes"
          [] BestReaches(remaining) /\ ~BestReaches(0) ->
                IF timeout THEN "InsufficientVotes" ELSE "StillWaiting"
          [] BestReaches(0) /\ scheduler < required -> "BadSchedulerCommitment"
          [] OTHER -> "Finalized"

Verdict(p, c, timeout) ==
    IF ~HasSchedulerCommitment(p)
    THEN IF timeout THEN "NoSchedulerCommitment" ELSE "StillWaiting"
    ELSE IF p.discrepancy THEN ResolveDiscrepancy(p, c, timeout)
                          ELSE DetectDiscrepancy(p, c, timeout)

(* The pool after ProcessCommitments: a detected discrepancy switches to    *)
(* resolution and drops the commitments of every other rank.                *)
StartResolution(p) ==
    [highestRank |-> p.highestRank,
     votes       |-> [r \in Rank |-> IF r = p.highestRank THEN p.votes[r] ELSE NoVotes],
     commitment  |-> [r \in Rank |-> IF r = p.highestRank THEN p.commitment[r] ELSE NoVote],
     discrepancy |-> TRUE]

ProcessCommitments(p, c, timeout) ==
    IF Verdict(p, c, timeout) = "DiscrepancyDetected" THEN StartResolution(p) ELSE p

-----------------------------------------------------------------------------
(* What holds of the pool of a round at any time: only the best rank has a   *)
(* scheduler commitment, which is that scheduler's own vote; no votes are    *)
(* kept for worse ranks and, in resolution, for any other rank.              *)
PoolInv(p, c, round) ==
    /\ p.discrepancy => p.highestRank # NoRank
    /\ p.highestRank # NoRank =>
          /\ p.commitment[p.highestRank] \in Result
          /\ \E n \in Workers(c) :
                /\ SchedulerRank(c, round, n) = p.highestRank
                /\ p.votes[p.highestRank][n] = p.commitment[p.highestRank]
    /\ \A r \in Rank : r # p.highestRank => p.commitment[r] = NoVote
    /\ \A r \in Rank :
          r > p.highestRank \/ (p.discrepancy /\ r # p.highestRank) => p.votes[r] = NoVotes
=============================================================================

--------------------------- MODULE RootHash_proofs ---------------------------
(* Proofs of the invariants of RootHash, for every value of its constants,   *)
(* and the lemmas about the commitment pool that they rest on.               *)
EXTENDS RootHash, SumTheorems

-----------------------------------------------------------------------------
(*                     The operations of the commitment pool               *)

\* A remainder is below its divisor.
LEMMA ModType ==
    ASSUME NEW x \in Nat, NEW t \in Nat \ {0}
    PROVE  x % t \in 0 .. t - 1
BY Z3

\* Euclidean division: existence and uniqueness of the remainder.
LEMMA DivMod ==
    ASSUME NEW t \in Nat \ {0}, NEW x \in Nat
    PROVE  x = t * (x \div t) + (x % t) /\ x \div t \in Int /\ x % t \in 0 .. t - 1
BY Z3

\* A remainder is determined by its congruence: how SchedulerRank recovers an index.
LEMMA ModUnique ==
    ASSUME NEW t \in Nat \ {0}, NEW k \in Int, NEW r \in 0 .. t - 1
    PROVE  (t * k + r) % t = r
BY Z3

\* Going forward by i and back by the same start modulo t ends at i.
LEMMA ModInverse ==
    ASSUME NEW t \in Nat \ {0}, NEW x \in Nat, NEW i \in 0 .. t - 1
    PROVE  (((x + i) % t) + t - (x % t)) % t = i
<1>1. PICK k \in Int, m \in 0 .. t - 1 : x = t * k + m /\ x % t = m
  BY DivMod
<1>2. CASE m + i < t
  <2>1. x + i = t * k + (m + i) /\ m + i \in 0 .. t - 1
    BY <1>1, <1>2
  <2>2. (x + i) % t = m + i
    BY <2>1, ModUnique
  <2>3. (m + i) + t - m = t * 1 + i
    OBVIOUS
  <2> QED BY <1>1, <2>2, <2>3, ModUnique
<1>3. CASE ~(m + i < t)
  <2>1. x + i = t * (k + 1) + (m + i - t) /\ m + i - t \in 0 .. t - 1 /\ k + 1 \in Int
    BY <1>1, <1>3
  <2>2. (x + i) % t = m + i - t
    BY <2>1, ModUnique
  <2>3. (m + i - t) + t - m = t * 0 + i
    OBVIOUS
  <2> QED BY <1>1, <2>2, <2>3, ModUnique
<1> QED BY <1>2, <1>3

\* SchedulerIdx is the inverse of SchedulerRank: each rank has one scheduler.
LEMMA RankInverse ==
    ASSUME NEW c, IsCommittee(c), NEW round \in Nat, NEW n \in Workers(c)
    PROVE  c.workers[SchedulerIdx(c, round, SchedulerRank(c, round, n))] = n
<1> DEFINE idx == CHOOSE i \in DOMAIN c.workers : c.workers[i] = n
           t == Len(c.workers)
<1>1. \E i \in DOMAIN c.workers : c.workers[i] = n
  BY DEF Workers
<1>2. idx \in DOMAIN c.workers /\ c.workers[idx] = n
  BY <1>1
<1>3. t \in 1 .. MaxGroupSize /\ idx \in 1 .. t
  BY <1>2 DEF IsCommittee
<1>4. SchedulerRank(c, round, n) = (round + (idx - 1)) % t
  BY DEF SchedulerRank
<1>5. SchedulerIdx(c, round, (round + (idx - 1)) % t)
        = 1 + ((((round + (idx - 1)) % t) + t - (round % t)) % t)
  BY DEF SchedulerIdx
<1> HIDE DEF idx, t
<1>6. t \in Nat \ {0} /\ idx - 1 \in 0 .. t - 1
  BY <1>3, PoolAssumption
<1>7. SchedulerIdx(c, round, (round + (idx - 1)) % t) = 1 + (idx - 1)
  BY <1>5, <1>6, ModInverse
<1>8. SchedulerIdx(c, round, (round + (idx - 1)) % t) = idx
  BY <1>3, <1>6, <1>7
<1> QED BY <1>2, <1>4, <1>8

\* The rank of a worker is a rank, so it is better than NoRank.
LEMMA RankType ==
    ASSUME NEW c, IsCommittee(c), NEW round \in Nat, NEW n \in Workers(c)
    PROVE  SchedulerRank(c, round, n) \in Rank
<1> DEFINE idx == CHOOSE i \in DOMAIN c.workers : c.workers[i] = n
           t == Len(c.workers)
<1>1. \E i \in DOMAIN c.workers : c.workers[i] = n
  BY DEF Workers
<1>2. idx \in DOMAIN c.workers
  BY <1>1
<1>3. t \in 1 .. MaxGroupSize /\ idx \in 1 .. t
  BY <1>2 DEF IsCommittee
<1>5. SchedulerRank(c, round, n) = (round + (idx - 1)) % t
  BY DEF SchedulerRank
<1> HIDE DEF idx, t
<1>4. (round + (idx - 1)) % t \in 0 .. t - 1
  <2>1. t \in Nat \ {0} /\ round + (idx - 1) \in Nat
    BY <1>3, PoolAssumption
  <2> QED BY <2>1, ModType
<1>6. (round + (idx - 1)) % t \in Rank
  <2> DEFINE m == (round + (idx - 1)) % t
  <2>1. m \in 0 .. t - 1
    BY <1>4
  <2> HIDE DEF m
  <2>2. m \in 0 .. MaxGroupSize - 1
    BY <1>3, <2>1, PoolAssumption
  <2> QED BY <2>2 DEF Rank, m
<1> QED
  BY <1>5, <1>6

\* A new pool satisfies the invariant.
LEMMA NewPoolOK ==
    ASSUME NEW c, NEW round
    PROVE  NewPool \in Pool /\ PoolInv(NewPool, c, round)
<1>1. NewPool \in Pool
  BY PoolAssumption DEF NewPool, Pool, Rank, NoRank, NoVotes, Vote
<1>2. PoolInv(NewPool, c, round)
  BY PoolAssumption DEF NewPool, PoolInv, Rank, NoRank
<1> QED
  BY <1>1, <1>2

\* Fields of a pool, in the form the proofs below use.
LEMMA PoolFields ==
    ASSUME NEW p \in Pool
    PROVE  /\ p.highestRank \in Rank \cup {NoRank}
           /\ p.votes \in [Rank -> [Node -> Vote \cup {NoVote}]]
           /\ p.commitment \in [Rank -> Result \cup {NoVote}]
           /\ p.discrepancy \in BOOLEAN
           /\ p.highestRank \in Nat
           /\ \A r \in Rank : r \in Nat /\ r < NoRank
BY PoolAssumption DEF Pool, Rank, NoRank

(* An accepted commitment leaves the pool well-formed, and only ever         *)
(* improves the best rank.                                                   *)
LEMMA AddOK ==
    ASSUME NEW c, IsCommittee(c), NEW p \in Pool, NEW lastRound \in Nat,
           PoolInv(p, c, lastRound + 1), NEW ec \in ExecutorCommitment,
           VerifyExecutorCommitment(lastRound, ec), CommitmentAllowed(p, c, ec)
    PROVE  LET q == AddVerifiedExecutorCommitment(p, c, ec) IN
           /\ q \in Pool
           /\ PoolInv(q, c, lastRound + 1)
           /\ q.discrepancy = p.discrepancy
           /\ q.highestRank <= p.highestRank
           /\ p.discrepancy => q.highestRank = p.highestRank
<1> DEFINE rank == SchedulerRank(c, ec.round, ec.scheduler)
           q == AddVerifiedExecutorCommitment(p, c, ec)
           own == ec.node = ec.scheduler
           hr == p.highestRank
           promoted == own /\ rank < hr
<1>0. /\ hr \in Rank \cup {NoRank} /\ hr \in Nat
      /\ p.votes \in [Rank -> [Node -> Vote \cup {NoVote}]]
      /\ p.commitment \in [Rank -> Result \cup {NoVote}]
      /\ p.discrepancy \in BOOLEAN
      /\ \A r \in Rank : r \in Nat /\ r < NoRank
  BY PoolFields
<1>1. ec.node \in Node /\ ec.scheduler \in Workers(c) /\ ec.round = lastRound + 1
      /\ ec.vote \in Vote /\ (own => ec.vote \in Result)
  BY DEF ExecutorCommitment, VerifyExecutorCommitment, CommitmentAllowed, Vote
<1>2. rank \in Rank
  BY <1>1, RankType
<1>3. rank <= hr /\ (p.discrepancy => rank = hr) /\ p.votes[rank][ec.node] = NoVote
  BY DEF CommitmentAllowed
<1>4. rank \in Nat
  BY <1>0, <1>2
<1>5. /\ q.highestRank = IF promoted THEN rank ELSE hr
      /\ q.discrepancy = p.discrepancy
      /\ \A r \in Rank : q.votes[r] = IF r = rank THEN [p.votes[r] EXCEPT ![ec.node] = ec.vote]
                                      ELSE IF promoted /\ r > rank THEN NoVotes ELSE p.votes[r]
      /\ \A r \in Rank : q.commitment[r] = IF r = rank /\ own THEN ec.vote
                                      ELSE IF promoted /\ r > rank THEN NoVote ELSE p.commitment[r]
  BY DEF AddVerifiedExecutorCommitment, Promotes
<1>6. q \in Pool
  <2>1. q = [highestRank |-> q.highestRank, votes |-> q.votes,
             commitment |-> q.commitment, discrepancy |-> q.discrepancy]
    BY DEF AddVerifiedExecutorCommitment
  <2>2. q.highestRank \in Rank \cup {NoRank} /\ q.discrepancy \in BOOLEAN
    BY <1>2, <1>5, <1>0
  <2>3. q.votes \in [Rank -> [Node -> Vote \cup {NoVote}]]
    <3>1. q.votes = [r \in Rank |-> q.votes[r]]
      BY DEF AddVerifiedExecutorCommitment
    <3>2. NoVotes \in [Node -> Vote \cup {NoVote}]
      BY DEF NoVotes
    <3>3. ASSUME NEW r \in Rank PROVE q.votes[r] \in [Node -> Vote \cup {NoVote}]
      <4>1. [p.votes[r] EXCEPT ![ec.node] = ec.vote] \in [Node -> Vote \cup {NoVote}]
        BY <1>1, <1>0
      <4> QED BY <1>5, <3>2, <4>1, <1>0
    <3> QED BY <3>1, <3>3
  <2>4. q.commitment \in [Rank -> Result \cup {NoVote}]
    <3>1. q.commitment = [r \in Rank |-> q.commitment[r]]
      BY DEF AddVerifiedExecutorCommitment
    <3>2. ASSUME NEW r \in Rank PROVE q.commitment[r] \in Result \cup {NoVote}
      BY <1>1, <1>5, <1>0
    <3> QED BY <3>1, <3>2
  <2> HIDE DEF q
  <2> QED BY <2>1, <2>2, <2>3, <2>4 DEF Pool
<1>7. q.highestRank <= hr /\ (p.discrepancy => q.highestRank = hr)
  BY <1>2, <1>3, <1>4, <1>5, <1>0
<1>8. PoolInv(q, c, lastRound + 1)
  <2> HIDE DEF q, rank
  <2>1. q.discrepancy => q.highestRank # NoRank
    BY <1>2, <1>5, <1>0 DEF PoolInv
  <2>2. CASE promoted
    <3>1. q.highestRank = rank /\ rank # NoRank /\ own /\ rank < hr
      BY <1>2, <1>4, <1>5, <2>2, <1>0
    <3>2. q.commitment[rank] = ec.vote /\ q.votes[rank][ec.node] = ec.vote
      BY <1>1, <1>2, <1>5, <3>1, <1>0, ZenonT(30)
    <3>3. \E n \in Workers(c) : /\ SchedulerRank(c, lastRound + 1, n) = rank
                                /\ q.votes[rank][n] = q.commitment[rank]
      BY <1>1, <3>1, <3>2 DEF rank
    <3>4. ASSUME NEW r \in Rank, r # rank PROVE q.commitment[r] = NoVote
      BY <1>2, <1>5, <2>2, <3>1, <3>4, <1>0 DEF PoolInv
    <3>5. ASSUME NEW r \in Rank, r > rank PROVE q.votes[r] = NoVotes
      <4>1. r # rank
        BY <1>0, <1>4, <3>5
      <4> QED BY <1>5, <2>2, <3>5, <4>1
    <3>6. ~q.discrepancy
      BY <1>3, <1>5, <3>1, <1>0
    <3> QED BY <1>1, <2>1, <3>1, <3>2, <3>3, <3>4, <3>5, <3>6 DEF PoolInv
  <2>3. CASE ~promoted
    <3>1. q.highestRank = hr
      BY <1>5, <2>3
    <3>2. ASSUME own PROVE rank = hr
      BY <1>2, <1>3, <1>4, <2>3, <3>2, <1>0
    <3>3. ASSUME NEW r \in Rank, r # hr PROVE q.commitment[r] = NoVote
      BY <1>5, <2>3, <3>2, <3>3 DEF PoolInv
    <3>4. ASSUME NEW r \in Rank, r > hr \/ (p.discrepancy /\ r # hr) PROVE q.votes[r] = NoVotes
      <4>1. r # rank
        BY <1>0, <1>3, <1>4, <3>4
      <4>2. p.votes[r] = NoVotes
        BY <3>4 DEF PoolInv
      <4> QED BY <1>5, <2>3, <4>1, <4>2
    <3>5. ASSUME hr # NoRank
          PROVE  /\ q.commitment[hr] \in Result
                 /\ \E n \in Workers(c) : /\ SchedulerRank(c, lastRound + 1, n) = hr
                                          /\ q.votes[hr][n] = q.commitment[hr]
      <4>1. PICK n \in Workers(c) : /\ SchedulerRank(c, lastRound + 1, n) = hr
                                    /\ p.votes[hr][n] = p.commitment[hr]
        BY <3>5 DEF PoolInv
      <4>2. p.commitment[hr] \in Result /\ hr \in Rank /\ n \in Node
        BY <3>5, <1>0 DEF PoolInv, IsCommittee, Workers
      <4>3. CASE own
        <5>1. rank = hr /\ q.commitment[hr] = ec.vote /\ q.votes[hr][ec.node] = ec.vote
          BY <1>0, <1>1, <1>5, <3>2, <4>2, <4>3, ZenonT(30)
        <5>2. ec.node = ec.scheduler
          BY <4>3
        <5> QED BY <1>1, <4>3, <5>1, <5>2 DEF rank
      <4>4. CASE ~own
        <5>1. q.commitment[hr] = p.commitment[hr]
          BY <1>5, <2>3, <4>2, <4>4
        <5>2. q.votes[hr][n] = p.votes[hr][n]
          <6>1. CASE rank = hr
            <7>1. n # ec.node
              BY <1>3, <4>1, <4>2, <6>1, PoolAssumption
            <7> QED BY <1>0, <1>5, <4>2, <6>1, <7>1
          <6>2. CASE rank # hr
            BY <1>5, <2>3, <4>2, <6>2
          <6> QED BY <6>1, <6>2
        <5> QED BY <4>1, <4>2, <5>1, <5>2
      <4> QED BY <4>3, <4>4
    <3> QED BY <1>5, <2>1, <3>1, <3>3, <3>4, <3>5 DEF PoolInv
  <2> QED BY <2>2, <2>3
<1> QED BY <1>5, <1>6, <1>7, <1>8

\* The votes after adding a commitment are old ones and the new one.
LEMMA AddVotes ==
    ASSUME NEW c, NEW p \in Pool, NEW ec \in ExecutorCommitment, NEW r \in Rank, NEW n \in Node
    PROVE  LET q == AddVerifiedExecutorCommitment(p, c, ec) IN
           \/ q.votes[r][n] = p.votes[r][n]
           \/ q.votes[r][n] = NoVote
           \/ n = ec.node /\ q.votes[r][n] = ec.vote
<1> DEFINE q == AddVerifiedExecutorCommitment(p, c, ec)
           rank == SchedulerRank(c, ec.round, ec.scheduler)
<1>1. \/ q.votes[r] = [p.votes[r] EXCEPT ![ec.node] = ec.vote]
      \/ q.votes[r] = NoVotes
      \/ q.votes[r] = p.votes[r]
  BY DEF AddVerifiedExecutorCommitment
<1>2. p.votes[r] \in [Node -> Vote \cup {NoVote}]
  BY PoolFields
<1> HIDE DEF q
<1>3. \/ q.votes[r][n] = p.votes[r][n]
      \/ q.votes[r][n] = NoVote
      \/ n = ec.node /\ q.votes[r][n] = ec.vote
  BY <1>1, <1>2 DEF NoVotes
<1> QED BY <1>3 DEF q

(* While a discrepancy is resolved, the proposal under dispute stays, and    *)
(* only backup workers that have not voted yet add their votes.              *)
LEMMA AddResolves ==
    ASSUME NEW c, IsCommittee(c), NEW p \in Pool, NEW lastRound \in Nat,
           PoolInv(p, c, lastRound + 1), NEW ec \in ExecutorCommitment,
           VerifyExecutorCommitment(lastRound, ec), CommitmentAllowed(p, c, ec), p.discrepancy
    PROVE  LET q == AddVerifiedExecutorCommitment(p, c, ec)
               hr == p.highestRank
           IN  /\ q.commitment = p.commitment
               /\ \A n \in Node : q.votes[hr][n] # p.votes[hr][n] =>
                     p.votes[hr][n] = NoVote /\ n \in c.backups
<1> DEFINE q == AddVerifiedExecutorCommitment(p, c, ec)
           hr == p.highestRank
           rank == SchedulerRank(c, ec.round, ec.scheduler)
<1>1. /\ ec.scheduler \in Workers(c) /\ rank = hr /\ p.votes[hr][ec.node] = NoVote
      /\ ec.round = lastRound + 1 /\ ec.node \in c.backups
  BY DEF CommitmentAllowed, VerifyExecutorCommitment, RoleAllowed
<1>2. hr \in Rank /\ hr # NoRank /\ hr \in Nat
  BY <1>1, RankType, PoolFields DEF ExecutorCommitment, PoolInv
<1>3. ec.node # ec.scheduler
  <2>1. PICK n \in Workers(c) : /\ SchedulerRank(c, lastRound + 1, n) = hr
                                /\ p.votes[hr][n] = p.commitment[hr]
    BY <1>2 DEF PoolInv
  <2>2. n = ec.scheduler
    BY <1>1, <2>1, RankInverse
  <2>3. p.votes[hr][n] \in Result
    BY <1>2, <2>1 DEF PoolInv
  <2> QED BY <1>1, <2>2, <2>3, PoolAssumption
<1>4. ~Promotes(p, c, ec)
  BY <1>3 DEF Promotes
<1>5. /\ q.commitment = [r \in Rank |-> p.commitment[r]]
      /\ q.votes[hr] = [p.votes[hr] EXCEPT ![ec.node] = ec.vote]
  BY <1>1, <1>2, <1>3, <1>4 DEF AddVerifiedExecutorCommitment
<1>6. /\ p.commitment = [r \in Rank |-> p.commitment[r]]
      /\ p.votes[hr] \in [Node -> Vote \cup {NoVote}]
  BY <1>2, PoolFields
<1> HIDE DEF q, hr
<1>7. ASSUME NEW n \in Node, q.votes[hr][n] # p.votes[hr][n] PROVE n = ec.node
  BY <1>5, <1>6, <1>7
<1> QED BY <1>1, <1>5, <1>6, <1>7 DEF q, hr

\* The workers of a committee are a finite set of nodes.
LEMMA WorkersFinite ==
    ASSUME NEW c, IsCommittee(c)
    PROVE  /\ Workers(c) \in SUBSET Node /\ c.backups \in SUBSET Node
           /\ IsFiniteSet(Workers(c)) /\ IsFiniteSet(c.backups)
<1>1. Workers(c) \in SUBSET Node /\ c.backups \in SUBSET Node
  BY DEF IsCommittee, Workers
<1> QED BY <1>1, FS_Subset, PoolAssumption

\* A pool with a best rank has the commitment of its scheduler.
LEMMA ScheduledHasCommitment ==
    ASSUME NEW c, IsCommittee(c), NEW p \in Pool, NEW round, PoolInv(p, c, round),
           p.highestRank # NoRank
    PROVE  HasSchedulerCommitment(p)
<1>1. p.highestRank \in Rank
  BY PoolFields
<1>2. PICK n \in Workers(c) : p.votes[p.highestRank][n] = p.commitment[p.highestRank]
  BY DEF PoolInv
<1>3. p.commitment[p.highestRank] \in Result /\ n \in Node
  BY WorkersFinite DEF PoolInv
<1>4. p.votes[p.highestRank] # NoVotes
  BY <1>2, <1>3, PoolAssumption DEF NoVotes
<1> QED BY <1>1, <1>4 DEF HasSchedulerCommitment

\* The verdict on a round whose timer has expired is final, and a discrepancy is detected once.
LEMMA VerdictCases ==
    ASSUME NEW p \in Pool, NEW c, NEW timeout \in BOOLEAN
    PROVE  /\ timeout /\ HasSchedulerCommitment(p) => Verdict(p, c, timeout) # "StillWaiting"
           /\ Verdict(p, c, timeout) = "DiscrepancyDetected" =>
                 HasSchedulerCommitment(p) /\ ~p.discrepancy
           /\ Verdict(p, c, timeout) = "Finalized" => HasSchedulerCommitment(p)
           /\ p.highestRank = NoRank /\ ~timeout => Verdict(p, c, timeout) = "StillWaiting"
           /\ Verdict(p, c, timeout) = "DiscrepancyDetected" => p.highestRank = 0 \/ timeout
<1>1. DetectDiscrepancy(p, c, timeout) \in {"DiscrepancyDetected", "StillWaiting", "Finalized"}
  BY DEF DetectDiscrepancy
<1>2. ResolveDiscrepancy(p, c, timeout) \in
         {"InsufficientVotes", "StillWaiting", "BadSchedulerCommitment", "Finalized"}
  BY DEF ResolveDiscrepancy
<1>3. timeout => DetectDiscrepancy(p, c, timeout) # "StillWaiting"
  BY DEF DetectDiscrepancy, MayDeclare
<1>4. timeout => ResolveDiscrepancy(p, c, timeout) # "StillWaiting"
  BY DEF ResolveDiscrepancy
<1>5. DetectDiscrepancy(p, c, timeout) = "DiscrepancyDetected" => p.highestRank = 0 \/ timeout
  BY DEF DetectDiscrepancy, MayDeclare
<1>6. p.highestRank = NoRank => ~HasSchedulerCommitment(p)
  BY PoolAssumption DEF HasSchedulerCommitment, Rank, NoRank
<1> QED BY <1>1, <1>2, <1>3, <1>4, <1>5, <1>6 DEF Verdict

\* Switching to resolution keeps the proposal under dispute and its votes.
LEMMA StartResolutionOK ==
    ASSUME NEW c, IsCommittee(c), NEW p \in Pool, NEW round, PoolInv(p, c, round),
           HasSchedulerCommitment(p)
    PROVE  LET q == StartResolution(p) IN
           /\ q \in Pool /\ PoolInv(q, c, round)
           /\ q.discrepancy /\ q.highestRank = p.highestRank
           /\ q.votes[p.highestRank] = p.votes[p.highestRank]
           /\ q.commitment[p.highestRank] = p.commitment[p.highestRank]
<1> DEFINE q == StartResolution(p)
           hr == p.highestRank
<1>1. hr \in Rank
  BY DEF HasSchedulerCommitment
<1>2. q = [highestRank |-> hr, discrepancy |-> TRUE,
           votes |-> [r \in Rank |-> IF r = hr THEN p.votes[r] ELSE NoVotes],
           commitment |-> [r \in Rank |-> IF r = hr THEN p.commitment[r] ELSE NoVote]]
  BY DEF StartResolution
<1>3. q \in Pool
  <2>1. NoVotes \in [Node -> Vote \cup {NoVote}]
    BY DEF NoVotes
  <2> HIDE DEF q
  <2> QED BY <1>1, <1>2, <2>1, PoolFields DEF Pool
<1>4. PoolInv(q, c, round)
  <2> HIDE DEF q
  <2>1. q.highestRank = hr /\ q.discrepancy /\ q.votes[hr] = p.votes[hr]
        /\ q.commitment[hr] = p.commitment[hr] /\ hr # NoRank
    BY <1>1, <1>2, PoolFields
  <2>2. ASSUME NEW r \in Rank, r # hr PROVE q.votes[r] = NoVotes /\ q.commitment[r] = NoVote
    BY <1>2, <2>2
  <2>3. \A r \in Rank : r > hr => r # hr
    BY <1>1, PoolFields
  <2>4. q.commitment[hr] \in Result
        /\ \E n \in Workers(c) : SchedulerRank(c, round, n) = hr /\ q.votes[hr][n] = q.commitment[hr]
    BY <2>1 DEF PoolInv
  <2> QED BY <2>1, <2>2, <2>3, <2>4 DEF PoolInv
<1> QED BY <1>1, <1>2, <1>3, <1>4

(* A round that is finalized in detection was voted for by all but the      *)
(* allowed stragglers of the workers, in resolution by a majority of the    *)
(* backup workers, and the result is the scheduler's.                       *)
LEMMA FinalizedQuorum ==
    ASSUME NEW c, IsCommittee(c), NEW p \in Pool, NEW round, PoolInv(p, c, round),
           NEW timeout \in BOOLEAN, Verdict(p, c, timeout) = "Finalized"
    PROVE  LET result == p.commitment[p.highestRank]
               For(N) == {n \in N : p.votes[p.highestRank][n] = result}
           IN  /\ p.highestRank \in Rank /\ result \in Result
               /\ ~p.discrepancy =>
                     Cardinality(For(Workers(c))) >= Cardinality(Workers(c)) - c.stragglers
               /\ p.discrepancy =>
                     2 * Cardinality(For(c.backups)) > Cardinality(c.backups)
<1> DEFINE hr == p.highestRank
           result == p.commitment[hr]
           For(N) == {n \in N : p.votes[hr][n] = result}
           W == Workers(c)
<1>1. HasSchedulerCommitment(p)
  BY VerdictCases
<1>2. hr \in Rank /\ hr # NoRank
  BY <1>1, PoolFields DEF HasSchedulerCommitment
<1>3. result \in Result
  BY <1>2 DEF PoolInv
<1>4. ASSUME ~p.discrepancy
      PROVE  Cardinality(For(W)) >= Cardinality(W) - c.stragglers
  <2> DEFINE VR == VotedResults(p, c)
             S == {n \in W : p.votes[hr][n] \in Result}
             yes == Committed(p, c) \ VotesFor(p, c, Failure)
  <2>1. Voters(p, c) = W
    BY <1>4 DEF Voters
  <2>2. DetectDiscrepancy(p, c, timeout) = "Finalized"
    BY <1>1, <1>4 DEF Verdict
  <2>3. ~Disagreement(p, c) /\ ~(Cardinality(W) - c.stragglers - Cardinality(yes) > 0)
    BY <2>1, <2>2 DEF DetectDiscrepancy
  <2>4. ~(Cardinality(VR) > 1)
    BY <2>3 DEF Disagreement
  <2>5. IsFiniteSet(W) /\ W \in SUBSET Node
    BY WorkersFinite
  <2>6. IsFiniteSet(S)
    BY <2>5, FS_Subset
  <2>7. VR = {v \in Result : \E n \in W : p.votes[hr][n] = v}
    BY <2>1 DEF VotedResults, VotesFor
  <2>8. IsFiniteSet(VR)
    <3> DEFINE f == [n \in S |-> p.votes[hr][n]]
    <3>1. f \in [S -> VR]
      BY <2>7
    <3>2. \A v \in VR : \E n \in S : f[n] = v
      BY <2>7
    <3>3. f \in Surjection(S, VR)
      BY <3>1, <3>2 DEF Surjection
    <3> QED BY <2>6, <3>3, FS_Surjection
  <2>9. result \in VR
    BY <1>2, <1>3, <2>7 DEF PoolInv
  <2>10. ASSUME NEW v \in VR PROVE v = result
    <3>1. SUFFICES ASSUME v # result PROVE FALSE
      OBVIOUS
    <3>2. Cardinality({v, result}) = 2
      <4>1. IsFiniteSet({result}) /\ Cardinality({result}) = 1
        BY FS_Singleton
      <4>2. Cardinality({result} \cup {v}) = 2
        BY <3>1, <4>1, FS_AddElement, SMTT(30)
      <4>3. {v, result} = {result} \cup {v}
        OBVIOUS
      <4> QED BY <4>2, <4>3
    <3>3. Cardinality({v, result}) <= Cardinality(VR) /\ Cardinality(VR) \in Nat
      BY <2>8, <2>9, <2>10, FS_Subset, FS_CardinalityType
    <3> QED BY <2>4, <3>2, <3>3
  <2>11. yes = For(W)
    <3>1. \A n \in W : p.votes[hr][n] \in Vote \cup {NoVote}
      BY <1>2, <2>5, PoolFields
    <3>2. \A n \in W : n \in yes <=> p.votes[hr][n] \in Result
      BY <2>1, <3>1, PoolAssumption DEF Committed, VotesFor, Vote
    <3>3. \A n \in W : p.votes[hr][n] \in Result => p.votes[hr][n] = result
      BY <2>7, <2>10
    <3>4. yes \subseteq W
      BY <2>1 DEF Committed
    <3> QED BY <1>3, <3>2, <3>3, <3>4
  <2>12. Cardinality(W) \in Nat /\ Cardinality(For(W)) \in Nat /\ c.stragglers \in Nat
    BY <2>5, FS_Subset, FS_CardinalityType DEF IsCommittee
  <2> HIDE DEF yes, For, W
  <2> QED BY <2>3, <2>11, <2>12
<1>5. ASSUME p.discrepancy
      PROVE  2 * Cardinality(For(c.backups)) > Cardinality(c.backups)
  <2>1. Voters(p, c) = c.backups /\ VotesFor(p, c, result) = For(c.backups)
    BY <1>5 DEF Voters, VotesFor
  <2>2. ResolveDiscrepancy(p, c, timeout) = "Finalized"
    BY <1>1, <1>5 DEF Verdict
  <2>3. ~(Cardinality(For(c.backups)) < Majority(Cardinality(c.backups)))
    BY <2>1, <2>2 DEF ResolveDiscrepancy
  <2>4. Cardinality(c.backups) \in Nat /\ Cardinality(For(c.backups)) \in Nat
    BY WorkersFinite, FS_Subset, FS_CardinalityType
  <2> HIDE DEF For
  <2> QED BY <2>3, <2>4 DEF Majority
<1> QED BY <1>2, <1>3, <1>4, <1>5

-----------------------------------------------------------------------------
(*                   What the helpers of the handlers change               *)

\* Queued timeouts other than the one that is armed.
OtherTimeouts(s) == s.timeouts \ {s.nextTimeout}

\* What rearmRoundTimeout changes: only the next timeout and the queue of timeouts.
LEMMA RearmFields ==
    ASSUME NEW s \in State, NEW next \in Nat
    PROVE  LET t == RearmRoundTimeout(s, next) IN
           /\ t \in State
           /\ t.nextTimeout = next
           /\ next = TimeoutNever => t.timeouts = OtherTimeouts(s)
           /\ next # TimeoutNever => t.timeouts = OtherTimeouts(s) \cup {next}
           /\ t.suspended = s.suspended /\ t.committee = s.committee /\ t.pool = s.pool
           /\ t.stats = s.stats /\ t.round = s.round /\ t.kind = s.kind /\ t.root = s.root
           /\ t.lastNormalRound = s.lastNormalRound /\ t.queue = s.queue
           /\ t.queueSize = s.queueSize /\ t.failed = s.failed
BY DEF RearmRoundTimeout, OtherTimeouts, State

\* What finalizeBlock changes: one more block, a fresh pool and a disarmed timer.
LEMMA FinalizeBlockFields ==
    ASSUME NEW s \in State, NEW x \in Root,
           NEW kind \in {"Normal", "RoundFailed", "EpochTransition", "Suspended"}
    PROVE  LET t == FinalizeBlock(s, kind, x) IN
           /\ t \in State
           /\ t.round = s.round + 1 /\ t.kind = kind /\ t.root = x
           /\ kind = "Normal" => t.lastNormalRound = s.round + 1
           /\ kind # "Normal" => t.lastNormalRound = s.lastNormalRound
           /\ kind = "Suspended" => t.pool = Nil
           /\ kind # "Suspended" => t.pool = NewPool
           /\ t.nextTimeout = TimeoutNever
           /\ t.timeouts = OtherTimeouts(s)
           /\ t.suspended = s.suspended /\ t.committee = s.committee
           /\ t.stats = s.stats /\ t.queue = s.queue
           /\ t.queueSize = s.queueSize /\ t.failed = s.failed
<1> DEFINE P == IF kind = "Suspended" THEN Nil ELSE NewPool
           N == IF kind = "Normal" THEN s.round + 1 ELSE s.lastNormalRound
           u == [s EXCEPT !.round = s.round + 1, !.kind = kind, !.root = x,
                          !.lastNormalRound = N, !.pool = P]
<1>1. P \in Pool \cup {Nil} /\ N \in Nat /\ s.round + 1 \in Nat
  BY NewPoolOK DEF State
<1>5. FinalizeBlock(s, kind, x) = RearmRoundTimeout(u, TimeoutNever)
  BY DEF FinalizeBlock
<1>6. /\ N = IF kind = "Normal" THEN s.round + 1 ELSE s.lastNormalRound
      /\ P = IF kind = "Suspended" THEN Nil ELSE NewPool
  OBVIOUS
<1> HIDE DEF P, N
<1>2. u \in State
  BY <1>1 DEF State
<1>3. /\ u.round = s.round + 1 /\ u.kind = kind /\ u.root = x
      /\ u.lastNormalRound = N /\ u.pool = P
      /\ u.nextTimeout = s.nextTimeout /\ u.timeouts = s.timeouts
      /\ u.suspended = s.suspended /\ u.committee = s.committee
      /\ u.stats = s.stats /\ u.queue = s.queue
      /\ u.queueSize = s.queueSize /\ u.failed = s.failed
  BY DEF State
<1>4. TimeoutNever \in Nat
  BY DEF TimeoutNever
<1> HIDE DEF u
<1> QED BY <1>2, <1>3, <1>4, <1>5, <1>6, RearmFields DEF OtherTimeouts

\* The scheduler of any rank is a worker.
LEMMA SchedulerType ==
    ASSUME NEW c, IsCommittee(c), NEW round \in Nat, NEW rank \in Nat
    PROVE  c.workers[SchedulerIdx(c, round, rank)] \in Node
<1> DEFINE t == Len(c.workers)
           m == round % t
           k == (rank + t - m) % t
<1>1. t \in Nat \ {0} /\ DOMAIN c.workers = 1 .. t /\ \A i \in 1 .. t : c.workers[i] \in Node
  BY PoolAssumption DEF IsCommittee
<1>2. SchedulerIdx(c, round, rank) = 1 + k
  BY DEF SchedulerIdx
<1> HIDE DEF t
<1>3. m \in 0 .. t - 1
  BY <1>1, ModType
<1> HIDE DEF m
<1>4. rank + t - m \in Nat
  BY <1>1, <1>3
<1>5. k \in 0 .. t - 1
  BY <1>1, <1>4, ModType
<1> HIDE DEF k
<1>6. 1 + k \in 1 .. t
  BY <1>1, <1>5
<1> QED BY <1>1, <1>2, <1>6

\* Every field except the statistics is the same.
SameButStats(s, t) ==
    /\ t.nextTimeout = s.nextTimeout /\ t.timeouts = s.timeouts
    /\ t.suspended = s.suspended /\ t.committee = s.committee /\ t.pool = s.pool
    /\ t.round = s.round /\ t.kind = s.kind /\ t.root = s.root
    /\ t.lastNormalRound = s.lastNormalRound /\ t.queue = s.queue
    /\ t.queueSize = s.queueSize /\ t.failed = s.failed

\* Replacing the liveness statistics keeps a consensus state well typed.
LEMMA SetStats ==
    ASSUME NEW s \in State, NEW x \in Stats \cup {Nil}
    PROVE  LET t == [s EXCEPT !.stats = x] IN
           t \in State /\ t.stats = x /\ SameButStats(s, t)
BY DEF State, SameButStats

\* Charging a missed proposal to a scheduler changes nothing but the statistics.
LEMMA MissedFields ==
    ASSUME NEW s \in State, s.stats \in Stats, NEW n \in Node
    PROVE  LET t == [s EXCEPT !.stats.missed[n] = @ + 1] IN
           t \in State /\ t.stats \in Stats /\ SameButStats(s, t)
<1> DEFINE x == [s.stats EXCEPT !.missed[n] = @ + 1]
           t == [s EXCEPT !.stats.missed[n] = @ + 1]
<1>1. x \in Stats
  BY DEF Stats
<1>2. t = [s EXCEPT !.stats = x]
  OBVIOUS
<1> HIDE DEF x, t
<1>3. t \in State /\ t.stats \in Stats /\ SameButStats(s, t)
  BY <1>1, <1>2, SetStats
<1> QED BY <1>3 DEF t

\* What failRound does: a RoundFailed block on the old state root.
LEMMA FailRoundFields ==
    ASSUME NEW s \in State, s.stats \in Stats, s.committee \in Committees
    PROVE  LET t == FailRound(s) IN
           /\ t \in State
           /\ t.round = s.round + 1 /\ t.kind = "RoundFailed" /\ t.root = s.root
           /\ t.lastNormalRound = s.lastNormalRound /\ t.pool = NewPool
           /\ t.nextTimeout = TimeoutNever
           /\ t.timeouts = OtherTimeouts(s)
           /\ t.suspended = s.suspended /\ t.committee = s.committee
           /\ t.queue = s.queue /\ t.queueSize = s.queueSize /\ t.failed = s.failed
<1> DEFINE u == [s EXCEPT !.stats.missed[PrimaryScheduler(s)] = @ + 1]
<1>1. PrimaryScheduler(s) \in Node
  BY SchedulerType, RootHashAssumption DEF PrimaryScheduler, State
<1>2. u \in State /\ SameButStats(s, u)
  BY <1>1, MissedFields
<1>3. FailRound(s) = FinalizeBlock(u, "RoundFailed", s.root)
  BY DEF FailRound
<1> DEFINE r == s.root
           t == FinalizeBlock(u, "RoundFailed", r)
<1>4. r \in Root
  BY DEF State
<1> HIDE DEF u, r
<1>5. /\ t \in State
      /\ t.round = u.round + 1 /\ t.kind = "RoundFailed" /\ t.root = r
      /\ t.lastNormalRound = u.lastNormalRound /\ t.pool = NewPool
      /\ t.nextTimeout = TimeoutNever /\ t.timeouts = OtherTimeouts(u)
      /\ t.suspended = u.suspended /\ t.committee = u.committee
      /\ t.queue = u.queue /\ t.queueSize = u.queueSize /\ t.failed = u.failed
  BY <1>2, <1>4, FinalizeBlockFields
<1> QED BY <1>2, <1>3, <1>5 DEF SameButStats, OtherTimeouts, r

\* Counting a proposal changes nothing but the statistics.
LEMMA CountProposalFields ==
    ASSUME NEW s \in State, s.stats \in Stats, s.committee \in Committees
    PROVE  LET t == CountProposal(s) IN
           t \in State /\ t.stats \in Stats /\ SameButStats(s, t)
<1> DEFINE n == PrimaryScheduler(s)
           k == [s.stats EXCEPT !.total = @ + 1]
           x == [k EXCEPT !.finalized[n] = @ + 1]
           y == [k EXCEPT !.missed[n] = @ + 1]
<1>1. n \in Node
  BY SchedulerType, RootHashAssumption DEF PrimaryScheduler, State
<1>2. CountProposal(s) = [s EXCEPT !.stats = x] \/ CountProposal(s) = [s EXCEPT !.stats = y]
  BY DEF CountProposal
<1> HIDE DEF n
<1>3. k \in Stats
  BY DEF Stats
<1> HIDE DEF k
<1>4. x \in Stats /\ y \in Stats
  BY <1>1, <1>3 DEF Stats
<1> HIDE DEF x, y
<1> QED BY <1>2, <1>4, SetStats

\* Counting the live nodes changes nothing but the statistics.
LEMMA CountLiveFields ==
    ASSUME NEW s \in State, s.stats \in Stats, NEW result
    PROVE  LET t == CountLiveNodes(s, result) IN
           t \in State /\ t.stats \in Stats /\ SameButStats(s, t)
<1> DEFINE l == [n \in Node |->
                   IF IsMember(s.committee, n) /\ s.pool.votes[s.pool.highestRank][n] = result
                   THEN s.stats.live[n] + 1 ELSE s.stats.live[n]]
           x == [s.stats EXCEPT !.live = l]
<1>1. l \in [Node -> Nat]
  BY DEF Stats
<1>2. CountLiveNodes(s, result) = [s EXCEPT !.stats = x]
  BY DEF CountLiveNodes
<1> HIDE DEF l
<1>3. x \in Stats
  BY <1>1 DEF Stats
<1> HIDE DEF x
<1> QED BY <1>2, <1>3, SetStats

\* The queue of t is that of s without its first n messages.
Drained(s, t, n) ==
    /\ t.queue = SubSeq(s.queue, n + 1, Len(s.queue))
    /\ t.queueSize = s.queueSize - n

\* removeRuntimeMessages takes messages from the head of the queue and its size alike.
LEMMA RemoveFields ==
    ASSUME NEW s \in State, NEW n \in Nat, n <= Len(s.queue), s.queueSize = Len(s.queue)
    PROVE  LET t == RemoveRuntimeMessages(s, n) IN
           /\ t \in State /\ Drained(s, t, n)
           /\ t.nextTimeout = s.nextTimeout /\ t.timeouts = s.timeouts
           /\ t.suspended = s.suspended /\ t.committee = s.committee /\ t.pool = s.pool
           /\ t.stats = s.stats /\ t.round = s.round /\ t.kind = s.kind /\ t.root = s.root
           /\ t.lastNormalRound = s.lastNormalRound /\ t.failed = s.failed
<1> DEFINE q == SubSeq(s.queue, n + 1, Len(s.queue))
           z == s.queueSize - n
           f == s.failed \/ n > s.queueSize
<1>1. RemoveRuntimeMessages(s, n) = [s EXCEPT !.queue = q, !.queueSize = z, !.failed = f]
  BY DEF RemoveRuntimeMessages
<1>2. q \in Seq(Nat) /\ z \in Int /\ f = s.failed
  BY DEF State
<1>3. ASSUME NEW t, t = RemoveRuntimeMessages(s, n), t.queue = q, t.queueSize = z PROVE Drained(s, t, n)
  BY <1>3 DEF Drained
<1> HIDE DEF q, z, f
<1> DEFINE t == [s EXCEPT !.queue = q, !.queueSize = z, !.failed = f]
<1>4. t \in State
  BY <1>2 DEF State
<1>5. /\ t.queue = q /\ t.queueSize = z /\ t.failed = s.failed
      /\ t.nextTimeout = s.nextTimeout /\ t.timeouts = s.timeouts
      /\ t.suspended = s.suspended /\ t.committee = s.committee /\ t.pool = s.pool
      /\ t.stats = s.stats /\ t.round = s.round /\ t.kind = s.kind /\ t.root = s.root
      /\ t.lastNormalRound = s.lastNormalRound
  BY <1>2 DEF State
<1> HIDE DEF t
<1> QED BY <1>1, <1>3, <1>4, <1>5 DEF t

\* The round of s was decided; t is the state after it.
Ended(s, t) ==
    /\ t \in State
    /\ t.round = s.round + 1 /\ t.pool = NewPool
    /\ t.nextTimeout = TimeoutNever /\ t.timeouts = OtherTimeouts(s)
    /\ t.suspended = s.suspended /\ t.committee = s.committee /\ t.failed = s.failed

Failed(s, t) ==
    /\ t.kind = "RoundFailed" /\ t.root = s.root /\ t.lastNormalRound = s.lastNormalRound
    /\ t.queue = s.queue /\ t.queueSize = s.queueSize

Succeeded(s, t) ==
    LET result == s.pool.commitment[s.pool.highestRank] IN
    /\ t.kind = "Normal" /\ t.root = result.root /\ t.lastNormalRound = t.round
    /\ \E n \in 0 .. Len(s.queue) : Drained(s, t, n)

\* A failed round ends in a state with an empty pool and no timer.
LEMMA FailRoundEnds ==
    ASSUME NEW s \in State, s.stats \in Stats, s.committee \in Committees
    PROVE  Ended(s, FailRound(s)) /\ Failed(s, FailRound(s))
BY FailRoundFields DEF Ended, Failed

\* An accepted result ends the round with a Normal block, or fails it on its messages.
LEMMA FinalizeRoundEnds ==
    ASSUME NEW s \in State, s.stats \in Stats, s.committee \in Committees,
           s.pool.commitment[s.pool.highestRank] \in Result, s.queueSize = Len(s.queue)
    PROVE  LET t == FinalizeRound(s) IN
           Ended(s, t) /\ (Failed(s, t) \/ Succeeded(s, t))
<1> DEFINE result == s.pool.commitment[s.pool.highestRank]
           msgs == FetchRuntimeMessages(s, result.inCount)
           n == Len(msgs)
           counted == CountProposal(s)
           removed == RemoveRuntimeMessages(counted, n)
           live == CountLiveNodes(removed, result)
           r == result.root
           t == FinalizeBlock(live, "Normal", r)
<1>1. counted \in State /\ counted.stats \in Stats /\ SameButStats(s, counted)
  BY CountProposalFields
<1>2. CASE msgs # result.inHash
  <2> DEFINE u == IF Version261 THEN s ELSE counted
  <2>1. FinalizeRound(s) = FailRound(u)
    BY <1>2 DEF FinalizeRound
  <2>2. u \in State /\ u.stats \in Stats /\ u.committee \in Committees /\ SameButStats(s, u)
    BY <1>1 DEF SameButStats
  <2> HIDE DEF u
  <2>3. Ended(u, FailRound(u)) /\ Failed(u, FailRound(u))
    BY <2>2, FailRoundEnds
  <2>4. OtherTimeouts(u) = OtherTimeouts(s)
    BY <2>2 DEF SameButStats, OtherTimeouts
  <2> QED BY <2>1, <2>2, <2>3, <2>4 DEF SameButStats, Ended, Failed
<1>3. CASE msgs = result.inHash
  <2>1. FinalizeRound(s) = t
    BY <1>3 DEF FinalizeRound
  <2>2. result \in [root : Root, inCount : Nat, inHash : Seq(Nat)]
    BY RootHashAssumption
  <2>3. r \in Root /\ result.inCount \in Nat
    BY <2>2
  <2>4. n \in 0 .. Len(s.queue)
    <3>1. s.queue \in Seq(Nat) /\ Len(s.queue) \in Nat
      BY DEF State
    <3> QED BY <2>3, <3>1 DEF FetchRuntimeMessages
  <2> HIDE DEF n, counted, result, r
  <2>5. counted.queueSize = Len(counted.queue) /\ n <= Len(counted.queue) /\ n \in Nat
    <3>1. Len(s.queue) \in Nat
      BY DEF State
    <3> QED BY <1>1, <2>4, <3>1 DEF SameButStats
  <2>6. /\ removed \in State /\ removed.stats \in Stats /\ Drained(counted, removed, n)
        /\ removed.nextTimeout = counted.nextTimeout /\ removed.timeouts = counted.timeouts
        /\ removed.suspended = counted.suspended /\ removed.committee = counted.committee
        /\ removed.round = counted.round /\ removed.failed = counted.failed
    BY <1>1, <2>5, RemoveFields
  <2> HIDE DEF removed
  <2>7. live \in State /\ SameButStats(removed, live)
    BY <2>6, CountLiveFields
  <2> HIDE DEF live
  <2>8. /\ t \in State
        /\ t.round = live.round + 1 /\ t.kind = "Normal" /\ t.root = r
        /\ t.lastNormalRound = live.round + 1 /\ t.pool = NewPool
        /\ t.nextTimeout = TimeoutNever /\ t.timeouts = OtherTimeouts(live)
        /\ t.suspended = live.suspended /\ t.committee = live.committee
        /\ t.queue = live.queue /\ t.queueSize = live.queueSize /\ t.failed = live.failed
    BY <2>3, <2>7, FinalizeBlockFields
  <2> HIDE DEF t
  <2>9. OtherTimeouts(live) = OtherTimeouts(s)
    BY <1>1, <2>6, <2>7 DEF SameButStats, OtherTimeouts
  <2>10. Ended(s, t)
    BY <1>1, <2>6, <2>7, <2>8, <2>9 DEF SameButStats, Ended
  <2>11. Drained(s, t, n)
    BY <1>1, <2>6, <2>7, <2>8 DEF SameButStats, Drained
  <2>12. Succeeded(s, t)
    BY <2>4, <2>8, <2>11 DEF Succeeded, r, result
  <2> QED BY <2>1, <2>10, <2>12
<1> QED BY <1>2, <1>3

-----------------------------------------------------------------------------
(*                         The inductive invariant                         *)

\* A runtime has a committee and a well-formed pool, or it is suspended.
Structure(s) ==
    /\ s.suspended <=> s.committee = Nil
    /\ s.pool = Nil <=> s.committee = Nil
    /\ s.pool # Nil => PoolInv(s.pool, s.committee, s.round + 1)

\* Exactly the armed timeout is queued, and it is armed once a scheduler committed.
Timer(s) ==
    /\ s.nextTimeout = TimeoutNever => s.timeouts = {}
    /\ s.nextTimeout # TimeoutNever => s.timeouts = {s.nextTimeout}
    /\ s.nextTimeout # TimeoutNever <=> Scheduled(s)

Queue(s) ==
    /\ s.queueSize = Len(s.queue) /\ s.queueSize <= MaxInMessages
    /\ \A i \in 1 .. Len(s.queue) : s.queue[i] = nextSeq - Len(s.queue) + (i - 1)

\* v is a result that an honest node may have signed.
HonestVote(s, v) ==
    /\ v.root \in ValidRoot
    /\ v.inCount <= Len(s.queue)
    /\ v.inHash = SubSeq(s.queue, 1, v.inCount)

HonestVotes(s) ==
    s.pool # Nil =>
        \A r \in Rank, n \in Node \ Faulty :
            s.pool.votes[r][n] \in Result => HonestVote(s, s.pool.votes[r][n])

RuntimeInv(s) ==
    /\ Structure(s) /\ Timer(s) /\ Queue(s) /\ HonestVotes(s) /\ ~s.failed

(* The armed timeout is not in the past, and is bounded: each improvement of  *)
(* the best rank adds at most one round timeout, resolution adds its own.     *)
Deadline(p) ==
    ghost.firstCommit + (MaxGroupSize - p.highestRank) * RoundTimeout
        + (IF p.discrepancy THEN BackupTimeout ELSE 0)

Timing(s) ==
    Scheduled(s) =>
        /\ ghost.firstCommit <= height
        /\ s.nextTimeout <= Deadline(s.pool)
        /\ phase = "deliver" => height <= s.nextTimeout
        /\ phase = "begin" => height < s.nextTimeout

IInv ==
    /\ TypeOK
    /\ RuntimeInv(st)
    /\ Timing(st)
    /\ phase = "deliver" /\ pending => Runnable(st)

-----------------------------------------------------------------------------
(*                          Finalization of a round                        *)

\* t is s with the same round still open; at most a discrepancy was detected.
Waited(s, t, timeout) ==
    /\ t \in State
    /\ t.round = s.round /\ t.kind = s.kind /\ t.root = s.root
    /\ t.lastNormalRound = s.lastNormalRound
    /\ t.queue = s.queue /\ t.queueSize = s.queueSize
    /\ t.committee = s.committee /\ t.suspended = s.suspended /\ t.failed = s.failed
    /\ \/ /\ t.pool = s.pool /\ t.nextTimeout = s.nextTimeout /\ t.timeouts = s.timeouts
          /\ ~(timeout /\ Scheduled(s))
       \/ /\ Scheduled(s) /\ ~s.pool.discrepancy
          /\ t.pool = StartResolution(s.pool)
          /\ t.nextTimeout = height + BackupTimeout /\ t.timeouts = {t.nextTimeout}
          /\ s.pool.highestRank = 0 \/ timeout

\* The votes that finalize the result of the best ranked scheduler.
QuorumFor(s) ==
    LET c == s.committee
        result == s.pool.commitment[s.pool.highestRank]
        For(N) == {n \in N : s.pool.votes[s.pool.highestRank][n] = result}
    IN  /\ Scheduled(s) /\ s.pool.highestRank \in Rank /\ result \in Result
        /\ \/ Cardinality(For(Workers(c))) >= Cardinality(Workers(c)) - c.stragglers
           \/ 2 * Cardinality(For(c.backups)) > Cardinality(c.backups)

Decided(s, t) == Ended(s, t) /\ (Failed(s, t) \/ (Succeeded(s, t) /\ QuorumFor(s)))

\* Two finite sets of nodes: a large enough one has a member that is not faulty.
LEMMA HonestMember ==
    ASSUME NEW S, NEW N \in SUBSET Node, S \in SUBSET N,
           Cardinality(S) > Cardinality(N \cap Faulty)
    PROVE  \E n \in S : n \notin Faulty
<1>1. SUFFICES ASSUME S \subseteq Faulty PROVE FALSE
  OBVIOUS
<1>2. IsFiniteSet(N \cap Faulty) /\ S \in SUBSET (N \cap Faulty)
  BY <1>1, FS_Subset, PoolAssumption
<1>3. Cardinality(S) <= Cardinality(N \cap Faulty)
  BY <1>2, FS_Subset
<1>4. Cardinality(S) \in Nat /\ Cardinality(N \cap Faulty) \in Nat
  BY <1>2, FS_Subset, FS_CardinalityType
<1> QED BY <1>3, <1>4

\* A quorum vouches for the root, if the faults are tolerable.
LEMMA QuorumRootValid ==
    ASSUME NEW s \in State, s.committee \in Committees, s.pool # Nil, HonestVotes(s), QuorumFor(s),
           FaultsTolerated(s.committee)
    PROVE  s.pool.commitment[s.pool.highestRank].root \in ValidRoot
<1> DEFINE c == s.committee
           hr == s.pool.highestRank
           result == s.pool.commitment[hr]
           For(N) == {n \in N : s.pool.votes[hr][n] = result}
<1>1. /\ hr \in Rank /\ result \in Result
      /\ \/ Cardinality(For(Workers(c))) >= Cardinality(Workers(c)) - c.stragglers
         \/ 2 * Cardinality(For(c.backups)) > Cardinality(c.backups)
  BY DEF QuorumFor
<1>2. /\ Cardinality(Workers(c) \cap Faulty) < Cardinality(Workers(c)) - c.stragglers
      /\ Cardinality(c.backups \cap Faulty) <= Cardinality(c.backups) \div 2
  BY DEF FaultsTolerated
<1>3. IsCommittee(c)
  BY RootHashAssumption
<1>4. Workers(c) \in SUBSET Node /\ c.backups \in SUBSET Node
      /\ IsFiniteSet(Workers(c)) /\ IsFiniteSet(c.backups) /\ c.stragglers \in Nat
  BY <1>3, WorkersFinite DEF IsCommittee
<1>5. \E N \in SUBSET Node : Cardinality(For(N)) > Cardinality(N \cap Faulty)
  <2>1. ASSUME NEW N, N \in SUBSET Node, IsFiniteSet(N)
        PROVE  Cardinality(N) \in Nat /\ Cardinality(For(N)) \in Nat /\ Cardinality(N \cap Faulty) \in Nat
    <3>1. For(N) \in SUBSET N /\ N \cap Faulty \in SUBSET N
      OBVIOUS
    <3> HIDE DEF For
    <3> QED BY <2>1, <3>1, FS_Subset, FS_CardinalityType
  <2> HIDE DEF For, c
  <2>2. CASE Cardinality(For(Workers(c))) >= Cardinality(Workers(c)) - c.stragglers
    <3>1. Cardinality(For(Workers(c))) > Cardinality(Workers(c) \cap Faulty)
      BY <1>2, <1>4, <2>1, <2>2
    <3> QED BY <1>4, <3>1
  <2>3. CASE 2 * Cardinality(For(c.backups)) > Cardinality(c.backups)
    <3>1. Cardinality(For(c.backups)) > Cardinality(c.backups \cap Faulty)
      BY <1>2, <1>4, <2>1, <2>3
    <3> QED BY <1>4, <3>1
  <2> QED BY <1>1, <2>2, <2>3
<1>6. PICK N \in SUBSET Node : Cardinality(For(N)) > Cardinality(N \cap Faulty)
  BY <1>5
<1>7. \E n \in For(N) : n \notin Faulty
  <2>1. For(N) \in SUBSET N
    OBVIOUS
  <2> HIDE DEF For
  <2> QED BY <1>6, <2>1, HonestMember
<1>8. PICK n \in Node \ Faulty : s.pool.votes[hr][n] = result
  BY <1>7
<1> QED BY <1>1, <1>8 DEF HonestVotes, HonestVote

\* x differs from s at most in the statistics and in the phase of resolution.
Carries(s, x) ==
    /\ x \in State /\ x.stats \in Stats /\ x.pool \in Pool
    /\ x.round = s.round /\ x.kind = s.kind /\ x.root = s.root
    /\ x.lastNormalRound = s.lastNormalRound
    /\ x.queue = s.queue /\ x.queueSize = s.queueSize
    /\ x.committee = s.committee /\ x.suspended = s.suspended /\ x.failed = s.failed
    /\ OtherTimeouts(x) = OtherTimeouts(s)
    /\ x.pool.highestRank = s.pool.highestRank
    /\ s.pool.highestRank \in Rank =>
          /\ x.pool.votes[s.pool.highestRank] = s.pool.votes[s.pool.highestRank]
          /\ x.pool.commitment[s.pool.highestRank] = s.pool.commitment[s.pool.highestRank]

\* The two ways a round ends.
LEMMA DecideOK ==
    ASSUME NEW s \in State, NEW x, Carries(s, x), s.committee \in Committees, s.pool # Nil,
           PoolInv(x.pool, s.committee, s.round + 1), s.queueSize = Len(s.queue),
           NEW b \in BOOLEAN
    PROVE  /\ Decided(s, FailRound(x))
           /\ Verdict(x.pool, s.committee, b) = "Finalized" => Decided(s, FinalizeRound(x))
<1> DEFINE hr == s.pool.highestRank
           c == s.committee
<1>1. Decided(s, FailRound(x))
  <2>1. Ended(x, FailRound(x)) /\ Failed(x, FailRound(x))
    BY FailRoundEnds DEF Carries
  <2> QED BY <2>1 DEF Carries, Ended, Failed, Decided
<1>2. ASSUME Verdict(x.pool, c, b) = "Finalized" PROVE Decided(s, FinalizeRound(x))
  <2> DEFINE t == FinalizeRound(x)
             q == x.pool
             result == q.commitment[q.highestRank]
             For(N) == {n \in N : q.votes[q.highestRank][n] = result}
  <2>1. IsCommittee(c)
    BY RootHashAssumption
  <2>2. /\ q.highestRank \in Rank /\ result \in Result
        /\ \/ Cardinality(For(Workers(c))) >= Cardinality(Workers(c)) - c.stragglers
           \/ 2 * Cardinality(For(c.backups)) > Cardinality(c.backups)
    <3>1. q \in Pool /\ PoolInv(q, c, s.round + 1) /\ q.discrepancy \in BOOLEAN
      BY PoolFields DEF Carries
    <3> HIDE DEF q
    <3> QED BY <1>2, <2>1, <3>1, FinalizedQuorum DEF q
  <2>3. q.highestRank = hr /\ q.votes[hr] = s.pool.votes[hr] /\ q.commitment[hr] = s.pool.commitment[hr]
    BY <2>2 DEF Carries
  <2>4. Ended(x, t) /\ (Failed(x, t) \/ Succeeded(x, t))
    BY <2>2, FinalizeRoundEnds DEF Carries
  <2> HIDE DEF t
  <2>5. Ended(s, t) /\ (Failed(s, t) \/ Succeeded(s, t))
    <3>1. Ended(s, t)
      BY <2>4 DEF Carries, Ended
    <3>2. Failed(x, t) => Failed(s, t)
      BY DEF Carries, Failed
    <3>3. ASSUME Succeeded(x, t) PROVE Succeeded(s, t)
      <4>1. x.queue = s.queue /\ x.queueSize = s.queueSize
        BY DEF Carries
      <4> QED BY <2>3, <3>3, <4>1 DEF Succeeded, Drained
    <3> QED BY <2>4, <3>1, <3>2, <3>3
  <2>6. QuorumFor(s)
    <3>1. Scheduled(s)
      BY <2>2, <2>3, PoolAssumption DEF Scheduled, Rank, NoRank
    <3> QED BY <2>2, <2>3, <3>1 DEF QuorumFor
  <2> QED BY <2>5, <2>6 DEF Decided, t
<1> QED BY <1>1, <1>2

\* Both timeouts are positive: a timer is never armed for the current height.
LEMMA TimeoutPositive == BackupTimeout \in Nat \ {0} /\ TimeoutNever = 0 /\ RoundTimeout \in Nat \ {0}
BY RootHashAssumption DEF BackupTimeout, TimeoutNever

\* tryFinalizeRound leaves the round open, opens discrepancy resolution, or ends it.
LEMMA TryFinalizeRoundCases ==
    ASSUME NEW s \in State, RuntimeInv(s), Runnable(s), NEW timeout \in BOOLEAN, height \in Nat
    PROVE  LET t == TryFinalizeRound(s, timeout) IN Waited(s, t, timeout) \/ Decided(s, t)
<1> DEFINE c == s.committee
           p == s.pool
           t == TryFinalizeRound(s, timeout)
           z == IF s.stats = Nil THEN NewLivenessStatistics ELSE s.stats
           s0 == [s EXCEPT !.stats = z]
           first == Verdict(p, c, timeout)
<1>1. c \in Committees /\ IsCommittee(c) /\ p \in Pool /\ PoolInv(p, c, s.round + 1) /\ p # Nil
  BY RootHashAssumption DEF Runnable, State, RuntimeInv, Structure
<1>2. NewLivenessStatistics \in Stats
  BY DEF NewLivenessStatistics, Stats
<1>3. z \in Stats
  BY <1>2 DEF State
<1>4. s0 \in State /\ s0.stats \in Stats /\ SameButStats(s, s0)
  <2> HIDE DEF z
  <2> QED BY <1>3, SetStats
<1>5. Carries(s, s0)
  BY <1>1, <1>4 DEF Carries, SameButStats, OtherTimeouts
<1>6. s.queueSize = Len(s.queue)
  BY DEF RuntimeInv, Queue
<1>7. CASE first # "DiscrepancyDetected"
  <2>1. /\ first = "StillWaiting" => t = s0
        /\ first = "Finalized" => t = FinalizeRound(s0)
        /\ first # "StillWaiting" /\ first # "Finalized" => t = FailRound(s0)
    BY <1>7 DEF TryFinalizeRound
  <2>2. s0.pool = p
    BY <1>4 DEF SameButStats
  <2> HIDE DEF s0, t
  <2>3. CASE first = "StillWaiting"
    <3>1. ~(timeout /\ Scheduled(s))
      BY <1>1, <2>3, ScheduledHasCommitment, VerdictCases DEF Scheduled
    <3>2. Waited(s, s0, timeout)
      BY <1>4, <3>1 DEF Waited, SameButStats
    <3> QED BY <2>1, <2>3, <3>2 DEF t
  <2>4. CASE first # "StillWaiting"
    <3>1. Decided(s, FailRound(s0)) /\ (first = "Finalized" => Decided(s, FinalizeRound(s0)))
      BY <1>1, <1>5, <1>6, <2>2, DecideOK
    <3> QED BY <2>1, <2>4, <3>1 DEF t
  <2> QED BY <2>3, <2>4
<1>8. CASE first = "DiscrepancyDetected"
  <2> DEFINE q == StartResolution(p)
             u == [s0 EXCEPT !.pool = q]
             next == height + BackupTimeout
             s1 == RearmRoundTimeout(u, next)
             b == s1.nextTimeout = height
             final == Verdict(s1.pool, c, b)
  <2>1. HasSchedulerCommitment(p) /\ ~p.discrepancy /\ (p.highestRank = 0 \/ timeout)
    BY <1>1, <1>8, VerdictCases
  <2>2. /\ q \in Pool /\ PoolInv(q, c, s.round + 1) /\ q.highestRank = p.highestRank
        /\ q.votes[p.highestRank] = p.votes[p.highestRank]
        /\ q.commitment[p.highestRank] = p.commitment[p.highestRank]
    BY <1>1, <2>1, StartResolutionOK
  <2>3. Scheduled(s)
    BY <1>1, <2>1, PoolAssumption DEF Scheduled, HasSchedulerCommitment, Rank, NoRank
  <2>4. /\ final = "StillWaiting" => t = s1
        /\ final = "Finalized" => t = FinalizeRound(s1)
        /\ final # "StillWaiting" /\ final # "Finalized" => t = FailRound(s1)
    BY <1>8 DEF TryFinalizeRound, ProcessCommitments
  <2> HIDE DEF q, s0, t
  <2>5. /\ u \in State /\ u.pool = q /\ u.stats \in Stats
        /\ u.nextTimeout = s.nextTimeout /\ u.timeouts = s.timeouts
        /\ u.suspended = s.suspended /\ u.committee = s.committee
        /\ u.round = s.round /\ u.kind = s.kind /\ u.root = s.root
        /\ u.lastNormalRound = s.lastNormalRound /\ u.queue = s.queue
        /\ u.queueSize = s.queueSize /\ u.failed = s.failed
    BY <1>4, <2>2 DEF State, SameButStats
  <2> HIDE DEF u
  <2>6. next \in Nat /\ next # TimeoutNever
    BY TimeoutPositive
  <2> HIDE DEF next
  <2>7. /\ s1 \in State /\ s1.pool = q /\ s1.stats \in Stats
        /\ s1.nextTimeout = next /\ s1.timeouts = OtherTimeouts(u) \cup {next}
        /\ s1.suspended = s.suspended /\ s1.committee = s.committee
        /\ s1.round = s.round /\ s1.kind = s.kind /\ s1.root = s.root
        /\ s1.lastNormalRound = s.lastNormalRound /\ s1.queue = s.queue
        /\ s1.queueSize = s.queueSize /\ s1.failed = s.failed
    BY <2>5, <2>6, RearmFields
  <2> HIDE DEF s1
  <2>8. OtherTimeouts(u) = {} /\ OtherTimeouts(s) = {}
    BY <2>5 DEF OtherTimeouts, RuntimeInv, Timer
  <2>9. s1.timeouts = {s1.nextTimeout} /\ OtherTimeouts(s1) = {}
    BY <2>7, <2>8 DEF OtherTimeouts
  <2>10. CASE final = "StillWaiting"
    <3>1. Waited(s, s1, timeout)
      BY <2>1, <2>3, <2>7, <2>9 DEF Waited, next, q
    <3> QED BY <2>4, <2>10, <3>1 DEF t
  <2>11. CASE final # "StillWaiting"
    <3>1. Carries(s, s1)
      BY <2>2, <2>7, <2>8, <2>9 DEF Carries
    <3>2. b \in BOOLEAN
      OBVIOUS
    <3> HIDE DEF b
    <3>3. Decided(s, FailRound(s1)) /\ (final = "Finalized" => Decided(s, FinalizeRound(s1)))
      BY <1>1, <1>6, <2>2, <2>7, <3>1, <3>2, DecideOK
    <3> QED BY <2>4, <2>11, <3>3 DEF t
  <2> QED BY <2>10, <2>11
<1> QED BY <1>7, <1>8

\* Consecutive messages stay consecutive when the first n are removed.
LEMMA DrainedQueue ==
    ASSUME NEW s \in State, NEW t \in State, nextSeq \in Nat, Queue(s),
           NEW n \in 0 .. Len(s.queue), Drained(s, t, n)
    PROVE  Queue(t)
<1> DEFINE q == s.queue
           l == Len(s.queue)
<1>1. q \in Seq(Nat) /\ l \in Nat
  BY DEF State
<1>2. t.queue = SubSeq(q, n + 1, l) /\ t.queueSize = s.queueSize - n
  BY DEF Drained
<1>3. Len(t.queue) = l - n /\ \A i \in 1 .. l - n : t.queue[i] = q[n + i]
  BY <1>1, <1>2
<1>4. s.queueSize = l /\ l <= MaxInMessages /\ MaxInMessages \in Nat
      /\ \A i \in 1 .. l : q[i] = nextSeq - l + (i - 1)
  BY RootHashAssumption DEF Queue
<1> HIDE DEF q, l
<1>5. ASSUME NEW i \in 1 .. l - n PROVE t.queue[i] = nextSeq - (l - n) + (i - 1)
  <2>1. n + i \in 1 .. l
    BY <1>1 DEF l
  <2>2. t.queue[i] = nextSeq - l + ((n + i) - 1)
    BY <1>3, <1>4, <2>1
  <2> QED BY <1>1, <2>2 DEF l
<1>6. t.queueSize = l - n /\ l - n <= MaxInMessages
  BY <1>1, <1>2, <1>4 DEF l
<1> QED BY <1>3, <1>5, <1>6 DEF Queue

\* A round that ends re-establishes the invariant of the runtime.
LEMMA DecidedInv ==
    ASSUME NEW s \in State, NEW t, RuntimeInv(s), Runnable(s), Decided(s, t), nextSeq \in Nat
    PROVE  RuntimeInv(t) /\ Runnable(t) /\ t \in State /\ ~Scheduled(t) /\ t.timeouts = {}
<1>1. Ended(s, t) /\ (Failed(s, t) \/ (Succeeded(s, t) /\ QuorumFor(s)))
  BY DEF Decided
<1>2. s.committee \in Committees /\ s.pool \in Pool /\ s.committee # Nil /\ ~s.suspended
  BY RootHashAssumption DEF Runnable, State
<1>3. /\ t \in State /\ t.pool = NewPool /\ t.committee = s.committee
      /\ ~t.suspended /\ t.nextTimeout = 0 /\ t.timeouts = OtherTimeouts(s) /\ ~t.failed
  BY <1>1, <1>2 DEF Ended, RuntimeInv, TimeoutNever
<1>4. NewPool \in Pool /\ NewPool # Nil /\ PoolInv(NewPool, t.committee, t.round + 1)
  BY NewPoolOK, RootHashAssumption
<1>5. NewPool.highestRank = NoRank /\ \A r \in Rank, n \in Node : NewPool.votes[r][n] = NoVote
  BY DEF NewPool, NoVotes
<1>6. Structure(t) /\ Runnable(t)
  BY <1>2, <1>3, <1>4 DEF Structure, Runnable
<1>7. ~Scheduled(t)
  BY <1>3, <1>5 DEF Scheduled
<1>8. OtherTimeouts(s) = {}
  BY DEF OtherTimeouts, RuntimeInv, Timer
<1>9. Timer(t)
  BY <1>3, <1>7, <1>8 DEF Timer, TimeoutNever
<1>10. HonestVotes(t)
  BY <1>3, <1>5, PoolAssumption DEF HonestVotes
<1>11. Queue(t)
  <2>1. CASE Failed(s, t)
    BY <2>1 DEF Failed, Queue, RuntimeInv
  <2>2. CASE Succeeded(s, t)
    BY <1>3, <2>2, DrainedQueue DEF Succeeded, RuntimeInv
  <2> QED BY <1>1, <2>1, <2>2
<1> QED BY <1>3, <1>6, <1>7, <1>8, <1>9, <1>10, <1>11 DEF RuntimeInv

\* A round that stays open, in detection or in resolution, keeps the invariant.
LEMMA WaitedInv ==
    ASSUME NEW s \in State, NEW t, NEW timeout \in BOOLEAN, RuntimeInv(s), Runnable(s),
           Waited(s, t, timeout), height \in Nat
    PROVE  RuntimeInv(t) /\ Runnable(t) /\ t \in State
<1>1. /\ t \in State /\ t.round = s.round /\ t.root = s.root /\ t.queue = s.queue
      /\ t.queueSize = s.queueSize /\ t.committee = s.committee
      /\ t.suspended = s.suspended /\ t.failed = s.failed
  BY DEF Waited
<1>2. s.committee \in Committees /\ IsCommittee(s.committee) /\ s.pool \in Pool
      /\ s.committee # Nil /\ ~s.suspended /\ s.pool # Nil
      /\ PoolInv(s.pool, s.committee, s.round + 1)
  BY RootHashAssumption DEF Runnable, State, RuntimeInv, Structure
<1>3. Queue(t) /\ ~t.failed
  BY <1>1 DEF RuntimeInv, Queue
<1>4. CASE t.pool = s.pool /\ t.nextTimeout = s.nextTimeout /\ t.timeouts = s.timeouts
  <2>1. Structure(t) /\ Runnable(t)
    BY <1>1, <1>2, <1>4 DEF Structure, Runnable
  <2>2. Timer(t)
    BY <1>4 DEF RuntimeInv, Timer, Scheduled
  <2>3. HonestVotes(t)
    BY <1>1, <1>4 DEF RuntimeInv, HonestVotes, HonestVote
  <2> QED BY <1>1, <1>3, <2>1, <2>2, <2>3 DEF RuntimeInv
<1>5. CASE /\ Scheduled(s) /\ t.pool = StartResolution(s.pool)
           /\ t.nextTimeout = height + BackupTimeout /\ t.timeouts = {t.nextTimeout}
  <2>1. HasSchedulerCommitment(s.pool)
    BY <1>2, <1>5, ScheduledHasCommitment DEF Scheduled
  <2>2. /\ t.pool \in Pool /\ PoolInv(t.pool, s.committee, s.round + 1)
        /\ t.pool.highestRank = s.pool.highestRank
    BY <1>2, <1>5, <2>1, StartResolutionOK
  <2>3. t.pool # Nil
    BY <2>2, RootHashAssumption
  <2>4. Structure(t) /\ Runnable(t)
    BY <1>1, <1>2, <2>2, <2>3 DEF Structure, Runnable
  <2>5. t.nextTimeout # TimeoutNever
    BY <1>5, TimeoutPositive
  <2>6. Timer(t)
    BY <1>5, <2>2, <2>3, <2>5 DEF Timer, Scheduled
  <2>7. \A r \in Rank, n \in Node : t.pool.votes[r][n] \in {s.pool.votes[r][n], NoVote}
    BY <1>5 DEF StartResolution, NoVotes
  <2>8. HonestVotes(t)
    BY <1>1, <1>2, <2>7, PoolAssumption DEF RuntimeInv, HonestVotes, HonestVote
  <2> QED BY <1>1, <1>3, <2>4, <2>6, <2>8 DEF RuntimeInv
<1> QED BY <1>4, <1>5 DEF Waited

\* States that differ only in the statistics have the same outcomes of finalization.
LEMMA SameDecided ==
    ASSUME NEW s \in State, NEW u \in State, NEW v, SameButStats(s, u)
    PROVE  /\ Decided(u, v) => Decided(s, v)
           /\ \A b \in BOOLEAN : Waited(u, v, b) => Waited(s, v, b)
<1>1. OtherTimeouts(u) = OtherTimeouts(s) /\ (Scheduled(u) <=> Scheduled(s))
  BY DEF SameButStats, OtherTimeouts, Scheduled
<1>2. QuorumFor(u) => QuorumFor(s)
  BY <1>1 DEF SameButStats, QuorumFor
<1>3. Ended(u, v) => Ended(s, v)
  BY <1>1 DEF SameButStats, Ended
<1>4. Failed(u, v) => Failed(s, v)
  BY DEF SameButStats, Failed
<1>5. Succeeded(u, v) => Succeeded(s, v)
  <2>1. u.pool = s.pool /\ u.queue = s.queue /\ u.queueSize = s.queueSize
    BY DEF SameButStats
  <2> QED BY <2>1 DEF Succeeded, Drained
<1>6. ASSUME NEW b \in BOOLEAN, Waited(u, v, b) PROVE Waited(s, v, b)
  BY <1>1, <1>6 DEF SameButStats, Waited
<1> QED BY <1>2, <1>3, <1>4, <1>5, <1>6 DEF Decided

(* A block ends with the round still open and its timer in the future, or    *)
(* with the round decided.                                                   *)
LEMMA EndBlockCases ==
    ASSUME IInv, phase = "deliver"
    PROVE  LET v == ProcessRoundTimeouts(TryFinalizeRounds(st)) IN
           /\ v \in State /\ RuntimeInv(v)
           /\ \/ Decided(st, v) /\ ~Scheduled(v)
              \/ /\ \E b \in BOOLEAN : Waited(st, v, b) /\ (b => st.nextTimeout = height)
                 /\ Scheduled(v) => height < v.nextTimeout
<1> DEFINE u == TryFinalizeRounds(st)
           v == ProcessRoundTimeouts(u)
<1>1. st \in State /\ RuntimeInv(st) /\ height \in Nat /\ nextSeq \in Nat /\ pending \in BOOLEAN
  BY DEF IInv, TypeOK
<1>2. Scheduled(st) => Runnable(st) /\ height <= st.nextTimeout
  BY DEF IInv, RuntimeInv, Structure, Scheduled, Runnable, Timing
<1>3. \/ u = st
      \/ Runnable(st) /\ (Waited(st, u, FALSE) \/ Decided(st, u))
  <2>1. CASE ~pending
    BY <2>1 DEF TryFinalizeRounds
  <2>2. CASE pending
    <3>1. Runnable(st)
      BY <2>2 DEF IInv
    <3>2. u = TryFinalizeRound(st, FALSE)
      BY <2>2, <3>1 DEF TryFinalizeRounds, TryFinalize
    <3>3. FALSE \in BOOLEAN
      OBVIOUS
    <3> QED BY <1>1, <3>1, <3>2, <3>3, TryFinalizeRoundCases
  <2> QED BY <1>1, <2>1, <2>2
<1>4. CASE Runnable(st) /\ Decided(st, u)
  <2>1. RuntimeInv(u) /\ u \in State /\ ~Scheduled(u) /\ u.timeouts = {}
    BY <1>1, <1>4, DecidedInv
  <2>2. v = u
    BY <2>1 DEF ProcessRoundTimeouts
  <2> QED BY <1>4, <2>1, <2>2
<1>5. CASE u = st \/ (Runnable(st) /\ Waited(st, u, FALSE))
  <2>1. u \in State /\ RuntimeInv(u) /\ Waited(st, u, FALSE)
    <3>1. Waited(st, st, FALSE)
      BY <1>1 DEF Waited
    <3>2. FALSE \in BOOLEAN
      OBVIOUS
    <3>3. CASE u = st
      BY <1>1, <3>1, <3>3
    <3>4. CASE Runnable(st) /\ Waited(st, u, FALSE)
      BY <1>1, <3>2, <3>4, WaitedInv
    <3> QED BY <1>5, <3>3, <3>4
  <2>2. \/ SameButStats(st, u)
        \/ u.nextTimeout = height + BackupTimeout
    BY <2>1 DEF Waited, SameButStats
  <2> HIDE DEF u
  <2>3. Scheduled(u) => u.nextTimeout >= height
    <3>1. CASE SameButStats(st, u)
      <4>1. Scheduled(u) => Scheduled(st)
        BY <3>1 DEF SameButStats, Scheduled
      <4>2. u.nextTimeout = st.nextTimeout
        BY <3>1 DEF SameButStats
      <4> QED BY <1>1, <1>2, <4>1, <4>2 DEF State
    <3>2. CASE u.nextTimeout = height + BackupTimeout
      BY <1>1, <3>2, TimeoutPositive
    <3> QED BY <2>2, <3>1, <3>2
  <2>4. CASE height \notin u.timeouts
    <3>1. v = u
      BY <2>4 DEF ProcessRoundTimeouts
    <3>2. Scheduled(u) => u.nextTimeout # height
      BY <2>1, <2>4 DEF RuntimeInv, Timer
    <3>3. u.nextTimeout \in Nat
      BY <2>1 DEF State
    <3>4. Scheduled(u) => height < u.nextTimeout
      BY <1>1, <2>3, <3>2, <3>3
    <3>5. \E b \in BOOLEAN : Waited(st, u, b) /\ (b => st.nextTimeout = height)
      BY <2>1
    <3> QED BY <2>1, <3>1, <3>4, <3>5 DEF u
  <2>5. CASE height \in u.timeouts
    <3>1. u.nextTimeout = height /\ Scheduled(u) /\ ~u.failed
      BY <2>1, <2>5 DEF RuntimeInv, Timer
    <3>2. SameButStats(st, u) /\ st.nextTimeout = height
      <4>1. u.nextTimeout # height + BackupTimeout
        BY <1>1, <3>1, TimeoutPositive
      <4> QED BY <2>2, <3>1, <4>1 DEF SameButStats
    <3>3. Runnable(u)
      BY <2>1, <3>1 DEF RuntimeInv, Structure, Scheduled, Runnable
    <3>4. v = TryFinalizeRound(u, TRUE)
      BY <2>5, <3>1, <3>3 DEF ProcessRoundTimeouts, TryFinalize
    <3>5. TRUE \in BOOLEAN
      OBVIOUS
    <3>6. Waited(u, v, TRUE) \/ Decided(u, v)
      BY <1>1, <2>1, <3>3, <3>4, <3>5, TryFinalizeRoundCases
    <3> HIDE DEF v
    <3>7. CASE Decided(u, v)
      <4>1. RuntimeInv(v) /\ v \in State /\ ~Scheduled(v)
        BY <1>1, <2>1, <3>3, <3>7, DecidedInv
      <4>2. Decided(st, v)
        BY <1>1, <2>1, <3>2, <3>7, SameDecided
      <4> QED BY <4>1, <4>2 DEF v, u
    <3>8. CASE Waited(u, v, TRUE)
      <4>1. RuntimeInv(v) /\ v \in State
        BY <1>1, <2>1, <3>3, <3>5, <3>8, WaitedInv
      <4>2. Waited(st, v, TRUE)
        BY <1>1, <2>1, <3>2, <3>5, <3>8, SameDecided
      <4>3. v.nextTimeout = height + BackupTimeout
        BY <3>1, <3>8 DEF Waited
      <4>4. height < v.nextTimeout
        BY <1>1, <4>3, TimeoutPositive
      <4>5. \E b \in BOOLEAN : Waited(st, v, b) /\ (b => st.nextTimeout = height)
        BY <3>2, <3>5, <4>2
      <4> QED BY <4>1, <4>4, <4>5 DEF v, u
    <3> QED BY <3>6, <3>7, <3>8
  <2> QED BY <2>4, <2>5
<1> QED BY <1>3, <1>4, <1>5

-----------------------------------------------------------------------------
(*                               Transactions                              *)

\* The pool q is p with more votes of backup workers.
Resolves(p, q) ==
    /\ q.commitment = p.commitment
    /\ \A n \in Node :
          q.votes[p.highestRank][n] # p.votes[p.highestRank][n] =>
             p.votes[p.highestRank][n] = NoVote /\ n \in st.committee.backups

\* What the working copy of the pool satisfies while a transaction is executed.
GoodPool(q) ==
    /\ q \in Pool /\ PoolInv(q, st.committee, st.round + 1)
    /\ q.discrepancy = st.pool.discrepancy
    /\ q.highestRank <= st.pool.highestRank
    /\ st.pool.discrepancy => q.highestRank = st.pool.highestRank
    /\ \A r \in Rank, n \in Node \ Faulty :
          q.votes[r][n] \in Result => HonestVote(st, q.votes[r][n])
    /\ st.pool.discrepancy => Resolves(st.pool, q)

\* A runtime that transactions are accepted for has a committee, a pool and a type.
LEMMA RunnableFacts ==
    ASSUME IInv, Runnable(st)
    PROVE  /\ st.committee \in Committees /\ IsCommittee(st.committee) /\ st.committee # Nil
           /\ st.pool \in Pool /\ st.pool # Nil /\ ~st.suspended
           /\ PoolInv(st.pool, st.committee, st.round + 1)
           /\ st \in State /\ st.round \in Nat /\ height \in Nat /\ nextSeq \in Nat
BY RootHashAssumption DEF Runnable, State, IInv, TypeOK, RuntimeInv, Structure

\* The pool that is stored in a reachable state satisfies the pool invariant.
LEMMA StoredPoolGood ==
    ASSUME IInv, Runnable(st)
    PROVE  GoodPool(st.pool)
<1>1. st.pool.highestRank \in Nat
  BY RunnableFacts, PoolFields
<1>2. HonestVotes(st)
  BY DEF IInv, RuntimeInv
<1>3. Resolves(st.pool, st.pool)
  BY DEF Resolves
<1> QED BY <1>1, <1>2, <1>3, RunnableFacts DEF GoodPool, HonestVotes

\* An accepted and signable commitment keeps a good pool good.
LEMMA GoodPoolStep ==
    ASSUME IInv, Runnable(st), NEW p, GoodPool(p), NEW ec \in Commitments,
           Signable(ec), Acceptable(p, ec)
    PROVE  GoodPool(AddVerifiedExecutorCommitment(p, st.committee, ec))
<1> DEFINE c == st.committee
           q == AddVerifiedExecutorCommitment(p, c, ec)
<1>1. IsCommittee(c) /\ st.round \in Nat /\ p \in Pool /\ PoolInv(p, c, st.round + 1)
  BY RunnableFacts DEF GoodPool
<1>2. ec \in ExecutorCommitment
  BY <1>1 DEF Commitments, ExecutorCommitment
<1>3. VerifyExecutorCommitment(st.round, ec) /\ CommitmentAllowed(p, c, ec)
  BY DEF Acceptable
<1>4. /\ q \in Pool /\ PoolInv(q, c, st.round + 1) /\ q.discrepancy = p.discrepancy
      /\ q.highestRank <= p.highestRank /\ (p.discrepancy => q.highestRank = p.highestRank)
  BY <1>1, <1>2, <1>3, AddOK
<1>5. q.highestRank <= st.pool.highestRank
  BY <1>1, <1>4, RunnableFacts, PoolFields DEF GoodPool
<1>6. ASSUME NEW r \in Rank, NEW n \in Node \ Faulty, q.votes[r][n] \in Result
      PROVE  HonestVote(st, q.votes[r][n])
  <2>1. \/ q.votes[r][n] = p.votes[r][n]
        \/ q.votes[r][n] = NoVote
        \/ n = ec.node /\ q.votes[r][n] = ec.vote
    BY <1>1, <1>2, AddVotes
  <2> HIDE DEF q
  <2>2. q.votes[r][n] # NoVote
    BY <1>6, PoolAssumption
  <2>3. CASE q.votes[r][n] = p.votes[r][n]
    BY <1>6, <2>3 DEF GoodPool
  <2>4. CASE n = ec.node /\ q.votes[r][n] = ec.vote
    BY <1>6, <2>4, PoolAssumption DEF Signable, HonestVote
  <2> QED BY <2>1, <2>2, <2>3, <2>4
<1>7. ASSUME st.pool.discrepancy PROVE Resolves(st.pool, q)
  <2>1. p.discrepancy /\ p.highestRank = st.pool.highestRank /\ Resolves(st.pool, p)
    BY <1>7 DEF GoodPool
  <2>2. /\ q.commitment = p.commitment
        /\ \A n \in Node : q.votes[p.highestRank][n] # p.votes[p.highestRank][n] =>
              p.votes[p.highestRank][n] = NoVote /\ n \in c.backups
    BY <1>1, <1>2, <1>3, <2>1, AddResolves
  <2> HIDE DEF q
  <2> QED BY <2>1, <2>2 DEF Resolves
<1> HIDE DEF q
<1>8. st.pool.discrepancy => q.highestRank = st.pool.highestRank
  BY <1>4 DEF GoodPool
<1>9. q.discrepancy = st.pool.discrepancy
  BY <1>4 DEF GoodPool
<1> QED BY <1>4, <1>5, <1>6, <1>7, <1>8, <1>9 DEF GoodPool, q

\* A better rank leaves room for one more round timeout.
LEMMA DeadlineStep ==
    ASSUME NEW m \in Nat, NEW a \in Nat, NEW b \in Nat, a < b, b <= m, NEW t \in Nat
    PROVE  (m - b) * t + t <= (m - a) * t /\ (m - b) * t \in Nat
<1>1. (m - a) * t = (m - b) * t + (b - a) * t
  OBVIOUS
<1>2. (b - a) * t >= t
  OBVIOUS
<1> QED BY <1>1, <1>2

\* Storing a good pool, with the timer re-armed for a new rank, keeps the invariant.
LEMMA StoreCommitmentsInv ==
    ASSUME IInv, phase = "deliver", Runnable(st), NEW q, GoodPool(q), StoreCommitments(q)
    PROVE  IInv'
<1> DEFINE s == [st EXCEPT !.pool = q]
           p == st.pool
           next == height + RoundTimeout
<1>1. /\ st.committee \in Committees /\ st.committee # Nil /\ p \in Pool /\ p # Nil
      /\ ~st.suspended /\ st \in State /\ height \in Nat /\ nextSeq \in Nat
      /\ RuntimeInv(st) /\ Timing(st)
  BY RunnableFacts DEF IInv
<1>2. /\ q \in Pool /\ q # Nil /\ PoolInv(q, st.committee, st.round + 1)
      /\ q.discrepancy = p.discrepancy
      /\ q.highestRank <= p.highestRank /\ (p.discrepancy => q.highestRank = p.highestRank)
      /\ \A r \in Rank, n \in Node \ Faulty :
            q.votes[r][n] \in Result => HonestVote(st, q.votes[r][n])
  BY RootHashAssumption DEF GoodPool
<1>3. /\ s \in State /\ s.pool = q
      /\ s.nextTimeout = st.nextTimeout /\ s.timeouts = st.timeouts
      /\ s.suspended = st.suspended /\ s.committee = st.committee
      /\ s.stats = st.stats /\ s.round = st.round /\ s.kind = st.kind /\ s.root = st.root
      /\ s.lastNormalRound = st.lastNormalRound /\ s.queue = st.queue
      /\ s.queueSize = st.queueSize /\ s.failed = st.failed
  BY <1>1, <1>2 DEF State
<1>4. /\ pending' = TRUE
      /\ q.highestRank # p.highestRank => st' = RearmRoundTimeout(s, next)
      /\ q.highestRank = p.highestRank => st' = s
      /\ ghost'.firstCommit = IF p.highestRank = NoRank /\ q.highestRank # NoRank
                              THEN height ELSE ghost.firstCommit
      /\ ghost' \in [epochRound : Nat, firstCommit : Nat]
      /\ UNCHANGED <<height, phase, active, nextSeq>>
  BY <1>1 DEF StoreCommitments, IInv, TypeOK
<1> HIDE DEF s, next
<1>5. next \in Nat /\ next # TimeoutNever /\ next > height
  BY <1>1, TimeoutPositive DEF next
<1>6. OtherTimeouts(s) = {}
  BY <1>1, <1>3 DEF OtherTimeouts, RuntimeInv, Timer
<1>7. /\ st' \in State /\ st'.pool = q
      /\ st'.suspended = st.suspended /\ st'.committee = st.committee
      /\ st'.round = st.round /\ st'.kind = st.kind /\ st'.root = st.root
      /\ st'.queue = st.queue /\ st'.queueSize = st.queueSize /\ st'.failed = st.failed
      /\ q.highestRank # p.highestRank =>
            st'.nextTimeout = next /\ st'.timeouts = {next}
      /\ q.highestRank = p.highestRank =>
            st'.nextTimeout = st.nextTimeout /\ st'.timeouts = st.timeouts
  <2>1. CASE q.highestRank # p.highestRank
    <3>1. st' = RearmRoundTimeout(s, next)
      BY <1>4, <2>1
    <3>2. /\ st' \in State /\ st'.nextTimeout = next /\ st'.timeouts = OtherTimeouts(s) \cup {next}
          /\ st'.suspended = s.suspended /\ st'.committee = s.committee /\ st'.pool = s.pool
          /\ st'.round = s.round /\ st'.kind = s.kind /\ st'.root = s.root
          /\ st'.queue = s.queue /\ st'.queueSize = s.queueSize /\ st'.failed = s.failed
      BY <1>3, <1>5, <3>1, RearmFields
    <3>3. st'.timeouts = {next}
      BY <1>6, <3>2
    <3> QED BY <1>3, <2>1, <3>2, <3>3
  <2>2. CASE q.highestRank = p.highestRank
    BY <1>3, <1>4, <2>2
  <2> QED BY <2>1, <2>2
<1>8. p.highestRank \in Nat /\ q.highestRank \in Nat /\ p.highestRank <= NoRank
      /\ (q.highestRank # p.highestRank => q.highestRank < p.highestRank /\ q.highestRank # NoRank)
  BY <1>1, <1>2, PoolFields, PoolAssumption DEF Rank, NoRank
<1>9. Structure(st)'
  BY <1>1, <1>2, <1>7 DEF Structure
<1>10. Timer(st)'
  <2>1. Scheduled(st)' <=> q.highestRank # NoRank
    BY <1>2, <1>7 DEF Scheduled
  <2>2. Scheduled(st) <=> p.highestRank # NoRank
    BY <1>1 DEF Scheduled
  <2>3. CASE q.highestRank # p.highestRank
    BY <1>5, <1>7, <1>8, <2>1, <2>3 DEF Timer
  <2>4. CASE q.highestRank = p.highestRank
    BY <1>1, <1>7, <2>1, <2>2, <2>4 DEF Timer, RuntimeInv
  <2> QED BY <2>3, <2>4
<1>11. Queue(st)' /\ ~st'.failed
  BY <1>1, <1>4, <1>7 DEF Queue, RuntimeInv
<1>12. HonestVotes(st)'
  BY <1>2, <1>7 DEF HonestVotes, HonestVote
<1>13. Timing(st)'
  <2> SUFFICES ASSUME Scheduled(st)'
               PROVE  /\ ghost'.firstCommit <= height
                      /\ st'.nextTimeout <= Deadline(st.pool)'
                      /\ height <= st'.nextTimeout
    BY <1>4 DEF Timing
  <2> DEFINE fc == ghost.firstCommit
             a == q.highestRank
             b == p.highestRank
             M == MaxGroupSize
             T == RoundTimeout
             x == IF p.discrepancy THEN BackupTimeout ELSE 0
  <2>1. fc \in Nat /\ M \in Nat /\ T \in Nat \ {0} /\ x \in Nat /\ NoRank = M /\ a # M
    BY <1>7, TimeoutPositive, PoolAssumption DEF IInv, TypeOK, NoRank, Scheduled
  <2>2. Deadline(st.pool)' = ghost'.firstCommit + (M - a) * T + x
    BY <1>2, <1>7 DEF Deadline
  <2>3. CASE b = M
    <3>1. ghost'.firstCommit = height /\ st'.nextTimeout = height + T /\ a < b
      BY <1>4, <1>7, <1>8, <2>1, <2>3 DEF next
    <3>2. (M - b) * T + T <= (M - a) * T /\ (M - b) * T \in Nat
      <4> HIDE DEF a, b, M, T
      <4> QED BY <1>8, <2>1, <2>3, <3>1, DeadlineStep DEF a, b
    <3>3. a \in Nat
      BY <1>8
    <3> HIDE DEF a, b, M, T, x
    <3>4. (M - a) * T \in Int
      BY <2>1, <3>3
    <3>5. height + T <= height + (M - a) * T + x
      BY <1>1, <2>1, <3>2, <3>4
    <3> QED BY <1>1, <2>1, <2>2, <3>1, <3>5
  <2>4. CASE b # M
    <3>1. Scheduled(st)
      BY <1>1, <2>1, <2>4 DEF Scheduled
    <3>2. /\ fc <= height /\ st.nextTimeout <= fc + (M - b) * T + x /\ height <= st.nextTimeout
          /\ st.nextTimeout \in Nat /\ ghost'.firstCommit = fc
      BY <1>1, <1>4, <2>1, <2>4, <3>1 DEF Timing, Deadline, State
    <3>3. CASE a = b
      BY <1>7, <2>2, <3>2, <3>3
    <3>4. CASE a # b
      <4>1. a < b /\ b <= M /\ a \in Nat /\ b \in Nat
        BY <1>8, <2>1, <3>4
      <4>2. st'.nextTimeout = height + T
        BY <1>7, <3>4 DEF next
      <4> HIDE DEF a, b, M, T, x
      <4>3. (M - b) * T + T <= (M - a) * T /\ (M - b) * T \in Nat
        BY <2>1, <4>1, DeadlineStep
      <4>4. (M - a) * T \in Int
        BY <2>1, <4>1
      <4>5. height + T <= fc + (M - a) * T + x
        BY <1>1, <2>1, <3>2, <4>3, <4>4
      <4> QED BY <1>1, <2>1, <2>2, <3>2, <4>2, <4>5
    <3> QED BY <3>3, <3>4
  <2> QED BY <2>3, <2>4
<1>14. TypeOK'
  BY <1>1, <1>4, <1>7 DEF TypeOK, IInv
<1>15. Runnable(st)'
  BY <1>1, <1>2, <1>7 DEF Runnable
<1> QED BY <1>9, <1>10, <1>11, <1>12, <1>13, <1>14, <1>15 DEF IInv, RuntimeInv

\* A message is appended behind the messages that votes refer to.
LEMMA SubmitMsgInv ==
    ASSUME IInv, SubmitMsg
    PROVE  IInv'
<1> DEFINE q == st.queue
           l == Len(q)
           q2 == Append(q, nextSeq)
           z == st.queueSize + 1
<1>1. /\ phase = "deliver" /\ Runnable(st) /\ st.queueSize < MaxInMessages
      /\ st' = [st EXCEPT !.queue = q2, !.queueSize = z]
      /\ nextSeq' = nextSeq + 1 /\ UNCHANGED <<height, phase, active, pending, ghost>>
  BY DEF SubmitMsg
<1>2. st \in State /\ RuntimeInv(st) /\ nextSeq \in Nat /\ q \in Seq(Nat) /\ l \in Nat
  BY DEF IInv, TypeOK, State
<1>3. q2 \in Seq(Nat) /\ Len(q2) = l + 1 /\ (\A i \in 1 .. l : q2[i] = q[i]) /\ q2[l + 1] = nextSeq
  BY <1>2
<1>4. st.queueSize = l /\ (\A i \in 1 .. l : q[i] = nextSeq - l + (i - 1)) /\ MaxInMessages \in Nat
  BY <1>2, RootHashAssumption DEF RuntimeInv, Queue
<1>12. z \in Int /\ z = l + 1
  BY <1>2, <1>4
<1> HIDE DEF q2, z, l
<1>5. /\ st' \in State /\ st'.queue = q2 /\ st'.queueSize = z
      /\ st'.nextTimeout = st.nextTimeout /\ st'.timeouts = st.timeouts
      /\ st'.suspended = st.suspended /\ st'.committee = st.committee /\ st'.pool = st.pool
      /\ st'.round = st.round /\ st'.root = st.root /\ st'.failed = st.failed
  BY <1>1, <1>2, <1>3, <1>12 DEF State
<1> HIDE DEF q
<1>6. Queue(st)'
  <2>1. ASSUME NEW i \in 1 .. l + 1
        PROVE  q2[i] = (nextSeq + 1) - (l + 1) + (i - 1)
    <3>1. CASE i \in 1 .. l
      BY <1>2, <1>3, <1>4, <3>1
    <3>2. CASE i = l + 1
      BY <1>2, <1>3, <3>2
    <3> QED BY <1>2, <2>1, <3>1, <3>2
  <2> QED BY <1>1, <1>2, <1>3, <1>4, <1>5, <1>12, <2>1 DEF Queue
<1>7. ASSUME NEW v \in Result, HonestVote(st, v) PROVE HonestVote(st, v)'
  <2>1. v.inCount \in Nat
    BY RootHashAssumption
  <2>2. v.inCount <= l /\ v.inHash = SubSeq(q, 1, v.inCount) /\ v.root \in ValidRoot
    BY <1>7 DEF HonestVote, q, l
  <2>3. SubSeq(q2, 1, v.inCount) = SubSeq(q, 1, v.inCount)
    <3> DEFINE k == v.inCount
    <3> HIDE DEF k
    <3>1. k \in 0 .. l
      BY <1>2, <2>1, <2>2 DEF k
    <3>2. SubSeq(q2, 1, k) = [i \in 1 .. k |-> q2[i]]
      BY <1>2, <1>3, <3>1
    <3>3. SubSeq(q, 1, k) = [i \in 1 .. k |-> q[i]]
      BY <1>2, <3>1 DEF l
    <3>4. \A i \in 1 .. k : q2[i] = q[i]
      BY <1>2, <1>3, <3>1
    <3> QED BY <3>2, <3>3, <3>4 DEF k
  <2>4. v.inCount <= l + 1
    BY <1>2, <2>1, <2>2
  <2> QED BY <1>3, <1>5, <2>2, <2>3, <2>4 DEF HonestVote
<1>8. HonestVotes(st)'
  BY <1>2, <1>5, <1>7 DEF HonestVotes, RuntimeInv
<1>9. Structure(st)' /\ Timer(st)' /\ ~st'.failed
  BY <1>2, <1>5 DEF RuntimeInv, Structure, Timer, Scheduled
<1>10. Timing(st)' /\ (phase' = "deliver" /\ pending' => Runnable(st)')
  BY <1>1, <1>5 DEF IInv, Timing, Deadline, Scheduled, Runnable
<1>11. TypeOK'
  BY <1>1, <1>5 DEF IInv, TypeOK
<1> QED BY <1>6, <1>8, <1>9, <1>10, <1>11 DEF IInv, RuntimeInv

-----------------------------------------------------------------------------
(*                          BeginBlock and EndBlock                        *)

\* A committee change keeps the invariant.
LEMMA CommitteeChangedInv ==
    ASSUME IInv, NEW committee \in Committees \cup {Nil}, NEW sufficientStake \in BOOLEAN,
           CommitteeChanged(committee, sufficientStake)
    PROVE  IInv'
<1> DEFINE suspend == committee = Nil \/ ~sufficientStake
           kind == IF suspend THEN "Suspended" ELSE "EpochTransition"
           r == st.root
           block == FinalizeBlock(st, kind, r)
           c2 == IF suspend THEN Nil ELSE committee
<1>1. st \in State /\ RuntimeInv(st) /\ height \in Nat /\ r \in Root
  BY DEF IInv, TypeOK, State
<1>2. /\ height' = height + 1 /\ phase' = "deliver" /\ pending' = FALSE /\ active' = ~suspend
      /\ st' = [block EXCEPT !.suspended = suspend, !.committee = c2, !.stats = Nil]
      /\ ghost' = [epochRound |-> st.round + 1, firstCommit |-> 0] /\ nextSeq' = nextSeq
  BY DEF CommitteeChanged, BeginBlock
<1>3. /\ suspend \in BOOLEAN /\ c2 \in Committees \cup {Nil} /\ (suspend <=> c2 = Nil)
      /\ kind = "Suspended" <=> suspend
  BY RootHashAssumption
<1>15. kind \in {"EpochTransition", "Suspended"}
  OBVIOUS
<1> HIDE DEF suspend, kind, r, c2
<1>4. /\ block \in State /\ block.root = r
      /\ kind = "Suspended" => block.pool = Nil
      /\ kind # "Suspended" => block.pool = NewPool
      /\ block.nextTimeout = TimeoutNever /\ block.timeouts = OtherTimeouts(st)
      /\ block.queue = st.queue /\ block.queueSize = st.queueSize /\ block.failed = st.failed
  <2> DEFINE s == st
             x == FinalizeBlock(s, "Suspended", r)
             y == FinalizeBlock(s, "EpochTransition", r)
  <2>1. s \in State
    BY <1>1
  <2> HIDE DEF s
  <2>2. /\ x \in State /\ x.root = r /\ x.pool = Nil
        /\ x.nextTimeout = TimeoutNever /\ x.timeouts = OtherTimeouts(s)
        /\ x.queue = s.queue /\ x.queueSize = s.queueSize /\ x.failed = s.failed
    BY <1>1, <2>1, FinalizeBlockFields
  <2>3. /\ y \in State /\ y.root = r /\ y.pool = NewPool
        /\ y.nextTimeout = TimeoutNever /\ y.timeouts = OtherTimeouts(s)
        /\ y.queue = s.queue /\ y.queueSize = s.queueSize /\ y.failed = s.failed
    BY <1>1, <2>1, FinalizeBlockFields
  <2>4. (kind = "Suspended" => block = x) /\ (kind = "EpochTransition" => block = y)
    BY DEF s
  <2> HIDE DEF x, y
  <2> QED BY <1>15, <2>2, <2>3, <2>4 DEF s
<1> HIDE DEF block
<1>5. /\ st' \in State /\ st'.suspended = suspend /\ st'.committee = c2 /\ st'.root = r
      /\ st'.pool = block.pool /\ st'.nextTimeout = TimeoutNever /\ st'.timeouts = OtherTimeouts(st)
      /\ st'.queue = st.queue /\ st'.queueSize = st.queueSize /\ st'.failed = st.failed
      /\ st'.round = block.round
  BY <1>2, <1>3, <1>4 DEF State
<1>6. NewPool # Nil /\ NewPool.highestRank = NoRank
      /\ \A n \in Node, k \in Rank : NewPool.votes[k][n] = NoVote
  BY NewPoolOK, RootHashAssumption DEF NewPool, NoVotes
<1>7. Structure(st)'
  <2>1. st'.pool = Nil <=> st'.committee = Nil
    BY <1>3, <1>4, <1>5, <1>6
  <2>2. st'.pool # Nil => PoolInv(st'.pool, st'.committee, st'.round + 1)
    BY <1>3, <1>4, <1>5, <1>6, NewPoolOK
  <2> QED BY <1>3, <1>5, <2>1, <2>2 DEF Structure
<1>8. ~Scheduled(st)'
  BY <1>3, <1>4, <1>5, <1>6 DEF Scheduled
<1>9. OtherTimeouts(st) = {}
  BY <1>1 DEF OtherTimeouts, RuntimeInv, Timer
<1>10. Timer(st)'
  BY <1>5, <1>8, <1>9 DEF Timer
<1>11. HonestVotes(st)'
  BY <1>3, <1>4, <1>5, <1>6, PoolAssumption DEF HonestVotes
<1>12. Queue(st)' /\ ~st'.failed
  BY <1>1, <1>2, <1>5 DEF Queue, RuntimeInv, r
<1>13. Timing(st)'
  BY <1>8 DEF Timing
<1>14. TypeOK'
  <2>1. height' \in Nat /\ nextSeq' \in Nat /\ st.round + 1 \in Nat
    BY <1>1, <1>2 DEF IInv, TypeOK, State
  <2>2. ghost' \in [epochRound : Nat, firstCommit : Nat]
    BY <1>2, <2>1
  <2>3. phase' \in {"begin", "deliver"} /\ active' \in BOOLEAN /\ pending' \in BOOLEAN
    BY <1>2, <1>3
  <2> QED BY <1>5, <2>1, <2>2, <2>3 DEF TypeOK
<1> QED BY <1>2, <1>7, <1>10, <1>11, <1>12, <1>13, <1>14 DEF IInv, RuntimeInv

\* EndBlock, finalization followed by timeouts, keeps the invariant.
LEMMA EndBlockInv ==
    ASSUME IInv, EndBlock
    PROVE  IInv'
<1>1. phase = "deliver" /\ phase' = "begin" /\ UNCHANGED <<height, active, pending, nextSeq>>
      /\ ghost' = [ghost EXCEPT !.firstCommit = IF st'.round = st.round THEN @ ELSE 0]
      /\ st' = ProcessRoundTimeouts(TryFinalizeRounds(st))
  BY DEF EndBlock
<1>2. /\ st' \in State /\ RuntimeInv(st')
      /\ \/ Decided(st, st') /\ ~Scheduled(st')
         \/ /\ \E b \in BOOLEAN : Waited(st, st', b) /\ (b => st.nextTimeout = height)
            /\ Scheduled(st') => height < st'.nextTimeout
  BY <1>1, EndBlockCases
<1>3. RuntimeInv(st)'
  BY <1>1, <1>2 DEF RuntimeInv, Structure, Timer, Queue, HonestVotes, HonestVote, Scheduled
<1>4. TypeOK'
  BY <1>1, <1>2 DEF TypeOK, IInv
<1>5. Timing(st)'
  <2> SUFFICES ASSUME Scheduled(st)'
               PROVE  /\ ghost'.firstCommit <= height /\ st'.nextTimeout <= Deadline(st.pool)'
                      /\ height < st'.nextTimeout
    BY <1>1 DEF Timing
  <2>1. PICK b \in BOOLEAN : Waited(st, st', b)
    BY <1>2 DEF Scheduled
  <2>2. height < st'.nextTimeout
    BY <1>2 DEF Scheduled
  <2>3. st'.round = st.round /\ ghost'.firstCommit = ghost.firstCommit /\ ghost' = ghost
    BY <1>1, <2>1 DEF Waited, IInv, TypeOK
  <2>4. st \in State /\ height \in Nat /\ st.nextTimeout \in Nat /\ ghost.firstCommit \in Nat
    BY DEF IInv, TypeOK, State
  <2>5. CASE st'.pool = st.pool /\ st'.nextTimeout = st.nextTimeout
    <3>1. Scheduled(st)
      BY <2>5 DEF Scheduled
    <3>2. ghost.firstCommit <= height /\ st.nextTimeout <= Deadline(st.pool)
      BY <3>1 DEF IInv, Timing
    <3>3. Deadline(st.pool)' = Deadline(st.pool)
      BY <2>3, <2>5 DEF Deadline
    <3> QED BY <2>2, <2>3, <2>5, <3>2, <3>3
  <2>6. CASE /\ Scheduled(st) /\ ~st.pool.discrepancy /\ st'.pool = StartResolution(st.pool)
             /\ st'.nextTimeout = height + BackupTimeout
    <3> DEFINE x == (MaxGroupSize - st.pool.highestRank) * RoundTimeout
               fc == ghost.firstCommit
    <3>1. fc <= height /\ st.nextTimeout <= fc + x + 0 /\ height <= st.nextTimeout
      BY <1>1, <2>6 DEF IInv, Timing, Deadline
    <3>2. Deadline(st.pool)' = fc + x + BackupTimeout
      BY <2>3, <2>6 DEF Deadline, StartResolution
    <3>3. x \in Int
      <4>1. st.pool \in Pool
        BY <2>4, <2>6 DEF Scheduled, State
      <4>2. st.pool.highestRank \in Nat
        BY <4>1, PoolFields
      <4> QED BY <4>2, TimeoutPositive, PoolAssumption
    <3> HIDE DEF x, fc
    <3>4. fc \in Nat
      BY <2>4 DEF fc
    <3>5. height + BackupTimeout <= fc + x + BackupTimeout
      BY <2>4, <3>1, <3>3, <3>4, TimeoutPositive
    <3> QED BY <2>2, <2>3, <2>6, <3>1, <3>2, <3>5 DEF fc
  <2> QED BY <2>1, <2>5, <2>6 DEF Waited
<1> QED BY <1>1, <1>3, <1>4, <1>5 DEF IInv

-----------------------------------------------------------------------------
(*                                Theorems                                 *)

\* The invariant holds in the state of a newly registered runtime.
LEMMA InitIInv == ASSUME Init PROVE IInv
<1>1. TypeOK
  <2>1. st \in State
    BY RootHashAssumption DEF Init, State, TimeoutNever
  <2>2. height \in Nat /\ phase \in {"begin", "deliver"} /\ nextSeq \in Nat
        /\ ghost \in [epochRound : Nat, firstCommit : Nat]
    BY DEF Init
  <2>3. active \in BOOLEAN /\ pending \in BOOLEAN
    BY Zenon DEF Init
  <2> QED BY <2>1, <2>2, <2>3 DEF TypeOK
<1>2. RuntimeInv(st)
  BY RootHashAssumption DEF Init, RuntimeInv, Structure, Timer, Queue, HonestVotes, Scheduled
<1>3. Timing(st) /\ ~pending
  BY DEF Init, Timing, Scheduled
<1> QED BY <1>1, <1>2, <1>3 DEF IInv

\* Every step of a consensus block keeps the invariant.
LEMMA NextIInv == ASSUME IInv, [Next]_vars PROVE IInv'
<1>1. CASE BeginBlockNoChange
  <2>1. /\ phase = "begin" /\ phase' = "deliver" /\ height' = height + 1 /\ pending' = FALSE
        /\ UNCHANGED <<active, st, nextSeq, ghost>>
    BY <1>1 DEF BeginBlockNoChange, BeginBlock
  <2>2. TypeOK'
    <3>1. height' \in Nat /\ phase' \in {"begin", "deliver"}
      BY <2>1 DEF IInv, TypeOK
    <3>2. pending' \in BOOLEAN
      BY <2>1
    <3> QED BY <2>1, <3>1, <3>2, Zenon DEF IInv, TypeOK
  <2>3. RuntimeInv(st)'
    BY <2>1 DEF IInv, RuntimeInv, Structure, Timer, Queue, HonestVotes, HonestVote, Scheduled
  <2>4. Timing(st)'
    <3>1. height \in Nat /\ st.nextTimeout \in Nat /\ ghost.firstCommit \in Nat
      BY DEF IInv, TypeOK, State
    <3>2. Deadline(st.pool)' = Deadline(st.pool) /\ (Scheduled(st)' <=> Scheduled(st))
      BY <2>1 DEF Deadline, Scheduled
    <3> HIDE DEF Deadline
    <3> QED BY <2>1, <3>1, <3>2 DEF IInv, Timing
  <2> QED BY <2>1, <2>2, <2>3, <2>4 DEF IInv
<1>2. ASSUME NEW committee \in Committees \cup {Nil}, NEW sufficientStake \in BOOLEAN,
             CommitteeChanged(committee, sufficientStake)
      PROVE  IInv'
  BY <1>2, CommitteeChangedInv
<1>3. ASSUME NEW ec \in Commitments, ExecutorCommit(ec) PROVE IInv'
  <2>1. /\ phase = "deliver" /\ Runnable(st) /\ Signable(ec) /\ Acceptable(st.pool, ec)
        /\ StoreCommitments(AddVerifiedExecutorCommitment(st.pool, st.committee, ec))
    BY <1>3 DEF ExecutorCommit
  <2>2. GoodPool(AddVerifiedExecutorCommitment(st.pool, st.committee, ec))
    BY <2>1, StoredPoolGood, GoodPoolStep
  <2> QED BY <2>1, <2>2, StoreCommitmentsInv
<1>4. ASSUME NEW ec1 \in Commitments, ExecutorCommitTwo(ec1) PROVE IInv'
  <2> DEFINE p == AddVerifiedExecutorCommitment(st.pool, st.committee, ec1)
  <2>1. PICK ec2 \in Commitments :
           /\ phase = "deliver" /\ Runnable(st) /\ Signable(ec1) /\ Acceptable(st.pool, ec1)
           /\ Signable(ec2) /\ Acceptable(p, ec2)
           /\ StoreCommitments(AddVerifiedExecutorCommitment(p, st.committee, ec2))
    BY <1>4 DEF ExecutorCommitTwo
  <2>2. GoodPool(p)
    BY <2>1, StoredPoolGood, GoodPoolStep
  <2>3. GoodPool(AddVerifiedExecutorCommitment(p, st.committee, ec2))
    <3> HIDE DEF p
    <3> QED BY <2>1, <2>2, GoodPoolStep
  <2> HIDE DEF p
  <2> QED BY <2>1, <2>3, StoreCommitmentsInv
<1>5. CASE SubmitMsg
  BY <1>5, SubmitMsgInv
<1>6. CASE ResumeRuntime \/ UNCHANGED vars
  <2>1. UNCHANGED <<height, phase, pending, st, nextSeq, ghost>> /\ active' \in BOOLEAN
    BY <1>6 DEF ResumeRuntime, vars, IInv, TypeOK
  <2>2. TypeOK'
    BY <2>1 DEF IInv, TypeOK
  <2>3. RuntimeInv(st)'
    BY <2>1 DEF IInv, RuntimeInv, Structure, Timer, Queue, HonestVotes, HonestVote, Scheduled
  <2>4. Timing(st)' /\ (phase' = "deliver" /\ pending' => Runnable(st)')
    BY <2>1 DEF IInv, Timing, Deadline, Scheduled, Runnable
  <2> QED BY <2>2, <2>3, <2>4 DEF IInv
<1>7. CASE EndBlock
  BY <1>7, EndBlockInv
<1> QED BY <1>1, <1>2, <1>3, <1>4, <1>5, <1>6, <1>7 DEF Next

(* The invariant of the state machine: every property below is one of its   *)
(* consequences, or follows from it and from a single step.                 *)
THEOREM Invariance == Spec => []IInv
BY InitIInv, NextIInv, PTL DEF Spec

\* Every handler keeps the consensus state of the runtime well-typed.
THEOREM TypeCorrect == Spec => []TypeOK
<1>1. IInv => TypeOK
  BY DEF IInv
<1> QED BY <1>1, Invariance, PTL

(* The commitment that processCommitments dereferences exists, whatever the  *)
(* order in which schedulers and workers commit.                             *)
THEOREM SchedulerAlwaysBacked == Spec => []SchedulerCommitmentBacked
<1>1. ASSUME IInv PROVE SchedulerCommitmentBacked
  <2> SUFFICES ASSUME Scheduled(st) PROVE SchedulerCommitmentBacked!2
    BY DEF SchedulerCommitmentBacked
  <2> DEFINE p == st.pool
             hr == p.highestRank
             c == st.committee
  <2>1. Runnable(st) /\ hr # NoRank
    BY <1>1 DEF IInv, RuntimeInv, Structure, Scheduled, Runnable
  <2>2. /\ IsCommittee(c) /\ p \in Pool /\ PoolInv(p, c, st.round + 1)
        /\ st.round \in Nat /\ st.round + 1 \in Nat
    BY <1>1, <2>1, RunnableFacts
  <2>3. p.commitment[hr] \in Result
    BY <2>1, <2>2 DEF PoolInv
  <2>4. PICK n \in Workers(c) : /\ SchedulerRank(c, st.round + 1, n) = hr
                                /\ p.votes[hr][n] = p.commitment[hr]
    BY <2>1, <2>2 DEF PoolInv
  <2>5. SchedulerOf(st) = n
    BY <2>2, <2>4, RankInverse DEF SchedulerOf
  <2>6. ASSUME NEW r \in Rank, r > hr \/ (p.discrepancy /\ r # hr)
        PROVE  p.votes[r] = NoVotes /\ p.commitment[r] = NoVote
    <3>1. r # hr
      BY <2>2, <2>6, PoolFields
    <3> QED BY <2>2, <2>6, <3>1 DEF PoolInv
  <2> QED BY <2>3, <2>4, <2>5, <2>6
<1> QED BY <1>1, Invariance, PTL

\* No round timer is lost, duplicated or left behind by any handler.
THEOREM TimerAlwaysArmed == Spec => []TimeoutArmed
<1>1. ASSUME IInv PROVE TimeoutArmed
  <2>1. Timer(st) /\ Timing(st) /\ st \in State /\ height \in Nat /\ phase \in {"begin", "deliver"}
    BY <1>1 DEF IInv, RuntimeInv, TypeOK
  <2>2. st.nextTimeout \in Nat
    BY <2>1 DEF State
  <2>3. st.nextTimeout # TimeoutNever =>
          st.nextTimeout > height \/ (phase = "deliver" /\ st.nextTimeout = height)
    BY <2>1, <2>2 DEF Timer, Timing
  <2> QED BY <2>1, <2>3 DEF Timer, TimeoutArmed
<1> QED BY <1>1, Invariance, PTL

\* EndBlock never meets a runtime it cannot process and never underflows the queue size.
THEOREM EndBlockSafe == Spec => []EndBlockNeverFails
<1>1. IInv => EndBlockNeverFails
  BY DEF IInv, RuntimeInv, EndBlockNeverFails
<1> QED BY <1>1, Invariance, PTL

\* A round that a scheduler has opened is decided within a bound on the blocks.
THEOREM RoundsDecidedInTime == Spec => []RoundDecidedInTime
<1>1. ASSUME IInv PROVE RoundDecidedInTime
  <2> SUFFICES ASSUME Scheduled(st)
               PROVE  height <= ghost.firstCommit + MaxGroupSize * RoundTimeout + (3 * RoundTimeout) \div 2
    BY DEF RoundDecidedInTime
  <2> DEFINE fc == ghost.firstCommit
             M == MaxGroupSize
             T == RoundTimeout
             a == st.pool.highestRank
             x == IF st.pool.discrepancy THEN BackupTimeout ELSE 0
  <2>1. /\ st.nextTimeout <= fc + (M - a) * T + x /\ height <= st.nextTimeout
        /\ st.nextTimeout \in Nat /\ height \in Nat /\ fc \in Nat
    <3>1. st.nextTimeout \in Nat /\ height \in Nat /\ fc \in Nat /\ phase \in {"begin", "deliver"}
      BY <1>1 DEF IInv, TypeOK, State
    <3>2. st.nextTimeout <= fc + (M - a) * T + x
      BY <1>1 DEF IInv, Timing, Deadline
    <3>3. height <= st.nextTimeout
      BY <1>1, <3>1 DEF IInv, Timing
    <3> QED BY <3>1, <3>2, <3>3
  <2>2. T \in Nat \ {0} /\ M \in Nat
    BY RootHashAssumption, PoolAssumption
  <2>3. x \in Nat /\ x <= (3 * T) \div 2
    BY <2>2, TimeoutPositive DEF BackupTimeout
  <2>4. a \in Nat /\ a <= M
    <3>1. st.pool \in Pool
      BY <1>1 DEF IInv, TypeOK, State, Scheduled
    <3> QED BY <3>1, PoolAssumption, PoolFields DEF NoRank, Rank
  <2>5. (M - a) * T <= M * T /\ (M - a) * T \in Int /\ M * T \in Nat
    <3> HIDE DEF M, T, a
    <3>1. M * T = (M - a) * T + a * T /\ a * T \in Nat
      BY <2>2, <2>4
    <3> QED BY <2>2, <2>4, <3>1
  <2> HIDE DEF fc, x, a
  <2> QED BY <2>1, <2>2, <2>3, <2>5 DEF fc
<1> QED BY <1>1, Invariance, PTL

\* The incoming message queue and its meta record always agree.
THEOREM QueueAlwaysConsistent == Spec => []QueueConsistent
<1>1. IInv => QueueConsistent
  BY DEF IInv, RuntimeInv, Queue, QueueConsistent
<1> QED BY <1>1, Invariance, PTL

\* Messages cannot be consumed or reordered under an honest vote in the open round.
THEOREM HonestVotesStayApplicable == Spec => []HonestVotesApplicable
<1>1. ASSUME IInv PROVE HonestVotesApplicable
  <2> SUFFICES ASSUME st.pool # Nil, NEW r \in Rank, NEW n \in Node \ Faulty,
                      st.pool.votes[r][n] \in Result
               PROVE  LET v == st.pool.votes[r][n] IN FetchRuntimeMessages(st, v.inCount) = v.inHash
    BY DEF HonestVotesApplicable
  <2> DEFINE v == st.pool.votes[r][n]
  <2>1. HonestVote(st, v)
    BY <1>1 DEF IInv, RuntimeInv, HonestVotes
  <2>2. v.inCount \in Nat /\ Len(st.queue) \in Nat
    BY <1>1, RootHashAssumption, SMTT(30) DEF IInv, TypeOK, State
  <2> HIDE DEF v
  <2>3. FetchRuntimeMessages(st, v.inCount) = v.inHash
    <3>1. CASE v.inCount < Len(st.queue)
      BY <2>1, <3>1 DEF HonestVote, FetchRuntimeMessages
    <3>2. CASE v.inCount = Len(st.queue)
      BY <2>1, <2>2, <3>2 DEF HonestVote, FetchRuntimeMessages
    <3> QED BY <2>1, <2>2, <3>1, <3>2 DEF HonestVote
  <2> QED BY <2>3 DEF v
<1> QED BY <1>1, Invariance, PTL

-----------------------------------------------------------------------------
(*                            Action properties                            *)

\* What a step does to the round and the pool.
Kept == /\ st'.round = st.round /\ st'.kind = st.kind /\ st'.root = st.root
        /\ st'.lastNormalRound = st.lastNormalRound /\ st'.committee = st.committee

NewEpoch == /\ st'.round = st.round + 1 /\ st'.kind # "Normal" /\ st'.root = st.root
            /\ st'.lastNormalRound = st.lastNormalRound

\* A transaction with commitments leaves the chain alone and stores its pool.
LEMMA CommitStep ==
    ASSUME IInv, Runnable(st), NEW q, GoodPool(q), StoreCommitments(q)
    PROVE  Kept /\ st'.pool = q
<1> DEFINE s == [st EXCEPT !.pool = q]
           next == height + RoundTimeout
<1>1. st \in State /\ q \in Pool /\ height \in Nat
  BY RunnableFacts DEF GoodPool
<1>2. /\ s \in State /\ s.pool = q /\ s.round = st.round /\ s.kind = st.kind /\ s.root = st.root
      /\ s.lastNormalRound = st.lastNormalRound /\ s.committee = st.committee
  BY <1>1 DEF State
<1>3. st' = RearmRoundTimeout(s, next) \/ st' = s
  BY DEF StoreCommitments
<1>4. next \in Nat
  BY <1>1, TimeoutPositive
<1> HIDE DEF s, next
<1>5. ASSUME st' = RearmRoundTimeout(s, next)
      PROVE  /\ st'.pool = s.pool /\ st'.round = s.round /\ st'.kind = s.kind /\ st'.root = s.root
             /\ st'.lastNormalRound = s.lastNormalRound /\ st'.committee = s.committee
  BY <1>2, <1>4, <1>5, RearmFields
<1> QED BY <1>2, <1>3, <1>5 DEF Kept

\* The five things a step can do to the open round; the action properties follow from them.
LEMMA StepCases ==
    ASSUME IInv, [Next]_vars
    PROVE  \/ Kept /\ st'.pool = st.pool
           \/ Kept /\ Runnable(st) /\ GoodPool(st'.pool)
           \/ NewEpoch
           \/ Decided(st, st')
           \/ \E b \in BOOLEAN : Waited(st, st', b) /\ (b => st.nextTimeout = height)
<1>1. CASE BeginBlockNoChange \/ ResumeRuntime \/ UNCHANGED vars
  BY <1>1 DEF BeginBlockNoChange, ResumeRuntime, vars, Kept
<1>2. ASSUME NEW committee \in Committees \cup {Nil}, NEW sufficientStake \in BOOLEAN,
             CommitteeChanged(committee, sufficientStake)
      PROVE  NewEpoch
  <2> DEFINE s == st
             r == st.root
             x == FinalizeBlock(s, "Suspended", r)
             y == FinalizeBlock(s, "EpochTransition", r)
  <2>1. \E b \in {x, y} : \E k, c :
          st' = [b EXCEPT !.suspended = k, !.committee = c, !.stats = Nil]
    BY <1>2 DEF CommitteeChanged
  <2>2. s \in State /\ r \in Root
    BY DEF IInv, TypeOK, State
  <2>3. s.round = st.round /\ s.lastNormalRound = st.lastNormalRound
    OBVIOUS
  <2> HIDE DEF s, r
  <2>4. /\ x \in State /\ x.round = s.round + 1 /\ x.kind = "Suspended" /\ x.root = r
        /\ x.lastNormalRound = s.lastNormalRound
    BY <2>2, FinalizeBlockFields
  <2>5. /\ y \in State /\ y.round = s.round + 1 /\ y.kind = "EpochTransition" /\ y.root = r
        /\ y.lastNormalRound = s.lastNormalRound
    BY <2>2, FinalizeBlockFields
  <2> HIDE DEF x, y
  <2>5a. PICK b \in {x, y} : \E k, c :
          st' = [b EXCEPT !.suspended = k, !.committee = c, !.stats = Nil]
    BY <2>1
  <2>6. PICK k, c : st' = [b EXCEPT !.suspended = k, !.committee = c, !.stats = Nil]
    BY <2>5a
  <2>7. b \in State /\ b.round = s.round + 1 /\ b.kind # "Normal" /\ b.root = r
        /\ b.lastNormalRound = s.lastNormalRound
    BY <2>4, <2>5
  <2>8. st'.round = b.round /\ st'.kind = b.kind /\ st'.root = b.root
        /\ st'.lastNormalRound = b.lastNormalRound
    BY <2>6, <2>7 DEF State
  <2> QED BY <2>3, <2>7, <2>8 DEF NewEpoch, r
<1>3. ASSUME NEW ec \in Commitments, ExecutorCommit(ec)
      PROVE  Kept /\ Runnable(st) /\ GoodPool(st'.pool)
  <2>1. /\ Runnable(st) /\ Signable(ec) /\ Acceptable(st.pool, ec)
        /\ StoreCommitments(AddVerifiedExecutorCommitment(st.pool, st.committee, ec))
    BY <1>3 DEF ExecutorCommit
  <2>2. GoodPool(AddVerifiedExecutorCommitment(st.pool, st.committee, ec))
    BY <2>1, StoredPoolGood, GoodPoolStep
  <2> QED BY <2>1, <2>2, CommitStep
<1>4. ASSUME NEW ec1 \in Commitments, ExecutorCommitTwo(ec1)
      PROVE  Kept /\ Runnable(st) /\ GoodPool(st'.pool)
  <2> DEFINE p == AddVerifiedExecutorCommitment(st.pool, st.committee, ec1)
  <2>1. PICK ec2 \in Commitments :
           /\ Runnable(st) /\ Signable(ec1) /\ Acceptable(st.pool, ec1)
           /\ Signable(ec2) /\ Acceptable(p, ec2)
           /\ StoreCommitments(AddVerifiedExecutorCommitment(p, st.committee, ec2))
    BY <1>4 DEF ExecutorCommitTwo
  <2>2. GoodPool(p)
    BY <2>1, StoredPoolGood, GoodPoolStep
  <2> HIDE DEF p
  <2>3. GoodPool(AddVerifiedExecutorCommitment(p, st.committee, ec2))
    BY <2>1, <2>2, GoodPoolStep
  <2> QED BY <2>1, <2>3, CommitStep
<1>5. CASE SubmitMsg
  <2>1. st \in State
    BY DEF IInv, TypeOK
  <2>2. st' = [st EXCEPT !.queue = Append(@, nextSeq), !.queueSize = @ + 1]
    BY <1>5 DEF SubmitMsg
  <2> QED BY <2>1, <2>2 DEF Kept, State
<1>6. CASE EndBlock
  <2>1. phase = "deliver" /\ st' = ProcessRoundTimeouts(TryFinalizeRounds(st))
    BY <1>6 DEF EndBlock
  <2> QED BY <2>1, EndBlockCases
<1> QED BY <1>1, <1>2, <1>3, <1>4, <1>5, <1>6 DEF Next

\* Blocks are only appended and only Normal blocks change the state root.
THEOREM ChainAlwaysGrows == Spec => ChainGrows
<1>1. ASSUME IInv, [Next]_vars PROVE GrowStep
  <2>1. st.round \in Nat
    BY <1>1 DEF IInv, TypeOK, State
  <2>2. CASE Kept
    BY <2>2 DEF Kept, GrowStep
  <2>3. CASE NewEpoch
    BY <2>3 DEF NewEpoch, GrowStep
  <2>4. CASE Decided(st, st')
    BY <2>1, <2>4 DEF Decided, Ended, Failed, Succeeded, GrowStep
  <2>5. ASSUME NEW b \in BOOLEAN, Waited(st, st', b) PROVE GrowStep
    BY <2>5 DEF Waited, GrowStep
  <2> QED BY <1>1, <2>2, <2>3, <2>4, <2>5, StepCases
<1> QED BY <1>1, Invariance, PTL DEF Spec, ChainGrows

\* Only results with a quorum of workers or of backup workers become Normal blocks.
THEOREM AlwaysFinalizedByQuorum == Spec => FinalizedByQuorum
<1>1. ASSUME IInv, [Next]_vars PROVE QuorumStep
  <2>1. st.round \in Nat
    BY <1>1 DEF IInv, TypeOK, State
  <2>2. CASE Kept
    BY <2>1, <2>2 DEF Kept, QuorumStep
  <2>3. CASE NewEpoch
    BY <2>3 DEF NewEpoch, QuorumStep
  <2>4. CASE Decided(st, st')
    <3>1. CASE Failed(st, st')
      BY <3>1 DEF Failed, QuorumStep
    <3>2. CASE Succeeded(st, st') /\ QuorumFor(st)
      BY <3>2 DEF Succeeded, QuorumFor, QuorumStep
    <3> QED BY <2>4, <3>1, <3>2 DEF Decided
  <2>5. ASSUME NEW b \in BOOLEAN, Waited(st, st', b) PROVE QuorumStep
    BY <2>1, <2>5 DEF Waited, QuorumStep
  <2> QED BY <1>1, <2>2, <2>3, <2>4, <2>5, StepCases
<1> QED BY <1>1, Invariance, PTL DEF Spec, FinalizedByQuorum

(* Under a committee with tolerable faults every finalized state root was    *)
(* computed by an honest node, for any number of nodes and any schedule of   *)
(* commitments.                                                              *)
THEOREM RootAlwaysValid == Spec => RootValid
<1>1. ASSUME IInv, [Next]_vars PROVE RootStep
  <2> SUFFICES ASSUME st.committee # Nil, FaultsTolerated(st.committee)
               PROVE  st'.root \in {st.root} \cup ValidRoot
    BY DEF RootStep
  <2>1. CASE Kept
    BY <2>1 DEF Kept
  <2>2. CASE NewEpoch
    BY <2>2 DEF NewEpoch
  <2>3. CASE Decided(st, st')
    <3>1. CASE Failed(st, st')
      BY <3>1 DEF Failed
    <3>2. CASE Succeeded(st, st') /\ QuorumFor(st)
      <4>1. st \in State /\ st.committee \in Committees /\ st.pool # Nil /\ HonestVotes(st)
        BY <1>1, <3>2 DEF IInv, TypeOK, State, RuntimeInv, QuorumFor, Scheduled
      <4>2. st'.root = st.pool.commitment[st.pool.highestRank].root
        BY <3>2 DEF Succeeded
      <4> QED BY <3>2, <4>1, <4>2, QuorumRootValid
    <3> QED BY <2>3, <3>1, <3>2 DEF Decided
  <2>4. ASSUME NEW b \in BOOLEAN, Waited(st, st', b) PROVE st'.root = st.root
    BY <2>4 DEF Waited
  <2> QED BY <1>1, <2>1, <2>2, <2>3, <2>4, StepCases
<1> QED BY <1>1, Invariance, PTL DEF Spec, RootValid

\* A discrepancy in a backup scheduler's proposal is declared at the timeout only.
THEOREM BackupSchedulersAlwaysWait == Spec => BackupSchedulersWait
<1>1. ASSUME IInv, [Next]_vars PROVE WaitStep
  <2> SUFFICES ASSUME Scheduled(st), Scheduled(st'), st'.round = st.round,
                      ~st.pool.discrepancy, st'.pool.discrepancy
               PROVE  st.pool.highestRank = 0 \/ st.nextTimeout = height
    BY DEF WaitStep
  <2>1. st.round \in Nat
    BY <1>1 DEF IInv, TypeOK, State
  <2>2. st'.pool # st.pool /\ ~GoodPool(st'.pool)
    BY DEF GoodPool
  <2>3. ~NewEpoch /\ ~Decided(st, st')
    BY <2>1 DEF NewEpoch, Decided, Ended
  <2>4. PICK b \in BOOLEAN : Waited(st, st', b) /\ (b => st.nextTimeout = height)
    BY <1>1, <2>2, <2>3, StepCases
  <2> QED BY <2>2, <2>4 DEF Waited
<1> QED BY <1>1, Invariance, PTL DEF Spec, BackupSchedulersWait

\* The proposal under dispute cannot be swapped while backup workers vote on it.
THEOREM ResolutionAlwaysStable == Spec => ResolutionStable
<1>1. ASSUME IInv, [Next]_vars PROVE StableStep
  <2> SUFFICES ASSUME Scheduled(st), st.pool.discrepancy, st'.round = st.round
               PROVE  /\ st'.pool.discrepancy /\ st'.pool.highestRank = st.pool.highestRank
                      /\ Resolves(st.pool, st'.pool)
    BY DEF StableStep, Resolves
  <2>1. st.round \in Nat
    BY <1>1 DEF IInv, TypeOK, State
  <2>2. CASE st'.pool = st.pool
    BY <2>2 DEF Resolves
  <2>3. CASE GoodPool(st'.pool)
    BY <2>3 DEF GoodPool
  <2>4. ~NewEpoch /\ ~Decided(st, st')
    BY <2>1 DEF NewEpoch, Decided, Ended
  <2>5. ASSUME NEW b \in BOOLEAN, Waited(st, st', b) PROVE st'.pool = st.pool
    BY <2>5 DEF Waited
  <2> QED BY <1>1, <2>2, <2>3, <2>4, <2>5, StepCases
<1> QED BY <1>1, Invariance, PTL DEF Spec, ResolutionStable

(* Every Normal block has its quorum, discrepancies wait for the primary     *)
(* scheduler, and disputed proposals stay as they are.                       *)
THEOREM FinalizationAlwaysSafe == Spec => SafeFinalization
BY ChainAlwaysGrows, AlwaysFinalizedByQuorum, BackupSchedulersAlwaysWait, ResolutionAlwaysStable, PTL
   DEF SafeFinalization, ChainGrows, FinalizedByQuorum, BackupSchedulersWait, ResolutionStable

\* Every opened round is decided in time by an EndBlock that cannot fail.
THEOREM AlwaysDecidedInTime == Spec => []DecidedInTime
BY TimerAlwaysArmed, EndBlockSafe, RoundsDecidedInTime, PTL DEF DecidedInTime

\* Incoming messages are consumed in order and never from under honest votes.
THEOREM MessagesAlwaysInOrder == Spec => []MessagesInOrder
BY QueueAlwaysConsistent, HonestVotesStayApplicable, PTL DEF MessagesInOrder

-----------------------------------------------------------------------------
(*                          Liveness statistics                            *)

\* Rounds charged in all.
ChargedRounds(x) == SumFunctionOnSet(Charged(x), Node)

\* y is x with one more round charged to a node, and nobody is counted as live
\* in more rounds than there were if that held of x.
OneCharged(x, y) ==
    /\ y \in Stats
    /\ ChargedRounds(y) = ChargedRounds(x) + 1
    /\ (\A n \in Node : x.live[n] <= x.total) => \A n \in Node : y.live[n] <= y.total

\* One more round in the account of a single node is one more in all.
LEMMA ChargedOnce ==
    ASSUME NEW x \in Stats, NEW y \in Stats, NEW n \in Node,
           Charged(y)[n] = Charged(x)[n] + 1, \A m \in Node \ {n} : Charged(y)[m] = Charged(x)[m]
    PROVE  ChargedRounds(y) = ChargedRounds(x) + 1
<1>1. \A m \in Node : Charged(x)[m] \in Int /\ Charged(y)[m] \in Int
  BY DEF Charged, Stats
<1>2. IsFiniteSet(Node)
  BY PoolAssumption
<1>3. ChargedRounds(y) = ChargedRounds(x) - Charged(x)[n] + Charged(y)[n]
  BY <1>1, <1>2, SumChange DEF ChargedRounds
<1>4. ChargedRounds(x) \in Int
  BY <1>1, <1>2, SumInt DEF ChargedRounds
<1> QED BY <1>1, <1>3, <1>4

\* A missed proposal is one more round for the node that should have made it.
LEMMA ChargeMissed ==
    ASSUME NEW x \in Stats, NEW n \in Node
    PROVE  LET y == [x EXCEPT !.missed[n] = @ + 1] IN
           y \in Stats /\ ChargedRounds(y) = ChargedRounds(x) + 1 /\ y.total = x.total /\ y.live = x.live
<1> DEFINE y == [x EXCEPT !.missed[n] = @ + 1]
<1>1. y \in Stats /\ y.total = x.total /\ y.live = x.live
  BY DEF Stats
<1>2. Charged(y)[n] = Charged(x)[n] + 1 /\ \A m \in Node \ {n} : Charged(y)[m] = Charged(x)[m]
  BY DEF Charged, Stats
<1> HIDE DEF y
<1>3. ChargedRounds(y) = ChargedRounds(x) + 1
  BY <1>1, <1>2, ChargedOnce
<1> QED BY <1>1, <1>3 DEF y

\* A finalized proposal is one more round for the node that made it.
LEMMA ChargeFinalized ==
    ASSUME NEW x \in Stats, NEW n \in Node
    PROVE  LET y == [x EXCEPT !.finalized[n] = @ + 1] IN
           y \in Stats /\ ChargedRounds(y) = ChargedRounds(x) + 1 /\ y.total = x.total /\ y.live = x.live
<1> DEFINE y == [x EXCEPT !.finalized[n] = @ + 1]
<1>1. y \in Stats /\ y.total = x.total /\ y.live = x.live
  BY DEF Stats
<1>2. Charged(y)[n] = Charged(x)[n] + 1 /\ \A m \in Node \ {n} : Charged(y)[m] = Charged(x)[m]
  BY DEF Charged, Stats
<1> HIDE DEF y
<1>3. ChargedRounds(y) = ChargedRounds(x) + 1
  BY <1>1, <1>2, ChargedOnce
<1> QED BY <1>1, <1>3 DEF y

\* A failed round is charged to its primary scheduler.
LEMMA FailRoundStats ==
    ASSUME NEW s \in State, s.stats \in Stats, s.committee \in Committees
    PROVE  OneCharged(s.stats, FailRound(s).stats)
<1> DEFINE n == PrimaryScheduler(s)
           x == s.stats
           y == [x EXCEPT !.missed[n] = @ + 1]
           u == [s EXCEPT !.stats.missed[n] = @ + 1]
<1>1. n \in Node
  BY SchedulerType, RootHashAssumption DEF PrimaryScheduler, State
<1>2. FailRound(s) = FinalizeBlock(u, "RoundFailed", s.root)
  BY DEF FailRound
<1>3. u = [s EXCEPT !.stats = y]
  OBVIOUS
<1>4. y \in Stats /\ ChargedRounds(y) = ChargedRounds(x) + 1 /\ y.total = x.total /\ y.live = x.live
  <2> HIDE DEF n, x
  <2>1. x \in Stats
    BY DEF x
  <2> QED BY <1>1, <2>1, ChargeMissed
<1>5. u \in State /\ u.stats = y
  <2> HIDE DEF y, u
  <2> QED BY <1>3, <1>4, SetStats
<1>6. FailRound(s).stats = y
  <2> DEFINE r == s.root
  <2>1. r \in Root /\ FailRound(s) = FinalizeBlock(u, "RoundFailed", r)
    BY <1>2 DEF State
  <2> HIDE DEF u, y, r
  <2>2. FinalizeBlock(u, "RoundFailed", r).stats = u.stats
    BY <1>5, <2>1, FinalizeBlockFields
  <2> QED BY <1>5, <2>1, <2>2
<1> HIDE DEF y
<1> QED BY <1>4, <1>6 DEF OneCharged, x

\* An accepted proposal is charged once, and counts as one more round.
LEMMA CountProposalStats ==
    ASSUME NEW s \in State, s.stats \in Stats, s.committee \in Committees
    PROVE  LET y == CountProposal(s).stats IN
           /\ y \in Stats /\ ChargedRounds(y) = ChargedRounds(s.stats) + 1
           /\ y.total = s.stats.total + 1 /\ y.live = s.stats.live
<1> DEFINE n == PrimaryScheduler(s)
           x == s.stats
           k == [x EXCEPT !.total = @ + 1]
           f == [k EXCEPT !.finalized[n] = @ + 1]
           m == [k EXCEPT !.missed[n] = @ + 1]
<1>1. n \in Node
  BY SchedulerType, RootHashAssumption DEF PrimaryScheduler, State
<1>2. CountProposal(s) = [s EXCEPT !.stats = f] \/ CountProposal(s) = [s EXCEPT !.stats = m]
  BY DEF CountProposal
<1> HIDE DEF n
<1>3. k \in Stats /\ k.total = x.total + 1 /\ k.live = x.live /\ k.missed = x.missed /\ k.finalized = x.finalized
  BY DEF Stats
<1> HIDE DEF k
<1>4. ChargedRounds(k) = ChargedRounds(x)
  <2>1. Charged(k) = Charged(x)
    BY <1>3 DEF Charged
  <2> QED BY <2>1 DEF ChargedRounds
<1>5. /\ f \in Stats /\ ChargedRounds(f) = ChargedRounds(k) + 1 /\ f.total = k.total /\ f.live = k.live
      /\ m \in Stats /\ ChargedRounds(m) = ChargedRounds(k) + 1 /\ m.total = k.total /\ m.live = k.live
  BY <1>1, <1>3, ChargeMissed, ChargeFinalized
<1> HIDE DEF f, m
<1>6. CountProposal(s).stats \in {f, m}
  BY <1>2, <1>5, SetStats
<1> HIDE DEF x
<1>7. \A y \in {f, m} : /\ y \in Stats /\ ChargedRounds(y) = ChargedRounds(x) + 1
                        /\ y.total = x.total + 1 /\ y.live = x.live
  BY <1>3, <1>4, <1>5
<1> QED BY <1>6, <1>7 DEF x

\* Each node is counted as live at most once in a round.
LEMMA CountLiveStats ==
    ASSUME NEW s \in State, s.stats \in Stats, NEW result
    PROVE  LET y == CountLiveNodes(s, result).stats IN
           /\ y \in Stats /\ ChargedRounds(y) = ChargedRounds(s.stats) /\ y.total = s.stats.total
           /\ \A n \in Node : y.live[n] <= s.stats.live[n] + 1
<1> DEFINE l == [n \in Node |->
                   IF IsMember(s.committee, n) /\ s.pool.votes[s.pool.highestRank][n] = result
                   THEN s.stats.live[n] + 1 ELSE s.stats.live[n]]
           x == s.stats
           y == [x EXCEPT !.live = l]
<1>1. l \in [Node -> Nat] /\ \A n \in Node : l[n] <= x.live[n] + 1
  BY DEF Stats
<1>2. CountLiveNodes(s, result) = [s EXCEPT !.stats = y]
  BY DEF CountLiveNodes
<1> HIDE DEF l
<1>3. y \in Stats /\ y.total = x.total /\ y.live = l /\ y.missed = x.missed /\ y.finalized = x.finalized
  BY <1>1 DEF Stats
<1> HIDE DEF y
<1>4. ChargedRounds(y) = ChargedRounds(x)
  <2>1. Charged(y) = Charged(x)
    BY <1>3 DEF Charged
  <2> QED BY <2>1 DEF ChargedRounds
<1>5. CountLiveNodes(s, result).stats = y
  BY <1>2, <1>3, SetStats
<1> QED BY <1>1, <1>3, <1>4, <1>5 DEF x

\* A round that ends is charged once; before feature version 26.1 one that fails
\* on its messages was charged twice.
LEMMA FinalizeRoundStats ==
    ASSUME NEW s \in State, s.stats \in Stats, s.committee \in Committees, Version261,
           s.pool.commitment[s.pool.highestRank] \in Result, s.queueSize = Len(s.queue)
    PROVE  OneCharged(s.stats, FinalizeRound(s).stats)
<1> DEFINE result == s.pool.commitment[s.pool.highestRank]
           msgs == FetchRuntimeMessages(s, result.inCount)
           n == Len(msgs)
           counted == CountProposal(s)
           removed == RemoveRuntimeMessages(counted, n)
           live == CountLiveNodes(removed, result)
           r == result.root
           t == FinalizeBlock(live, "Normal", r)
<1>1. CASE msgs # result.inHash
  <2>1. FinalizeRound(s) = FailRound(s)
    BY <1>1 DEF FinalizeRound
  <2> QED BY <2>1, FailRoundStats
<1>2. CASE msgs = result.inHash
  <2>1. FinalizeRound(s) = t
    BY <1>2 DEF FinalizeRound
  <2>2. result \in [root : Root, inCount : Nat, inHash : Seq(Nat)]
    BY RootHashAssumption
  <2>3. r \in Root /\ result.inCount \in Nat
    BY <2>2
  <2>4. n \in 0 .. Len(s.queue)
    <3>1. s.queue \in Seq(Nat) /\ Len(s.queue) \in Nat
      BY DEF State
    <3> QED BY <2>3, <3>1 DEF FetchRuntimeMessages
  <2>5. counted \in State /\ counted.stats \in Stats /\ SameButStats(s, counted)
    BY CountProposalFields
  <2>6. /\ ChargedRounds(counted.stats) = ChargedRounds(s.stats) + 1
        /\ counted.stats.total = s.stats.total + 1 /\ counted.stats.live = s.stats.live
    BY CountProposalStats
  <2> HIDE DEF n, counted, result, r
  <2>7. counted.queueSize = Len(counted.queue) /\ n <= Len(counted.queue) /\ n \in Nat
    <3>1. Len(s.queue) \in Nat
      BY DEF State
    <3> QED BY <2>4, <2>5, <3>1 DEF SameButStats
  <2>8. removed \in State /\ removed.stats = counted.stats
    BY <2>5, <2>7, RemoveFields
  <2> HIDE DEF removed
  <2>9. live \in State
    BY <2>5, <2>8, CountLiveFields
  <2>10. /\ live.stats \in Stats /\ ChargedRounds(live.stats) = ChargedRounds(removed.stats)
         /\ live.stats.total = removed.stats.total
         /\ \A m \in Node : live.stats.live[m] <= removed.stats.live[m] + 1
    BY <2>5, <2>8, CountLiveStats
  <2> HIDE DEF live
  <2>11. t.stats = live.stats
    BY <2>3, <2>9, FinalizeBlockFields
  <2>12. \A m \in Node : s.stats.live[m] \in Nat /\ live.stats.live[m] \in Nat /\ s.stats.total \in Nat
    BY <2>10 DEF Stats
  <2> QED BY <2>1, <2>6, <2>8, <2>10, <2>11, <2>12 DEF OneCharged
<1> QED BY <1>1, <1>2

\* The statistics account for the rounds since round e, when the epoch of the
\* committee began.
Accounted(s, e) ==
    /\ s.stats = Nil => s.round = e
    /\ s.stats # Nil => /\ ChargedRounds(s.stats) = s.round - e
                        /\ \A n \in Node : s.stats.live[n] <= s.stats.total

\* New statistics have no rounds.
LEMMA NewStatistics ==
    /\ NewLivenessStatistics \in Stats /\ ChargedRounds(NewLivenessStatistics) = 0
    /\ \A n \in Node : NewLivenessStatistics.live[n] <= NewLivenessStatistics.total
<1> DEFINE x == NewLivenessStatistics
<1>1. x \in Stats /\ \A n \in Node : x.live[n] <= x.total
  BY DEF NewLivenessStatistics, Stats
<1>2. \A n \in Node : Charged(x)[n] = IF n \in {} THEN 0 ELSE 0
  BY DEF NewLivenessStatistics, Charged
<1>3. IsFiniteSet(Node) /\ {} \in SUBSET Node /\ 0 \in Int
  BY PoolAssumption
<1>4. ChargedRounds(x) = 0 * Cardinality({})
  <2> HIDE DEF x
  <2> QED BY <1>2, <1>3, SumEach DEF ChargedRounds
<1> QED BY <1>1, <1>4, FS_EmptySet

\* A round that ends keeps the account.
LEMMA ChargedAccounted ==
    ASSUME NEW s \in State, NEW t \in State, NEW e \in Nat, s.stats \in Stats,
           Accounted(s, e), OneCharged(s.stats, t.stats), t.round = s.round + 1
    PROVE  Accounted(t, e)
<1>1. s.stats # Nil /\ t.stats # Nil
  BY RootHashAssumption DEF OneCharged
<1>2. s.round \in Nat
  BY DEF State
<1> QED BY <1>1, <1>2 DEF Accounted, OneCharged

\* tryFinalizeRound keeps the account, whatever its verdict.
LEMMA TryFinalizeRoundStats ==
    ASSUME NEW s \in State, RuntimeInv(s), Runnable(s), NEW timeout \in BOOLEAN, height \in Nat,
           Version261, NEW e \in Nat, Accounted(s, e)
    PROVE  Accounted(TryFinalizeRound(s, timeout), e)
<1> DEFINE c == s.committee
           p == s.pool
           t == TryFinalizeRound(s, timeout)
           z == IF s.stats = Nil THEN NewLivenessStatistics ELSE s.stats
           s0 == [s EXCEPT !.stats = z]
           first == Verdict(p, c, timeout)
<1>1. c \in Committees /\ IsCommittee(c) /\ p \in Pool /\ PoolInv(p, c, s.round + 1) /\ p # Nil
  BY RootHashAssumption DEF Runnable, State, RuntimeInv, Structure
<1>2. z \in Stats /\ z # Nil
  BY NewStatistics, RootHashAssumption DEF State
<1>3. s0 \in State /\ s0.stats = z /\ SameButStats(s, s0)
  <2> HIDE DEF z
  <2> QED BY <1>2, SetStats
<1>4. Accounted(s0, e)
  <2>1. s0.round = s.round /\ s.round \in Nat
    BY <1>3 DEF SameButStats, State
  <2> HIDE DEF s0
  <2> QED BY <1>2, <1>3, <2>1, NewStatistics DEF Accounted
<1>5. s.queueSize = Len(s.queue)
  BY DEF RuntimeInv, Queue
<1>6. ASSUME NEW x \in State, Accounted(x, e), x.stats \in Stats, x.round = s.round, x.committee = c,
             x.queue = s.queue, x.queueSize = s.queueSize, x.pool \in Pool,
             PoolInv(x.pool, c, s.round + 1), NEW b \in BOOLEAN
      PROVE  /\ Accounted(FailRound(x), e)
             /\ Verdict(x.pool, c, b) = "Finalized" => Accounted(FinalizeRound(x), e)
  <2>1. Accounted(FailRound(x), e)
    <3>1. OneCharged(x.stats, FailRound(x).stats)
      BY <1>1, <1>6, FailRoundStats
    <3>2. FailRound(x) \in State /\ FailRound(x).round = x.round + 1
      BY <1>1, <1>6, FailRoundFields
    <3> QED BY <1>6, <3>1, <3>2, ChargedAccounted
  <2>2. ASSUME Verdict(x.pool, c, b) = "Finalized" PROVE Accounted(FinalizeRound(x), e)
    <3>1. x.pool.commitment[x.pool.highestRank] \in Result
      <4> DEFINE q == x.pool
      <4>1. q \in Pool /\ PoolInv(q, c, s.round + 1) /\ q.discrepancy \in BOOLEAN
        BY <1>6, PoolFields
      <4> HIDE DEF q
      <4> QED BY <1>1, <1>6, <2>2, <4>1, FinalizedQuorum DEF q
    <3>2. OneCharged(x.stats, FinalizeRound(x).stats)
      BY <1>1, <1>5, <1>6, <3>1, FinalizeRoundStats
    <3>3. FinalizeRound(x) \in State /\ FinalizeRound(x).round = x.round + 1
      BY <1>1, <1>5, <1>6, <3>1, FinalizeRoundEnds DEF Ended
    <3> QED BY <1>6, <3>2, <3>3, ChargedAccounted
  <2> QED BY <2>1, <2>2
<1>7. CASE first # "DiscrepancyDetected"
  <2>1. /\ first = "StillWaiting" => t = s0
        /\ first = "Finalized" => t = FinalizeRound(s0)
        /\ first # "StillWaiting" /\ first # "Finalized" => t = FailRound(s0)
    BY <1>7 DEF TryFinalizeRound
  <2>2. /\ s0 \in State /\ Accounted(s0, e) /\ s0.stats \in Stats /\ s0.round = s.round /\ s0.committee = c
        /\ s0.queue = s.queue /\ s0.queueSize = s.queueSize /\ s0.pool = p
    BY <1>2, <1>3, <1>4 DEF SameButStats
  <2> HIDE DEF s0, t
  <2>3. Accounted(FailRound(s0), e) /\ (first = "Finalized" => Accounted(FinalizeRound(s0), e))
    BY <1>1, <1>6, <2>2
  <2> QED BY <2>1, <2>2, <2>3 DEF t
<1>8. CASE first = "DiscrepancyDetected"
  <2> DEFINE q == StartResolution(p)
             u == [s0 EXCEPT !.pool = q]
             next == height + BackupTimeout
             s1 == RearmRoundTimeout(u, next)
             b == s1.nextTimeout = height
             final == Verdict(s1.pool, c, b)
  <2>1. HasSchedulerCommitment(p) /\ ~p.discrepancy
    BY <1>1, <1>8, VerdictCases
  <2>2. q \in Pool /\ PoolInv(q, c, s.round + 1)
    BY <1>1, <2>1, StartResolutionOK
  <2>3. /\ final = "StillWaiting" => t = s1
        /\ final = "Finalized" => t = FinalizeRound(s1)
        /\ final # "StillWaiting" /\ final # "Finalized" => t = FailRound(s1)
    BY <1>8 DEF TryFinalizeRound, ProcessCommitments
  <2> HIDE DEF q, s0, t, z
  <2>4. /\ u \in State /\ u.pool = q /\ u.stats = z /\ u.committee = s.committee
        /\ u.round = s.round /\ u.queue = s.queue /\ u.queueSize = s.queueSize
    BY <1>3, <2>2 DEF State, SameButStats
  <2> HIDE DEF u
  <2>5. next \in Nat
    BY TimeoutPositive
  <2> HIDE DEF next
  <2>6. /\ s1 \in State /\ s1.pool = q /\ s1.stats = z /\ s1.committee = s.committee
        /\ s1.round = s.round /\ s1.queue = s.queue /\ s1.queueSize = s.queueSize
    BY <2>4, <2>5, RearmFields
  <2> HIDE DEF s1
  <2>7. Accounted(s1, e)
    BY <1>3, <1>4, <2>6 DEF Accounted, SameButStats
  <2>8. b \in BOOLEAN
    OBVIOUS
  <2> HIDE DEF b
  <2>9. Accounted(FailRound(s1), e) /\ (final = "Finalized" => Accounted(FinalizeRound(s1), e))
    BY <1>2, <1>6, <2>2, <2>6, <2>7, <2>8
  <2> QED BY <2>3, <2>7, <2>9 DEF t
<1> QED BY <1>7, <1>8

\* The account is right: the epoch of the committee began in the round that
\* CommitteeChanged has recorded.
StatsInv == Accounted(st, ghost.epochRound)

\* The end of a block keeps the account.
LEMMA EndBlockStats ==
    ASSUME IInv, StatsInv, EndBlock, Version261
    PROVE  StatsInv'
<1> DEFINE u == TryFinalizeRounds(st)
           e == ghost.epochRound
<1>1. phase = "deliver" /\ st' = ProcessRoundTimeouts(u) /\ ghost'.epochRound = e
  BY DEF EndBlock, IInv, TypeOK
<1>2. st \in State /\ RuntimeInv(st) /\ height \in Nat /\ nextSeq \in Nat /\ pending \in BOOLEAN /\ e \in Nat
  BY DEF IInv, TypeOK
<1>3. pending => Runnable(st)
  BY <1>1 DEF IInv
<1>4. Accounted(st, e)
  BY DEF StatsInv
<1> HIDE DEF e
<1>5. /\ u \in State /\ RuntimeInv(u) /\ Accounted(u, e)
  <2>1. CASE ~pending
    BY <1>2, <1>4, <2>1 DEF TryFinalizeRounds
  <2>2. CASE pending
    <3>1. u = TryFinalizeRound(st, FALSE)
      BY <1>3, <2>2 DEF TryFinalizeRounds, TryFinalize
    <3>2. FALSE \in BOOLEAN
      OBVIOUS
    <3>3. Waited(st, u, FALSE) \/ Decided(st, u)
      BY <1>2, <1>3, <2>2, <3>1, <3>2, TryFinalizeRoundCases
    <3>4. Accounted(u, e)
      BY <1>2, <1>3, <1>4, <2>2, <3>1, <3>2, TryFinalizeRoundStats
    <3> HIDE DEF u
    <3>5. u \in State /\ RuntimeInv(u)
      BY <1>2, <1>3, <2>2, <3>2, <3>3, WaitedInv, DecidedInv
    <3> QED BY <3>4, <3>5
  <2> QED BY <1>2, <2>1, <2>2
<1> HIDE DEF u
<1>6. CASE ~u.failed /\ height \in u.timeouts
  <2>1. Runnable(u)
    BY <1>5, <1>6 DEF RuntimeInv, Timer, Structure, Scheduled, Runnable
  <2>2. st' = TryFinalizeRound(u, TRUE)
    BY <1>1, <1>6, <2>1 DEF ProcessRoundTimeouts, TryFinalize
  <2>3. TRUE \in BOOLEAN
    OBVIOUS
  <2>4. Accounted(st', e)
    BY <1>2, <1>5, <2>1, <2>2, <2>3, TryFinalizeRoundStats
  <2> QED BY <1>1, <2>4 DEF StatsInv, Accounted, ChargedRounds, Charged
<1>7. CASE ~(~u.failed /\ height \in u.timeouts)
  <2>1. st' = u
    BY <1>1, <1>7 DEF ProcessRoundTimeouts
  <2> QED BY <1>1, <1>5, <2>1 DEF StatsInv, Accounted, ChargedRounds, Charged
<1> QED BY <1>6, <1>7

\* Every step keeps the account.
LEMMA NextStats ==
    ASSUME IInv, StatsInv, [Next]_vars, Version261
    PROVE  StatsInv'
<1>1. ASSUME st'.stats = st.stats, st'.round = st.round, ghost'.epochRound = ghost.epochRound
      PROVE  StatsInv'
  BY <1>1 DEF StatsInv, Accounted, ChargedRounds, Charged
<1>2. st \in State /\ ghost \in [epochRound : Nat, firstCommit : Nat]
  BY DEF IInv, TypeOK
<1>3. ASSUME NEW pool, GoodPool(pool), StoreCommitments(pool), Runnable(st) PROVE StatsInv'
  <2> DEFINE s == [st EXCEPT !.pool = pool]
  <2>1. pool \in Pool
    BY <1>3 DEF GoodPool
  <2>2. s \in State /\ s.stats = st.stats /\ s.round = st.round
    BY <1>2, <2>1 DEF State
  <2>3. height + RoundTimeout \in Nat
    BY TimeoutPositive DEF IInv, TypeOK
  <2>4. /\ st' = s \/ st' = RearmRoundTimeout(s, height + RoundTimeout)
        /\ ghost'.epochRound = ghost.epochRound
    BY <1>2, <1>3 DEF StoreCommitments
  <2> HIDE DEF s
  <2>5. st'.stats = st.stats /\ st'.round = st.round
    BY <2>2, <2>3, <2>4, RearmFields
  <2> QED BY <1>1, <2>4, <2>5
<1>4. CASE BeginBlockNoChange \/ ResumeRuntime \/ UNCHANGED vars
  <2>1. st' = st /\ ghost' = ghost
    BY <1>4 DEF BeginBlockNoChange, ResumeRuntime, vars
  <2> QED BY <1>1, <2>1
<1>5. ASSUME NEW committee \in Committees \cup {Nil}, NEW sufficientStake \in BOOLEAN,
             CommitteeChanged(committee, sufficientStake)
      PROVE  StatsInv'
  <2> DEFINE suspend == committee = Nil \/ ~sufficientStake
             kind == IF suspend THEN "Suspended" ELSE "EpochTransition"
             r == st.root
             block == FinalizeBlock(st, kind, r)
             com == IF suspend THEN Nil ELSE committee
  <2>1. /\ st' = [block EXCEPT !.suspended = suspend, !.committee = com, !.stats = Nil]
        /\ ghost'.epochRound = st.round + 1
    BY <1>5 DEF CommitteeChanged
  <2>2. r \in Root /\ kind \in {"Normal", "RoundFailed", "EpochTransition", "Suspended"}
    BY <1>2 DEF State
  <2> HIDE DEF kind, r, com, suspend
  <2>3. block \in State /\ block.round = st.round + 1
    <3> DEFINE s == st
    <3>1. s \in State
      BY <1>2
    <3>2. kind \in {"EpochTransition", "Suspended"}
      BY DEF kind
    <3> HIDE DEF s
    <3>3. /\ FinalizeBlock(s, "Suspended", r) \in State
          /\ FinalizeBlock(s, "Suspended", r).round = s.round + 1
      BY <2>2, <3>1, FinalizeBlockFields
    <3>4. /\ FinalizeBlock(s, "EpochTransition", r) \in State
          /\ FinalizeBlock(s, "EpochTransition", r).round = s.round + 1
      BY <2>2, <3>1, FinalizeBlockFields
    <3> QED BY <3>2, <3>3, <3>4 DEF s
  <2> HIDE DEF block
  <2>4. st'.stats = Nil /\ st'.round = st.round + 1
    BY <2>1, <2>3 DEF State
  <2> QED BY <2>1, <2>4 DEF StatsInv, Accounted
<1>6. ASSUME NEW ec \in Commitments, ExecutorCommit(ec) PROVE StatsInv'
  <2>1. /\ Runnable(st) /\ Signable(ec) /\ Acceptable(st.pool, ec)
        /\ StoreCommitments(AddVerifiedExecutorCommitment(st.pool, st.committee, ec))
    BY <1>6 DEF ExecutorCommit
  <2>2. GoodPool(AddVerifiedExecutorCommitment(st.pool, st.committee, ec))
    BY <2>1, StoredPoolGood, GoodPoolStep
  <2> QED BY <1>3, <2>1, <2>2
<1>7. ASSUME NEW ec1 \in Commitments, ExecutorCommitTwo(ec1) PROVE StatsInv'
  <2> DEFINE p == AddVerifiedExecutorCommitment(st.pool, st.committee, ec1)
  <2>1. PICK ec2 \in Commitments :
           /\ Runnable(st) /\ Signable(ec1) /\ Acceptable(st.pool, ec1)
           /\ Signable(ec2) /\ Acceptable(p, ec2)
           /\ StoreCommitments(AddVerifiedExecutorCommitment(p, st.committee, ec2))
    BY <1>7 DEF ExecutorCommitTwo
  <2>2. GoodPool(p)
    BY <2>1, StoredPoolGood, GoodPoolStep
  <2>3. GoodPool(AddVerifiedExecutorCommitment(p, st.committee, ec2))
    <3> HIDE DEF p
    <3> QED BY <2>1, <2>2, GoodPoolStep
  <2> HIDE DEF p
  <2> QED BY <1>3, <2>1, <2>3
<1>8. CASE SubmitMsg
  <2>1. st'.stats = st.stats /\ st'.round = st.round /\ ghost' = ghost
    BY <1>2, <1>8 DEF SubmitMsg, State
  <2> QED BY <1>1, <2>1
<1>9. CASE EndBlock
  BY <1>9, EndBlockStats
<1> QED BY <1>4, <1>5, <1>6, <1>7, <1>8, <1>9 DEF Next

(* Since feature version 26.1 every round of the committee's epoch is         *)
(* charged to exactly one primary scheduler, and nobody is counted as live    *)
(* in more rounds than there were.                                            *)
THEOREM StatsAlwaysBalanced ==
    ASSUME Version261
    PROVE  Spec => []StatsBalanced
<1>1. Init => StatsInv
  BY DEF Init, StatsInv, Accounted
<1>2. IInv /\ StatsInv /\ [Next]_vars => StatsInv'
  BY NextStats
<1>3. StatsInv => StatsBalanced
  BY DEF StatsInv, Accounted, StatsBalanced, ChargedRounds
<1> QED BY <1>1, <1>2, <1>3, Invariance, PTL DEF Spec
=============================================================================

--------------------------- MODULE Executor_proofs ---------------------------
(***************************************************************************)
(* The executor worker, for every role of the node, number of schedulers,    *)
(* shape of batches, size of the queue, and number of rounds and faults.     *)
(***************************************************************************)
EXTENDS Executor, FiniteSetTheorems, SequenceTheorems, WellFoundedInduction, TLAPS

Names   == {"WaitingForBatch", "WaitingForTxs", "WaitingForEvent", "ProcessingBatch", "Panicked"}
Modes   == {"none", "execute", "schedule"}
Kinds   == {"none", "failed", "computed"}
States  == [name : Names, proposal : Proposals \cup {NoProposal}, bytes : Int, missing : Int, mode : Modes]
Jobs    == [mode : Modes, proposal : Proposals \cup {NoProposal}]
Results == [kind : Kinds, proposal : Proposals]
Entries == [round : 1..MaxRound, rank : Ranks, shape : Shapes, invalid : BOOLEAN]
Works   == [state : States, job : Jobs, processed : Seq(Results), proposals : SUBSET Entries]

\* What ties the state of the worker, the goroutine and the channel together: a
\* batch that is processed is of this round and of a rank that has no commitment
\* yet, and exactly one of the goroutine and the channel holds it, unless signing
\* has failed.
Healthy(w) ==
    /\ w \in Works
    /\ w.state.name # "Panicked"
    /\ w.state.name = "WaitingForBatch" <=> w.state = WaitingForBatch
    /\ w.state.name # "WaitingForBatch" =>
           w.state.proposal \in Proposals /\ w.state.proposal.round = round /\ w.state.proposal.rank \notin submitted
    /\ w.job # NoJob =>
           /\ w.processed = <<>> /\ w.state.name = "ProcessingBatch"
           /\ w.state.proposal = w.job.proposal /\ w.state.mode = w.job.mode
           /\ w.job.mode \in {"execute", "schedule"}
    /\ w.processed # <<>> =>
           /\ w.state.name = "ProcessingBatch"
           /\ \E k \in Kinds : /\ w.processed = <<Result(k, w.state.proposal)>>
                               /\ k = "computed" => w.state.proposal.shape.good
    /\ w.state.name = "ProcessingBatch" => w.job # NoJob \/ w.processed # <<>> \/ signFailed
    /\ w.state.mode = "schedule" => w.state.proposal.rank = Rank /\ w.state.proposal.shape.good

\* The queue is bounded and has one proposal for each scheduler of a round.
Queue(q) ==
    /\ q \in SUBSET Entries /\ IsFiniteSet(q) /\ Cardinality(q) <= MaxPendingProposals
    /\ \A e, f \in q : e.round = f.round /\ e.rank = f.rank => e = f

\* Whoever is at work without a discrepancy is so in its turn.
Turn(w) ==
    w.job # NoJob => Worker /\ w.job.proposal.rank <= schedulerRank /\ w.job.proposal.rank <= Rank

\* The rest of the state.
Rounds ==
    /\ round \in 0..MaxRound /\ next \in 0..MaxRound /\ pruned \in 0..MaxRound
    /\ pc \in {"top", "select", "skipped"} /\ (pc # "skipped" => round # 0)
    /\ schedulerRank \in 0..Schedulers /\ poolRank \in Ranks \cup {NoRank}
    /\ discrepancy \in {NoDiscrepancy} \cup [rank : Ranks, authoritative : BOOLEAN]
    /\ submitted \subseteq Ranks /\ faults \in 0..MaxFaults
    /\ signFailed \in BOOLEAN /\ reselect \in BOOLEAN
    /\ pc = "skipped" => state = WaitingForBatch

\* The ranks that have a commitment, and what follows a published proposal.
Votes ==
    /\ signed \in Seq([proposal : Proposals, ok : BOOLEAN])
    /\ submitted = {signed[i].proposal.rank : i \in DOMAIN signed}
    /\ published \in Nat /\ (published >= 1 => Rank \in submitted \/ signFailed)
    /\ VotesOnce

IInv ==
    /\ Rounds /\ Votes /\ Healthy(Current) /\ Queue(proposals)
    /\ discrepancy = NoDiscrepancy => Turn(Current)
    /\ InTurn /\ BestFirst

-----------------------------------------------------------------------------
(***************************************************************************)
(* Numbers and ranks.                                                        *)
(***************************************************************************)
LEMMA Smallest ==
    ASSUME NEW S \in SUBSET Nat, NEW m \in S
    PROVE  \E v \in S : \A w \in S : v <= w
<1>1. PICK x \in S : \A y \in S : <<y, x>> \notin OpToRel(<, Nat)
  BY NatLessThanWellFounded, WFMin
<1>2. \A y \in S : x <= y
  <2> SUFFICES ASSUME NEW y \in S, ~(x <= y) PROVE FALSE
    OBVIOUS
  <2>1. y \in Nat /\ x \in Nat
    OBVIOUS
  <2>2. <<y, x>> \in Nat \X Nat /\ <<y, x>>[1] < <<y, x>>[2]
    BY <2>1
  <2>3. <<y, x>> \in OpToRel(<, Nat)
    BY <2>2, Zenon DEF OpToRel
  <2> QED
    BY <1>1, <2>3
<1> QED
  BY <1>2

LEMMA MinProperty ==
    ASSUME NEW S \in SUBSET Nat, S # {}
    PROVE  Min(S) \in S /\ \A y \in S : Min(S) <= y
<1>1. \E v \in S : \A w \in S : v <= w
  BY Smallest
<1> QED
  BY <1>1 DEF Min

LEMMA RankTyped ==
    ASSUME Rounds
    PROVE  /\ Rank \in Ranks \cup {NoRank} /\ (Worker => Rank \in Ranks)
           /\ Ranks \subseteq Nat /\ NoRank \in Nat /\ NoRank \notin Ranks
           /\ \A r \in Ranks : r < NoRank
<1> USE ExecutorAssumed DEF ExecutorAssumption
<1>1. Schedulers \in Nat \ {0} /\ Position \in Nat
  BY DEF Ranks
<1>2. /\ Ranks \subseteq Nat /\ NoRank \in Nat /\ NoRank \notin Ranks
      /\ \A r \in Ranks : r < NoRank
  BY <1>1 DEF Ranks, NoRank
<1>3. round \in Nat
  BY DEF Rounds
<1>4. (round + Position) % Schedulers \in Ranks
  BY <1>1, <1>3 DEF Ranks
<1> QED
  BY <1>2, <1>4 DEF Rank, SchedulerRank

LEMMA LimitTyped ==
    ASSUME Rounds
    PROVE  Limit \in Nat /\ Limit <= schedulerRank /\ Limit <= poolRank /\ Limit <= Rank
<1>1. {schedulerRank, poolRank, Rank} \in SUBSET Nat
  BY RankTyped DEF Rounds
<1>2. {schedulerRank, poolRank, Rank} # {}
  OBVIOUS
<1> QED
  BY <1>1, <1>2, MinProperty DEF Limit
-----------------------------------------------------------------------------
(***************************************************************************)
(* The queue.                                                                *)
(***************************************************************************)

\* What can be taken up from r can be taken up from q.
Shrinks(r, q) == \A e \in r : ~e.invalid => e \in q

LEMMA RejectQueue ==
    ASSUME NEW q, Queue(q), NEW p
    PROVE  Queue(Reject(q, p)) /\ Shrinks(Reject(q, p), q)
<1>1. CASE Get(q, p) = {}
  <2>1. Reject(q, p) = q
    BY <1>1 DEF Reject
  <2> QED
    BY <2>1 DEF Shrinks
<1>2. CASE Get(q, p) # {}
  <2>1. PICK e \in q : e.round = p.round /\ e.rank = p.rank
    BY <1>2 DEF Get
  <2>2. Get(q, p) = {e}
    BY <2>1 DEF Get, Queue
  <2> DEFINE f == [e EXCEPT !.invalid = TRUE]
  <2>3. e \in Entries
    BY <2>1 DEF Queue
  <2>4. f \in Entries /\ f.round = e.round /\ f.rank = e.rank /\ f.invalid
    BY <2>3 DEF Entries
  <2>5. Reject(q, p) = (q \ {e}) \cup {f}
    BY <2>2 DEF Reject
  <2> HIDE DEF f
  <2>6. IsFiniteSet(q \ {e}) /\ Cardinality(q \ {e}) = Cardinality(q) - 1
    BY <2>1, FS_RemoveElement DEF Queue
  <2>7. /\ IsFiniteSet((q \ {e}) \cup {f})
        /\ Cardinality((q \ {e}) \cup {f}) =
              IF f \in q \ {e} THEN Cardinality(q \ {e}) ELSE Cardinality(q \ {e}) + 1
    BY <2>6, FS_AddElement
  <2>8. Cardinality(q) \in Nat
    BY FS_CardinalityType DEF Queue
  <2>9. Cardinality((q \ {e}) \cup {f}) <= MaxPendingProposals
    <3>1. MaxPendingProposals \in Nat /\ Cardinality(q) <= MaxPendingProposals
      BY ExecutorAssumed DEF ExecutorAssumption, Queue
    <3> QED
      BY <2>6, <2>7, <2>8, <3>1
  <2>10. \A x, y \in (q \ {e}) \cup {f} : x.round = y.round /\ x.rank = y.rank => x = y
    BY <2>1, <2>4 DEF Queue
  <2>11. (q \ {e}) \cup {f} \in SUBSET Entries
    BY <2>4 DEF Queue
  <2>12. Shrinks((q \ {e}) \cup {f}, q)
    BY <2>4 DEF Shrinks
  <2> QED
    BY <2>5, <2>7, <2>9, <2>10, <2>11, <2>12 DEF Queue
<1> QED
  BY <1>1, <1>2

\* Among different proposals one is the furthest in the future.
LEMMA LastExists ==
    ASSUME NEW A \in SUBSET Entries, A # {},
           \A e, f \in A : e.round = f.round /\ e.rank = f.rank => e = f
    PROVE  \E e \in A : \A f \in A \ {e} : Before(f, e)
<1>1. \A e \in A : e.round \in 1..MaxRound /\ e.rank \in 0..Schedulers - 1
  BY DEF Entries, Ranks
<1>2. MaxRound \in Nat /\ Schedulers \in Nat
  BY ExecutorAssumed DEF ExecutorAssumption
<1> DEFINE S == {MaxRound - e.round : e \in A}
<1>3. S \in SUBSET Nat /\ S # {}
  BY <1>1, <1>2
<1>4. PICK v \in S : \A w \in S : v <= w
  <2> HIDE DEF S
  <2> QED
    BY <1>3, Smallest
<1>5. PICK e1 \in A : v = MaxRound - e1.round
  BY <1>4
<1>6. \A e \in A : e.round <= e1.round
  <2> TAKE e \in A
  <2>1. MaxRound - e1.round <= MaxRound - e.round
    BY <1>4, <1>5
  <2>2. e.round \in Int /\ e1.round \in Int
    BY <1>1
  <2> QED
    BY <1>2, <2>1, <2>2
<1> DEFINE B == {e \in A : e.round = e1.round}
           T == {Schedulers - e.rank : e \in B}
<1>7. T \in SUBSET Nat /\ T # {}
  BY <1>1, <1>2
<1>8. PICK u \in T : \A w \in T : u <= w
  <2> HIDE DEF T
  <2> QED
    BY <1>7, Smallest
<1>9. PICK e2 \in B : u = Schedulers - e2.rank
  BY <1>8
<1>10. \A e \in B : e.rank <= e2.rank
  <2> TAKE e \in B
  <2>1. Schedulers - e2.rank <= Schedulers - e.rank
    BY <1>8, <1>9
  <2>2. e.rank \in Int /\ e2.rank \in Int
    BY <1>1, <1>9
  <2> QED
    BY <1>2, <2>1, <2>2
<1>11. \A f \in A \ {e2} : Before(f, e2)
  <2> TAKE f \in A \ {e2}
  <2>1. e2 \in A /\ e2.round = e1.round /\ f.round <= e2.round
    BY <1>6, <1>9
  <2>2. f.round = e2.round => f.rank <= e2.rank /\ f.rank # e2.rank
    BY <1>10, <2>1
  <2>3. f.round \in Int /\ e2.round \in Int /\ f.rank \in Int /\ e2.rank \in Int
    BY <1>1, <2>1
  <2> QED
    BY <2>1, <2>2, <2>3 DEF Before
<1> QED
  BY <1>9, <1>11

LEMMA AddQueue ==
    ASSUME NEW q, Queue(q), NEW p \in [round : 1..MaxRound, rank : Ranks, shape : Shapes], Get(q, p) = {}
    PROVE  /\ Queue(Add(q, p))
           /\ \A e \in Add(q, p) : e \in q \/ Get(Add(q, p), p) # {}
<1> DEFINE n == [round |-> p.round, rank |-> p.rank, shape |-> p.shape, invalid |-> FALSE]
           all == q \cup {n}
           last == CHOOSE e \in all : \A f \in all \ {e} : Before(f, e)
<1>1. n \in Entries /\ n.round = p.round /\ n.rank = p.rank
  BY DEF Entries
<1> HIDE DEF n
<1>2. \A e \in q : ~(e.round = p.round /\ e.rank = p.rank)
  BY DEF Get
<1>3. n \notin q
  BY <1>1, <1>2
<1>4. all \in SUBSET Entries /\ \A e, f \in all : e.round = f.round /\ e.rank = f.rank => e = f
  BY <1>1, <1>2 DEF Queue
<1>5. IsFiniteSet(all) /\ Cardinality(all) = Cardinality(q) + 1
  BY <1>3, FS_AddElement DEF Queue
<1>6. Cardinality(q) \in Nat /\ MaxPendingProposals \in Nat /\ Cardinality(q) <= MaxPendingProposals
  BY FS_CardinalityType, ExecutorAssumed DEF ExecutorAssumption, Queue
<1>7. Add(q, p) = IF Cardinality(all) <= MaxPendingProposals THEN all ELSE all \ {last}
  BY DEF Add, n
<1>8. last \in all
  <2>1. \E e \in all : \A f \in all \ {e} : Before(f, e)
    <3> HIDE DEF all
    <3>1. all # {}
      BY DEF all
    <3> QED
      BY <1>4, <3>1, LastExists
  <2> QED
    BY <2>1
<1> HIDE DEF last
<1>9. Queue(Add(q, p))
  <2>1. CASE Cardinality(all) <= MaxPendingProposals
    <3> HIDE DEF all
    <3> QED
      BY <1>4, <1>5, <1>7, <2>1 DEF Queue
  <2>2. CASE ~(Cardinality(all) <= MaxPendingProposals)
    <3> HIDE DEF all
    <3>1. IsFiniteSet(all \ {last}) /\ Cardinality(all \ {last}) = Cardinality(all) - 1
      BY <1>5, <1>8, FS_RemoveElement
    <3>2. Cardinality(all \ {last}) <= MaxPendingProposals
      BY <1>5, <1>6, <3>1
    <3> QED
      BY <1>4, <1>7, <2>2, <3>1, <3>2 DEF Queue
  <2> QED
    BY <2>1, <2>2
<1>10. \A e \in Add(q, p) : e \in q \/ Get(Add(q, p), p) # {}
  <2> TAKE e \in Add(q, p)
  <2>1. e \in all
    BY <1>7
  <2>2. e = n => e \in Get(Add(q, p), p)
    BY <1>1 DEF Get
  <2> QED
    BY <2>1, <2>2
<1> QED
  BY <1>9, <1>10

\* The best candidate, if there is one.
LEMMA BestProperty ==
    ASSUME NEW q, Queue(q), NEW lo, NEW hi, Rounds
    PROVE  LET b == Best(q, lo, hi) IN
           /\ b = NoProposal => Eligible(q, lo, hi) = {}
           /\ b # NoProposal =>
                  /\ b \in Proposals /\ b.round = round /\ b.rank \in lo..hi /\ b.rank \notin submitted
                  /\ b.rank \in Ranks
                  /\ \A e \in Eligible(q, lo, hi) : b.rank <= e.rank
<1> DEFINE E == Eligible(q, lo, hi)
           b == CHOOSE e \in E : \A f \in E : e.rank <= f.rank
           r == [round |-> b.round, rank |-> b.rank, shape |-> b.shape]
<1>1. Best(q, lo, hi) = IF E = {} THEN NoProposal ELSE r
  BY DEF Best
<1>2. ASSUME E # {}
      PROVE  b \in E /\ \A f \in E : b.rank <= f.rank
  <2>1. E \subseteq Entries /\ Ranks \subseteq Nat
    BY RankTyped DEF Eligible, Queue
  <2> DEFINE S == {e.rank : e \in E}
  <2> HIDE DEF E
  <2>2. S \in SUBSET Nat /\ S # {}
    BY <1>2, <2>1 DEF Entries
  <2>3. PICK v \in S : \A w \in S : v <= w
    <3> HIDE DEF S
    <3> QED
      BY <2>2, Smallest
  <2>4. \E e \in E : \A f \in E : e.rank <= f.rank
    BY <2>3
  <2> QED
    BY <2>4
<1>3. ASSUME E # {}
      PROVE  /\ r \in Proposals /\ r.round = round /\ r.rank \in lo..hi /\ r.rank \notin submitted
             /\ r.rank \in Ranks /\ \A e \in E : r.rank <= e.rank
  <2> HIDE DEF b
  <2>1. b \in E /\ \A f \in E : b.rank <= f.rank
    BY <1>2, <1>3
  <2>2. /\ b \in Entries /\ b.round = round /\ b.rank \in lo..hi /\ b.rank \notin submitted
    BY <2>1 DEF Eligible, Queue
  <2>3. b.round \in 1..MaxRound + 1
    BY <2>2, ExecutorAssumed DEF Entries, ExecutorAssumption
  <2> QED
    BY <2>1, <2>2, <2>3 DEF Entries, Proposals
<1> HIDE DEF r, E
<1>4. E # {} => r # NoProposal
  BY <1>3, RankTyped DEF NoProposal
<1> QED
  BY <1>1, <1>3, <1>4 DEF E
-----------------------------------------------------------------------------
(***************************************************************************)
(* The operations on the state of the worker.                                *)
(***************************************************************************)
LEMMA StatesTyped ==
    /\ NoProposal \notin Proposals
    /\ WaitingForBatch \in States /\ WaitingForBatch.name = "WaitingForBatch" /\ WaitingForBatch.mode = "none"
    /\ NoJob \in Jobs /\ NoJob.mode = "none" /\ NoJob.proposal = NoProposal
    /\ \A p \in Proposals :
           /\ WaitingForEvent(p) \in States /\ WaitingForEvent(p).name = "WaitingForEvent"
           /\ WaitingForEvent(p).proposal = p /\ WaitingForEvent(p).mode = "none"
           /\ \A m \in Modes :
                  /\ ProcessingBatch(p, m) \in States /\ ProcessingBatch(p, m).name = "ProcessingBatch"
                  /\ ProcessingBatch(p, m).proposal = p /\ ProcessingBatch(p, m).mode = m
           /\ \A known \in 0..p.shape.txs :
                  /\ WaitingForTxs(p, known) \in States /\ WaitingForTxs(p, known).name = "WaitingForTxs"
                  /\ WaitingForTxs(p, known).proposal = p /\ WaitingForTxs(p, known).mode = "none"
<1> USE ExecutorAssumed DEF ExecutorAssumption
<1>1. NoProposal \notin Proposals
  BY DEF NoProposal, Proposals
<1>2. WaitingForBatch \in States /\ WaitingForBatch.name = "WaitingForBatch" /\ WaitingForBatch.mode = "none"
  BY DEF WaitingForBatch, States, Names, Modes
<1>3. NoJob \in Jobs /\ NoJob.mode = "none" /\ NoJob.proposal = NoProposal
  BY DEF NoJob, Jobs, Modes
<1> SUFFICES ASSUME NEW p \in Proposals
    PROVE  /\ WaitingForEvent(p) \in States /\ WaitingForEvent(p).name = "WaitingForEvent"
           /\ WaitingForEvent(p).proposal = p /\ WaitingForEvent(p).mode = "none"
           /\ \A m \in Modes :
                  /\ ProcessingBatch(p, m) \in States /\ ProcessingBatch(p, m).name = "ProcessingBatch"
                  /\ ProcessingBatch(p, m).proposal = p /\ ProcessingBatch(p, m).mode = m
           /\ \A known \in 0..p.shape.txs :
                  /\ WaitingForTxs(p, known) \in States /\ WaitingForTxs(p, known).name = "WaitingForTxs"
                  /\ WaitingForTxs(p, known).proposal = p /\ WaitingForTxs(p, known).mode = "none"
  BY <1>1, <1>2, <1>3
<1>4. /\ WaitingForEvent(p) \in States /\ WaitingForEvent(p).name = "WaitingForEvent"
      /\ WaitingForEvent(p).proposal = p /\ WaitingForEvent(p).mode = "none"
  BY <1>2 DEF WaitingForEvent, States, Names, Modes
<1>5. ASSUME NEW m \in Modes
      PROVE  /\ ProcessingBatch(p, m) \in States /\ ProcessingBatch(p, m).name = "ProcessingBatch"
             /\ ProcessingBatch(p, m).proposal = p /\ ProcessingBatch(p, m).mode = m
  BY <1>2 DEF ProcessingBatch, States, Names
<1>6. ASSUME NEW known \in 0..p.shape.txs
      PROVE  /\ WaitingForTxs(p, known) \in States /\ WaitingForTxs(p, known).name = "WaitingForTxs"
             /\ WaitingForTxs(p, known).proposal = p /\ WaitingForTxs(p, known).mode = "none"
  <2>1. p.shape \in Shapes \cup {OwnShape}
    BY DEF Proposals
  <2>2. p.shape.txs \in Nat /\ p.shape.weight \in Nat
    BY <2>1
  <2>3. known * p.shape.weight \in Int /\ p.shape.txs - known \in Int
    BY <2>2
  <2> QED
    BY <2>3 DEF WaitingForTxs, States, Names, Modes
<1> QED
  BY <1>4, <1>5, <1>6

\* A valid transition changes the state and nothing else.
LEMMA Transition ==
    ASSUME NEW w \in Works, NEW s \in States, s.name \in ValidStateTransitions[w.state.name]
    PROVE  LET t == TransitionState(w, s) IN
           t \in Works /\ t.state = s /\ t.job = w.job /\ t.processed = w.processed /\ t.proposals = w.proposals
<1>1. TransitionState(w, s) = [w EXCEPT !.state = s]
  BY DEF TransitionState
<1> QED
  BY <1>1 DEF Works

LEMMA Valid ==
    ASSUME NEW n
    PROVE  /\ n \in {"WaitingForBatch", "WaitingForTxs", "WaitingForEvent"} =>
                  "ProcessingBatch" \in ValidStateTransitions[n]
           /\ n \in {"WaitingForBatch", "WaitingForTxs"} => "WaitingForEvent" \in ValidStateTransitions[n]
           /\ n = "WaitingForBatch" => "WaitingForTxs" \in ValidStateTransitions[n]
           /\ n \in Names /\ n # "Panicked" => "WaitingForBatch" \in ValidStateTransitions[n]
BY DEF ValidStateTransitions, Names

\* In front of a batch there is neither a goroutine nor a result.
LEMMA Quiet ==
    ASSUME NEW w, Healthy(w), w.state.name # "ProcessingBatch"
    PROVE  w.job = NoJob /\ w.processed = <<>>
BY DEF Healthy

LEMMA ToProcessing ==
    ASSUME NEW w, Healthy(w), w.state.name \in {"WaitingForBatch", "WaitingForTxs", "WaitingForEvent"},
           NEW p \in Proposals, p.round = round, p.rank \notin submitted
    PROVE  LET t == TransitionStateToProcessing(w, p) IN
           /\ Healthy(t) /\ t.proposals = w.proposals /\ t.state.proposal = p /\ t.state.name = "ProcessingBatch"
<1> DEFINE s == ProcessingBatch(p, "execute")
           u == TransitionState(w, s)
           j == [mode |-> "execute", proposal |-> p]
           t == TransitionStateToProcessing(w, p)
<1>1. s \in States /\ s.name = "ProcessingBatch" /\ s.proposal = p /\ s.mode = "execute"
  BY StatesTyped DEF Modes
<1>2. w \in Works
  BY DEF Healthy
<1> HIDE DEF s
<1>3. u \in Works /\ u.state = s /\ u.processed = w.processed /\ u.proposals = w.proposals
  BY <1>1, <1>2, Transition, Valid
<1> HIDE DEF u
<1>4. t = [u EXCEPT !.job = j]
  BY DEF TransitionStateToProcessing, u, s
<1>5. j \in Jobs /\ j # NoJob /\ j.proposal = p /\ j.mode = "execute"
  BY DEF Jobs, Modes, NoJob
<1> HIDE DEF j, t
<1>6. t \in Works /\ t.state = s /\ t.job = j /\ t.processed = w.processed /\ t.proposals = w.proposals
  BY <1>3, <1>4, <1>5 DEF Works
<1>7. t.processed = <<>>
  BY <1>6, Quiet
<1>8. s # WaitingForBatch
  BY <1>1, StatesTyped
<1>9. Healthy(t)
  BY <1>1, <1>5, <1>6, <1>7, <1>8 DEF Healthy
<1> QED
  BY <1>1, <1>6, <1>9 DEF t

LEMMA ToFailure ==
    ASSUME NEW w, Healthy(w), w.state.name \in {"WaitingForBatch", "WaitingForTxs", "WaitingForEvent"},
           NEW p \in Proposals, p.round = round, p.rank \notin submitted
    PROVE  LET t == TransitionStateToProcessingFailure(w, p) IN
           /\ Healthy(t) /\ t.proposals = w.proposals /\ t.state.proposal = p /\ t.state.name = "ProcessingBatch"
           /\ t.job = NoJob
<1> DEFINE s == ProcessingBatch(p, "execute")
           u == TransitionState(w, s)
           t == TransitionStateToProcessingFailure(w, p)
<1>1. s \in States /\ s.name = "ProcessingBatch" /\ s.proposal = p /\ s.mode = "execute"
  BY StatesTyped DEF Modes
<1>2. w \in Works /\ w.job = NoJob /\ w.processed = <<>>
  BY Quiet DEF Healthy
<1> HIDE DEF s
<1>3. u \in Works /\ u.state = s /\ u.job = w.job /\ u.proposals = w.proposals
  BY <1>1, <1>2, Transition, Valid
<1> HIDE DEF u
<1>4. t = [u EXCEPT !.processed = Append(w.processed, Result("failed", p))]
  BY DEF TransitionStateToProcessingFailure, u, s
<1>5. Result("failed", p) \in Results
  BY DEF Result, Results, Kinds
<1>6. Append(w.processed, Result("failed", p)) = <<Result("failed", p)>>
  BY <1>2
<1>7. <<Result("failed", p)>> \in Seq(Results) /\ <<Result("failed", p)>> # <<>>
  BY <1>5
<1> HIDE DEF t
<1>8. /\ t \in Works /\ t.state = s /\ t.job = NoJob /\ t.proposals = w.proposals
      /\ t.processed = <<Result("failed", p)>>
  BY <1>2, <1>3, <1>4, <1>6, <1>7 DEF Works
<1>9. s # WaitingForBatch
  BY <1>1, StatesTyped
<1>10. "failed" \in Kinds /\ "failed" # "computed"
  BY DEF Kinds
<1>11. \E k \in Kinds : /\ t.processed = <<Result(k, t.state.proposal)>>
                        /\ k = "computed" => t.state.proposal.shape.good
  BY <1>1, <1>8, <1>10
<1>12. Healthy(t)
  BY <1>1, <1>7, <1>8, <1>9, <1>11 DEF Healthy
<1> QED
  BY <1>1, <1>8, <1>12 DEF t

\* A batch that is dropped leaves nothing behind.
LEMMA Aborted ==
    ASSUME NEW w \in Works, NEW a \in AbortBatch(w), Queue(w.proposals)
    PROVE  /\ a \in Works /\ a.state = w.state /\ a.job = NoJob /\ a.processed = <<>>
           /\ Queue(a.proposals) /\ Shrinks(a.proposals, w.proposals)
           /\ w.job = NoJob => a.proposals = w.proposals
<1>1. PICK q : /\ a = [w EXCEPT !.job = NoJob, !.processed = <<>>, !.proposals = q]
               /\ q = w.proposals \/ (w.job.mode = "execute" /\ q = Reject(w.proposals, w.job.proposal))
  BY DEF AbortBatch
<1>2. Queue(q) /\ Shrinks(q, w.proposals)
  BY <1>1, RejectQueue DEF Shrinks
<1>3. q \in SUBSET Entries /\ <<>> \in Seq(Results) /\ NoJob \in Jobs
  BY <1>2, StatesTyped DEF Queue
<1>4. a \in Works /\ a.state = w.state /\ a.job = NoJob /\ a.processed = <<>> /\ a.proposals = q
  BY <1>1, <1>3 DEF Works
<1>5. w.job = NoJob => q = w.proposals
  BY <1>1, StatesTyped
<1> QED
  BY <1>2, <1>4, <1>5

LEMMA ToWaiting ==
    ASSUME NEW w \in Works, w.state.name # "Panicked", w.job = NoJob, w.processed = <<>>
    PROVE  LET t == TransitionState(w, WaitingForBatch) IN
           /\ Healthy(t) /\ t.state = WaitingForBatch /\ t.job = NoJob /\ t.processed = <<>>
           /\ t.proposals = w.proposals
<1> DEFINE t == TransitionState(w, WaitingForBatch)
<1>1. WaitingForBatch \in States /\ WaitingForBatch.name = "WaitingForBatch" /\ WaitingForBatch.mode = "none"
  BY StatesTyped
<1>2. w.state.name \in Names
  BY DEF Works, States
<1>3. "WaitingForBatch" \in ValidStateTransitions[w.state.name]
  BY <1>2, Valid
<1>4. t \in Works /\ t.state = WaitingForBatch /\ t.job = NoJob /\ t.processed = <<>> /\ t.proposals = w.proposals
  BY <1>1, <1>3, Transition
<1> HIDE DEF t
<1>5. Healthy(t)
  BY <1>1, <1>4 DEF Healthy
<1> QED
  BY <1>4, <1>5 DEF t
LEMMA ResolvedStep ==
    ASSUME NEW w, Healthy(w), w.state.name \in {"WaitingForBatch", "WaitingForTxs"},
           NEW p \in Proposals, p.round = round, p.rank \notin submitted, NEW disputed \in BOOLEAN
    PROVE  LET t == Resolved(w, p, disputed) IN
           /\ Healthy(t) /\ t.proposals = w.proposals /\ t.state.proposal = p
           /\ t.state.name \in {"WaitingForEvent", "ProcessingBatch"}
           /\ t.job # NoJob => Worker \/ disputed
<1>1. CASE ~Worker /\ Backup /\ ~disputed
  <2> DEFINE s == WaitingForEvent(p)
             t == TransitionState(w, s)
  <2>1. s \in States /\ s.name = "WaitingForEvent" /\ s.proposal = p /\ s.mode = "none"
    BY StatesTyped
  <2>2. w \in Works /\ w.job = NoJob /\ w.processed = <<>>
    BY Quiet DEF Healthy
  <2>3. Resolved(w, p, disputed) = t
    BY <1>1 DEF Resolved
  <2> HIDE DEF s
  <2>4. t \in Works /\ t.state = s /\ t.job = NoJob /\ t.processed = <<>> /\ t.proposals = w.proposals
    BY <2>1, <2>2, Transition, Valid
  <2> HIDE DEF t
  <2>5. s # WaitingForBatch
    BY <2>1, StatesTyped
  <2>6. Healthy(t)
    BY <2>1, <2>4, <2>5 DEF Healthy
  <2> QED
    BY <2>1, <2>3, <2>4, <2>6
<1>2. CASE ~(~Worker /\ Backup /\ ~disputed)
  <2>1. Resolved(w, p, disputed) = TransitionStateToProcessing(w, p)
    BY <1>2 DEF Resolved
  <2>2. Worker \/ disputed
    BY <1>2, ExecutorAssumed DEF ExecutorAssumption
  <2> QED
    BY <2>1, <2>2, ToProcessing
<1> QED
  BY <1>1, <1>2

\* After updateState the batch at hand is one between the ranks.
LEMMA Updated ==
    ASSUME NEW w, Healthy(w), Queue(w.proposals), NEW lo, NEW hi, NEW disputed \in BOOLEAN,
           NEW u \in UpdateState(w, lo, hi, disputed)
    PROVE  /\ Healthy(u) /\ Queue(u.proposals) /\ Shrinks(u.proposals, w.proposals)
           /\ u.state.name = "WaitingForBatch" \/ u.state.proposal.rank \in lo..hi
           /\ u.job # NoJob => u.job = w.job \/ Worker \/ disputed
<1> DEFINE s == w.state
           out == s.proposal.rank \notin lo..hi
<1>1. w \in Works /\ s.name \in Names /\ s.name # "Panicked"
  BY DEF Healthy, Works, States
<1>2. Shrinks(w.proposals, w.proposals)
  BY DEF Shrinks
<1>3. s.name # "WaitingForBatch" =>
          s.proposal \in Proposals /\ s.proposal.round = round /\ s.proposal.rank \notin submitted
  BY DEF Healthy
<1>4. CASE s.name = "WaitingForTxs"
  <2>1. u = IF out THEN TransitionState(w, WaitingForBatch)
            ELSE IF TooHeavy(s.bytes) THEN TransitionStateToProcessingFailure(w, s.proposal)
            ELSE IF s.missing = 0 THEN Resolved(w, s.proposal, disputed)
            ELSE w
    BY <1>4 DEF UpdateState
  <2>2. w.job = NoJob /\ w.processed = <<>>
    BY <1>4, Quiet
  <2>3. CASE out
    <3>1. u = TransitionState(w, WaitingForBatch)
      BY <2>1, <2>3
    <3>2. Healthy(u) /\ u.state = WaitingForBatch /\ u.job = NoJob /\ u.proposals = w.proposals
      BY <1>1, <2>2, <3>1, ToWaiting
    <3> QED
      BY <1>2, <3>2, StatesTyped
  <2>4. CASE ~out /\ TooHeavy(s.bytes)
    <3>1. u = TransitionStateToProcessingFailure(w, s.proposal)
      BY <2>1, <2>4
    <3>2. Healthy(u) /\ u.proposals = w.proposals /\ u.state.proposal = s.proposal /\ u.job = NoJob
      BY <1>3, <1>4, <3>1, ToFailure
    <3> QED
      BY <1>2, <2>4, <3>2
  <2>5. CASE ~out /\ ~TooHeavy(s.bytes) /\ s.missing = 0
    <3>1. u = Resolved(w, s.proposal, disputed)
      BY <2>1, <2>5
    <3>2. Healthy(u) /\ u.proposals = w.proposals /\ u.state.proposal = s.proposal /\ (u.job # NoJob => Worker \/ disputed)
      BY <1>3, <1>4, <3>1, ResolvedStep
    <3> QED
      BY <1>2, <2>5, <3>2
  <2>6. CASE ~out /\ ~TooHeavy(s.bytes) /\ s.missing # 0
    <3>1. u = w
      BY <2>1, <2>6
    <3> QED
      BY <1>2, <2>6, <3>1
  <2> QED
    BY <2>3, <2>4, <2>5, <2>6
<1>5. CASE s.name = "WaitingForEvent"
  <2>1. u = IF out THEN TransitionState(w, WaitingForBatch)
            ELSE IF disputed THEN TransitionStateToProcessing(w, s.proposal)
            ELSE w
    BY <1>5 DEF UpdateState
  <2>2. w.job = NoJob /\ w.processed = <<>>
    BY <1>5, Quiet
  <2>3. CASE out
    <3>1. u = TransitionState(w, WaitingForBatch)
      BY <2>1, <2>3
    <3>2. Healthy(u) /\ u.state = WaitingForBatch /\ u.job = NoJob /\ u.proposals = w.proposals
      BY <1>1, <2>2, <3>1, ToWaiting
    <3> QED
      BY <1>2, <3>2, StatesTyped
  <2>4. CASE ~out /\ disputed
    <3>1. u = TransitionStateToProcessing(w, s.proposal)
      BY <2>1, <2>4
    <3>2. Healthy(u) /\ u.proposals = w.proposals /\ u.state.proposal = s.proposal
      BY <1>3, <1>5, <3>1, ToProcessing
    <3> QED
      BY <1>2, <2>4, <3>2
  <2>5. CASE ~out /\ ~disputed
    <3>1. u = w
      BY <2>1, <2>5
    <3> QED
      BY <1>2, <2>5, <3>1
  <2> QED
    BY <2>3, <2>4, <2>5
<1>6. CASE s.name = "ProcessingBatch" /\ out
  <2>1. PICK a \in AbortBatch(w) : u = TransitionState(a, WaitingForBatch)
    BY <1>6 DEF UpdateState
  <2>2. /\ a \in Works /\ a.state = w.state /\ a.job = NoJob /\ a.processed = <<>>
        /\ Queue(a.proposals) /\ Shrinks(a.proposals, w.proposals)
    BY <1>1, Aborted
  <2>3. a.state.name # "Panicked"
    BY <1>1, <2>2
  <2>4. Healthy(u) /\ u.state = WaitingForBatch /\ u.job = NoJob /\ u.proposals = a.proposals
    BY <2>1, <2>2, <2>3, ToWaiting
  <2> QED
    BY <2>2, <2>4, StatesTyped
<1>7. CASE s.name = "WaitingForBatch" \/ (s.name = "ProcessingBatch" /\ ~out)
  <2>1. u = w
    BY <1>7 DEF UpdateState
  <2> QED
    BY <1>2, <1>7, <2>1
<1> QED
  BY <1>1, <1>4, <1>5, <1>6, <1>7 DEF Names

\* A proposal is taken up only by a worker without a batch.
LEMMA Processed ==
    ASSUME NEW w, Healthy(w), NEW p \in Proposals, p.round = round, NEW disputed \in BOOLEAN,
           NEW u \in ProcessProposal(w, p, disputed)
    PROVE  /\ Healthy(u) /\ u.proposals = w.proposals
           /\ u = w \/ (u.state.proposal = p /\ (u.job # NoJob => Worker \/ disputed))
<1>1. CASE w.state.name # "WaitingForBatch" \/ p.rank \in submitted \/ (disputed /\ ~Backup)
  <2>1. u = w
    BY <1>1 DEF ProcessProposal
  <2> QED
    BY <2>1
<1>2. CASE ~(w.state.name # "WaitingForBatch" \/ p.rank \in submitted \/ (disputed /\ ~Backup))
  <2>1. w.state.name = "WaitingForBatch" /\ p.rank \notin submitted
    BY <1>2
  <2>2. PICK known \in 0..p.shape.txs :
            u = IF TooMany(p.shape) \/ TooHeavy(known * p.shape.weight)
                THEN TransitionStateToProcessingFailure(w, p)
                ELSE IF known < p.shape.txs THEN TransitionState(w, WaitingForTxs(p, known))
                ELSE IF ~p.shape.linked THEN w
                ELSE Resolved(w, p, disputed)
    BY <1>2 DEF ProcessProposal
  <2>3. CASE u = TransitionStateToProcessingFailure(w, p)
    BY <2>1, <2>3, ToFailure
  <2>4. CASE u = TransitionState(w, WaitingForTxs(p, known))
    <3> DEFINE s == WaitingForTxs(p, known)
    <3>1. s \in States /\ s.name = "WaitingForTxs" /\ s.proposal = p /\ s.mode = "none"
      BY StatesTyped
    <3>2. w \in Works /\ w.job = NoJob /\ w.processed = <<>>
      BY <2>1, Quiet DEF Healthy
    <3> HIDE DEF s
    <3>3. u \in Works /\ u.state = s /\ u.job = NoJob /\ u.processed = <<>> /\ u.proposals = w.proposals
      BY <2>1, <2>4, <3>1, <3>2, Transition, Valid DEF s
    <3>4. s # WaitingForBatch
      BY <3>1, StatesTyped
    <3>5. Healthy(u)
      BY <2>1, <3>1, <3>3, <3>4 DEF Healthy
    <3> QED
      BY <3>1, <3>3, <3>5
  <2>5. CASE u = w
    BY <2>5
  <2>6. CASE u = Resolved(w, p, disputed)
    BY <2>1, <2>6, ResolvedStep
  <2> QED
    BY <2>2, <2>3, <2>4, <2>5, <2>6
<1> QED
  BY <1>1, <1>2

LEMMA Scheduled ==
    ASSUME NEW w, Healthy(w), Rounds, round # 0, NEW u \in ScheduleBatch(w)
    PROVE  /\ Healthy(u) /\ u.proposals = w.proposals
           /\ u = w \/ (u.state.proposal.rank = Rank /\ Worker)
<1> DEFINE own == [round |-> round, rank |-> Rank, shape |-> OwnShape]
           s   == ProcessingBatch(own, "schedule")
           j   == [mode |-> "schedule", proposal |-> own]
           t   == TransitionState(w, s)
<1> SUFFICES ASSUME u # w PROVE Healthy(u) /\ u.proposals = w.proposals /\ u.state.proposal.rank = Rank /\ Worker
  OBVIOUS
<1>1. w.state.name = "WaitingForBatch" /\ Rank \notin submitted /\ Worker /\ u = [t EXCEPT !.job = j]
  BY DEF ScheduleBatch
<1>2. round \in 1..MaxRound + 1 /\ Rank \in Ranks
  BY <1>1, RankTyped, ExecutorAssumed DEF Rounds, ExecutorAssumption
<1>3. own \in Proposals /\ own.round = round /\ own.rank = Rank /\ own.shape = OwnShape
  BY <1>2 DEF Proposals
<1>4. OwnShape.good
  BY ExecutorAssumed DEF ExecutorAssumption
<1> HIDE DEF own
<1>5. s \in States /\ s.name = "ProcessingBatch" /\ s.proposal = own /\ s.mode = "schedule"
  BY <1>3, StatesTyped DEF Modes
<1>6. j \in Jobs /\ j # NoJob /\ j.mode = "schedule" /\ j.proposal = own
  BY <1>3, StatesTyped DEF Jobs, Modes
<1>7. w \in Works /\ w.job = NoJob /\ w.processed = <<>>
  BY <1>1, Quiet DEF Healthy
<1> HIDE DEF s, j
<1>8. t \in Works /\ t.state = s /\ t.processed = <<>> /\ t.proposals = w.proposals
  BY <1>1, <1>5, <1>7, Transition, Valid
<1> HIDE DEF t
<1>9. u \in Works /\ u.state = s /\ u.job = j /\ u.processed = <<>> /\ u.proposals = w.proposals
  BY <1>1, <1>6, <1>8 DEF Works
<1>10. s # WaitingForBatch
  BY <1>5, StatesTyped
<1>11. Healthy(u)
  BY <1>1, <1>3, <1>4, <1>5, <1>6, <1>9, <1>10 DEF Healthy
<1> QED
  BY <1>1, <1>3, <1>5, <1>9, <1>11
-----------------------------------------------------------------------------
(***************************************************************************)
(* The top of the loop.                                                      *)
(***************************************************************************)

\* No candidate is better than the batch at hand.
First(w) ==
    w.state.name # "WaitingForBatch" =>
        \A e \in Eligible(w.proposals, 0, Limit) : ~(e.rank < w.state.proposal.rank)

LEMMA EligibleShrinks ==
    ASSUME NEW r, NEW q, Shrinks(r, q), NEW lo, NEW hi
    PROVE  Eligible(r, lo, hi) \subseteq Eligible(q, lo, hi)
BY DEF Shrinks, Eligible

\* The rank of the batch at hand, and whose it is.
LEMMA AtHand ==
    ASSUME NEW w, Healthy(w), Rounds
    PROVE  /\ w.state.name # "WaitingForBatch" => w.state.proposal.rank \in Ranks /\ w.state.proposal.rank \in Nat
           /\ w.job # NoJob => w.state.name # "WaitingForBatch" /\ w.job.proposal = w.state.proposal
<1>1. w.state.name # "WaitingForBatch" => w.state.proposal.rank \in Ranks
  BY DEF Healthy, Proposals
<1> QED
  BY <1>1, RankTyped DEF Healthy

LEMMA SelectStep ==
    ASSUME IInv, round # 0, discrepancy = NoDiscrepancy, NEW w \in Select
    PROVE  Healthy(w) /\ Queue(w.proposals) /\ Turn(w) /\ First(w)
<1> DEFINE p == Best(proposals, 0, Limit)
<1>1. Rounds /\ Healthy(Current) /\ Queue(proposals) /\ Turn(Current)
  BY DEF IInv
<1>2. Current.proposals = proposals /\ Current.job = job
  BY DEF Current
<1>3. Limit \in Nat /\ Limit <= schedulerRank /\ Limit <= Rank /\ schedulerRank \in Nat /\ Rank \in Nat
  BY <1>1, LimitTyped, RankTyped, ExecutorAssumed DEF Rounds, ExecutorAssumption
<1>4. /\ p = NoProposal => Eligible(proposals, 0, Limit) = {}
      /\ p # NoProposal =>
             /\ p \in Proposals /\ p.round = round /\ p.rank \in 0..Limit /\ p.rank \notin submitted
             /\ \A e \in Eligible(proposals, 0, Limit) : p.rank <= e.rank
  BY <1>1, BestProperty
<1>5. \A e \in Eligible(proposals, 0, Limit) : e.rank \in Nat
  BY <1>3 DEF Eligible
<1>6. IF p # NoProposal /\ p.rank < Rank
      THEN w \in UNION {ProcessProposal(u, p, FALSE) : u \in UpdateState(Current, 0, p.rank, FALSE)}
      ELSE IF Rank <= Limit
      THEN w \in UNION {ScheduleBatch(u) : u \in UpdateState(Current, 0, Rank, FALSE)}
      ELSE w = Current
  BY DEF Select
<1> HIDE DEF p
\* What remains to be shown when the rank of the batch is at most k.
<1>7. ASSUME NEW k \in Nat, k <= Rank, k <= Limit, Healthy(w), Shrinks(w.proposals, proposals),
             w.state.name # "WaitingForBatch" => w.state.proposal.rank <= k,
             w.job # NoJob => Worker,
             \A e \in Eligible(proposals, 0, Limit) : k <= e.rank
      PROVE  Turn(w) /\ First(w)
  <2>1. /\ w.state.name # "WaitingForBatch" => w.state.proposal.rank \in Nat
        /\ w.job # NoJob => w.state.name # "WaitingForBatch" /\ w.job.proposal = w.state.proposal
    BY <1>1, <1>7, AtHand
  <2>2. Turn(w)
    BY <1>3, <1>7, <2>1 DEF Turn
  <2>3. First(w)
    <3> SUFFICES ASSUME w.state.name # "WaitingForBatch", NEW e \in Eligible(w.proposals, 0, Limit)
                 PROVE  ~(e.rank < w.state.proposal.rank)
      BY DEF First
    <3>1. e \in Eligible(proposals, 0, Limit)
      BY <1>7, EligibleShrinks
    <3>2. e.rank \in Nat /\ k <= e.rank /\ w.state.proposal.rank <= k /\ w.state.proposal.rank \in Nat
      BY <1>5, <1>7, <2>1, <3>1
    <3> QED
      BY <3>2
  <2> QED
    BY <2>2, <2>3
<1>8. CASE p # NoProposal /\ p.rank < Rank
  <2>1. PICK u \in UpdateState(Current, 0, p.rank, FALSE) : w \in ProcessProposal(u, p, FALSE)
    BY <1>6, <1>8
  <2>2. /\ Healthy(u) /\ Queue(u.proposals) /\ Shrinks(u.proposals, proposals)
        /\ u.state.name = "WaitingForBatch" \/ u.state.proposal.rank \in 0..p.rank
        /\ u.job # NoJob => u.job = job \/ Worker
    <3>1. Queue(Current.proposals) /\ FALSE \in BOOLEAN
      BY <1>1, <1>2
    <3> QED
      BY <1>1, <1>2, <3>1, Updated
  <2>3. /\ Healthy(w) /\ w.proposals = u.proposals
        /\ w = u \/ (w.state.proposal = p /\ (w.job # NoJob => Worker))
    BY <1>4, <1>8, <2>1, <2>2, Processed, ZenonT(30)
  <2>4. job # NoJob => Worker
    BY <1>1, <1>2 DEF Turn
  <2>5. w.job # NoJob => Worker
    BY <2>2, <2>3, <2>4
  <2>6. p.rank \in Nat /\ p.rank <= Rank /\ p.rank <= Limit
    BY <1>3, <1>4, <1>8
  <2>7. w.state.name # "WaitingForBatch" => w.state.proposal.rank <= p.rank
    BY <2>2, <2>3, <2>6
  <2>8. \A e \in Eligible(proposals, 0, Limit) : p.rank <= e.rank
    BY <1>4, <1>8
  <2>9. Turn(w) /\ First(w)
    BY <1>7, <2>2, <2>3, <2>5, <2>6, <2>7, <2>8
  <2> QED
    BY <2>2, <2>3, <2>9
<1>9. CASE ~(p # NoProposal /\ p.rank < Rank) /\ Rank <= Limit
  <2>1. PICK u \in UpdateState(Current, 0, Rank, FALSE) : w \in ScheduleBatch(u)
    BY <1>6, <1>9
  <2>2. /\ Healthy(u) /\ Queue(u.proposals) /\ Shrinks(u.proposals, proposals)
        /\ u.state.name = "WaitingForBatch" \/ u.state.proposal.rank \in 0..Rank
        /\ u.job # NoJob => u.job = job \/ Worker
    <3>1. Queue(Current.proposals) /\ FALSE \in BOOLEAN
      BY <1>1, <1>2
    <3> QED
      BY <1>1, <1>2, <3>1, Updated
  <2>3. /\ Healthy(w) /\ w.proposals = u.proposals
        /\ w = u \/ (w.state.proposal.rank = Rank /\ Worker)
    BY <1>1, <2>1, <2>2, Scheduled
  <2>4. job # NoJob => Worker
    BY <1>1, <1>2 DEF Turn
  <2>5. w.job # NoJob => Worker
    BY <2>2, <2>3, <2>4
  <2>6. w.state.name # "WaitingForBatch" => w.state.proposal.rank <= Rank
    BY <1>3, <2>2, <2>3
  <2>7. \A e \in Eligible(proposals, 0, Limit) : Rank <= e.rank
    <3> TAKE e \in Eligible(proposals, 0, Limit)
    <3>1. p # NoProposal /\ p.rank <= e.rank /\ p.rank \in Nat
      BY <1>4
    <3>2. Rank <= p.rank
      BY <1>3, <1>9, <3>1
    <3> QED
      BY <1>3, <1>5, <3>1, <3>2
  <2>8. Turn(w) /\ First(w)
    BY <1>3, <1>7, <1>9, <2>2, <2>3, <2>5, <2>6, <2>7
  <2> QED
    BY <2>2, <2>3, <2>8
<1>10. CASE ~(p # NoProposal /\ p.rank < Rank) /\ ~(Rank <= Limit)
  <2>1. w = Current
    BY <1>6, <1>10
  <2>2. p = NoProposal
    BY <1>3, <1>4, <1>10
  <2>3. Eligible(proposals, 0, Limit) = {}
    BY <1>4, <2>2
  <2> QED
    BY <1>1, <1>2, <2>1, <2>3 DEF First
<1> QED
  BY <1>8, <1>9, <1>10

LEMMA DisputedStep ==
    ASSUME IInv, round # 0, discrepancy # NoDiscrepancy, NEW w \in SelectDisputed
    PROVE  /\ Healthy(w) /\ Queue(w.proposals)
           /\ w.job # NoJob => w.job.proposal.rank = discrepancy.rank
<1> DEFINE d == discrepancy.rank
           Then(u) == LET p == Best(u.proposals, d, d)
                      IN IF p # NoProposal THEN ProcessProposal(u, p, TRUE)
                         ELSE IF Rank = d THEN ScheduleBatch(u)
                         ELSE {u}
<1>1. Rounds /\ Healthy(Current) /\ Queue(proposals) /\ Current.proposals = proposals
  BY DEF IInv, Current
<1>2. d \in Nat
  BY <1>1, RankTyped DEF Rounds
<1>3. PICK u \in UpdateState(Current, d, d, TRUE) : w \in Then(u)
  BY DEF SelectDisputed
<1>4. /\ Healthy(u) /\ Queue(u.proposals)
      /\ u.state.name = "WaitingForBatch" \/ u.state.proposal.rank \in d..d
  <2>1. Queue(Current.proposals) /\ TRUE \in BOOLEAN
    BY <1>1
  <2> HIDE DEF d
  <2> QED
    BY <1>1, <1>3, <2>1, Updated
<1>5. /\ Healthy(w) /\ w.proposals = u.proposals
      /\ w.state.name # "WaitingForBatch" => w.state.proposal.rank = d
  <2> DEFINE p == Best(u.proposals, d, d)
  <2>1. p # NoProposal => p \in Proposals /\ p.round = round /\ p.rank \in d..d
    BY <1>1, <1>4, BestProperty
  <2>2. u.state.name # "WaitingForBatch" => u.state.proposal.rank = d
    BY <1>2, <1>4
  <2>3. IF p # NoProposal THEN w \in ProcessProposal(u, p, TRUE)
        ELSE IF Rank = d THEN w \in ScheduleBatch(u) ELSE w = u
    BY <1>3
  <2> HIDE DEF p, d
  <2>4. CASE p # NoProposal
    <3>1. w \in ProcessProposal(u, p, TRUE) /\ TRUE \in BOOLEAN
      BY <2>3, <2>4
    <3>2. Healthy(w) /\ w.proposals = u.proposals /\ (w = u \/ w.state.proposal = p)
      BY <1>4, <2>1, <2>4, <3>1, Processed, ZenonT(30)
    <3>3. p.rank = d
      BY <1>2, <2>1, <2>4
    <3> QED
      BY <2>2, <3>2, <3>3
  <2>5. CASE p = NoProposal /\ Rank = d
    <3>1. w \in ScheduleBatch(u)
      BY <2>3, <2>5
    <3>2. Healthy(w) /\ w.proposals = u.proposals /\ (w = u \/ w.state.proposal.rank = Rank)
      BY <1>1, <1>4, <3>1, Scheduled
    <3> QED
      BY <2>2, <2>5, <3>2
  <2>6. CASE p = NoProposal /\ Rank # d
    BY <1>4, <2>2, <2>3, <2>6
  <2> QED
    BY <2>4, <2>5, <2>6
<1>6. w.job # NoJob => w.state.name # "WaitingForBatch" /\ w.job.proposal = w.state.proposal
  BY <1>1, <1>5, AtHand
<1> QED
  BY <1>4, <1>5, <1>6
-----------------------------------------------------------------------------
(***************************************************************************)
(* The steps.                                                                *)
(***************************************************************************)

\* A worker without a batch, whatever has happened to the round.
LEMMA Idle ==
    ASSUME state' = WaitingForBatch, job' = NoJob, processed' = <<>>, proposals' \in SUBSET Entries
    PROVE  Healthy(Current)' /\ Turn(Current)' /\ InTurn' /\ BestFirst'
<1>1. /\ WaitingForBatch \in States /\ WaitingForBatch.name = "WaitingForBatch" /\ WaitingForBatch.mode = "none"
      /\ NoJob \in Jobs /\ <<>> \in Seq(Results)
  BY StatesTyped
<1>2. Current' = [state |-> WaitingForBatch, job |-> NoJob, processed |-> <<>>, proposals |-> proposals']
  BY DEF Current
<1>3. /\ Current' \in Works /\ Current'.state = WaitingForBatch
      /\ Current'.job = NoJob /\ Current'.processed = <<>>
  BY <1>1, <1>2 DEF Works
<1>4. Healthy(Current)'
  BY <1>1, <1>3 DEF Healthy
<1>5. Turn(Current)' /\ InTurn' /\ BestFirst'
  BY <1>1, <1>3 DEF Turn, InTurn, BestFirst
<1> QED
  BY <1>4, <1>5

\* What is healthy stays so within the round.
LEMMA Carried ==
    ASSUME NEW w, Healthy(w), Becomes(w), round' = round, submitted' = submitted, signFailed => signFailed'
    PROVE  Current' = w /\ Healthy(Current)'
<1>1. w = [state |-> w.state, job |-> w.job, processed |-> w.processed, proposals |-> w.proposals]
  BY DEF Healthy, Works
<1>2. Current' = w
  BY <1>1 DEF Becomes, Current
<1>3. Rank' = Rank
  BY DEF Rank, SchedulerRank
<1> QED
  BY <1>2, <1>3 DEF Healthy

\* The ranks of the round.
LEMMA SameVotes ==
    ASSUME Votes, UNCHANGED <<round, submitted, signed, published, signFailed>>
    PROVE  Votes'
<1>1. Rank' = Rank
  BY DEF Rank, SchedulerRank
<1> QED
  BY <1>1 DEF Votes, VotesOnce

LEMMA InitInv == Init => IInv
<1> SUFFICES ASSUME Init PROVE IInv
  OBVIOUS
<1> USE ExecutorAssumed DEF ExecutorAssumption
<1>1. /\ WaitingForBatch \in States /\ WaitingForBatch.name = "WaitingForBatch" /\ WaitingForBatch.mode = "none"
      /\ NoJob \in Jobs /\ <<>> \in Seq(Results)
  BY StatesTyped
<1>2. Rounds
  <2>1. /\ round \in 0..MaxRound /\ next \in 0..MaxRound /\ pruned \in 0..MaxRound
        /\ schedulerRank \in 0..Schedulers /\ faults \in 0..MaxFaults
    BY DEF Init
  <2>2. /\ pc = "skipped" /\ state = WaitingForBatch /\ poolRank = NoRank /\ discrepancy = NoDiscrepancy
        /\ submitted = {} /\ signFailed = FALSE /\ reselect = FALSE
    BY DEF Init
  <2> QED
    BY <2>1, <2>2 DEF Rounds
<1>3. Votes
  BY DEF Init, Votes, VotesOnce
<1>4. /\ Current \in Works /\ Current.state = WaitingForBatch
      /\ Current.job = NoJob /\ Current.processed = <<>>
  BY <1>1 DEF Init, Works, Current
<1>5. Healthy(Current)
  BY <1>1, <1>4 DEF Healthy
<1>6. Queue(proposals)
  BY FS_EmptySet DEF Init, Queue
<1>7. Turn(Current) /\ InTurn /\ BestFirst
  BY <1>1, <1>4 DEF Init, Turn, InTurn, BestFirst
<1> QED
  BY <1>2, <1>3, <1>5, <1>6, <1>7 DEF IInv

LEMMA TopStep == IInv /\ Top => IInv'
<1> SUFFICES ASSUME IInv, Top PROVE IInv'
  OBVIOUS
<1>1. /\ UNCHANGED <<round, next, pruned, schedulerRank, poolRank, discrepancy, submitted, faults>>
      /\ UNCHANGED <<signed, published, signFailed, reselect>> /\ pc = "top" /\ pc' = "select"
  BY DEF Top, roundVars, rankVars, voteVars
<1>2. Rounds /\ Votes /\ round # 0
  BY <1>1 DEF IInv, Rounds
<1>3. PICK w \in IF discrepancy = NoDiscrepancy THEN Select ELSE SelectDisputed : Becomes(w)
  BY DEF Top
<1>4. /\ Healthy(w) /\ Queue(w.proposals)
      /\ discrepancy = NoDiscrepancy => Turn(w) /\ First(w)
      /\ discrepancy # NoDiscrepancy => (w.job # NoJob => w.job.proposal.rank = discrepancy.rank)
  BY <1>2, <1>3, SelectStep, DisputedStep
<1>5. Current' = w /\ Healthy(Current)'
  BY <1>1, <1>3, <1>4, Carried
<1>6. Rank' = Rank /\ Limit' = Limit
  BY <1>1 DEF Rank, SchedulerRank, Limit
<1>7. Rounds'
  BY <1>1, <1>2 DEF Rounds
<1>8. Votes'
  BY <1>1, <1>2, SameVotes
<1>9. proposals' = w.proposals /\ state' = w.state /\ job' = w.job
  BY <1>3 DEF Becomes
<1>10. Queue(proposals)'
  BY <1>4, <1>9 DEF Queue
<1>11. discrepancy' = NoDiscrepancy => Turn(Current)'
  BY <1>1, <1>4, <1>5, <1>6 DEF Turn
<1>12. InTurn'
  <2> SUFFICES ASSUME job' # NoJob
      PROVE  IF discrepancy # NoDiscrepancy THEN job'.proposal.rank = discrepancy.rank
             ELSE Worker /\ job'.proposal.rank <= Min({schedulerRank, Rank})
    BY <1>1, <1>6 DEF InTurn
  <2>1. CASE discrepancy # NoDiscrepancy
    BY <1>4, <1>9, <2>1
  <2>2. CASE discrepancy = NoDiscrepancy
    <3>1. Worker /\ job'.proposal.rank <= schedulerRank /\ job'.proposal.rank <= Rank
      BY <1>4, <1>9, <2>2 DEF Turn
    <3>2. {schedulerRank, Rank} \in SUBSET Nat /\ {schedulerRank, Rank} # {}
      BY <1>2, RankTyped DEF Rounds
    <3>3. Min({schedulerRank, Rank}) \in {schedulerRank, Rank}
      BY <3>2, MinProperty
    <3> QED
      BY <2>2, <3>1, <3>3
  <2> QED
    BY <2>1, <2>2
<1>13. BestFirst'
  <2> SUFFICES ASSUME discrepancy = NoDiscrepancy, state'.name \in {"ProcessingBatch", "WaitingForTxs"},
                      NEW e \in Eligible(proposals, 0, Limit)', e.rank < state'.proposal.rank
               PROVE  FALSE
    BY <1>1 DEF BestFirst
  <2>1. e \in Eligible(w.proposals, 0, Limit)
    BY <1>1, <1>6, <1>9 DEF Eligible
  <2> QED
    BY <1>4, <1>9, <2>1 DEF First
<1> QED
  BY <1>5, <1>7, <1>8, <1>10, <1>11, <1>12, <1>13 DEF IInv

\* An event changes ranks and discrepancies, and never makes a turn pass.
LEMMA EventStep ==
    ASSUME IInv, Event, Rounds', UNCHANGED <<workVars, voteVars, round>>,
           discrepancy' = NoDiscrepancy => discrepancy = NoDiscrepancy,
           schedulerRank <= schedulerRank'
    PROVE  IInv'
<1>1. UNCHANGED <<state, job, processed, proposals, submitted, signed, published, signFailed, round>>
  BY DEF workVars, voteVars
<1>2. Current' = Current /\ Rank' = Rank /\ pc' = "top"
  BY <1>1 DEF Current, Rank, SchedulerRank, Event
<1>3. Healthy(Current)'
  BY <1>1, <1>2 DEF IInv, Healthy
<1>4. Votes'
  BY <1>1, SameVotes DEF IInv
<1>5. Queue(proposals)'
  BY <1>1 DEF IInv, Queue
<1>6. discrepancy' = NoDiscrepancy => Turn(Current)'
  <2> SUFFICES ASSUME discrepancy = NoDiscrepancy, job # NoJob
      PROVE  Worker /\ job.proposal.rank <= schedulerRank' /\ job.proposal.rank <= Rank
    BY <1>1, <1>2 DEF Turn, Current
  <2>1. /\ Worker /\ job.proposal.rank <= schedulerRank /\ job.proposal.rank <= Rank
    BY DEF IInv, Turn, Current
  <2>2. Rounds /\ Healthy(Current) /\ Current.job = job /\ Current.state = state
    BY DEF IInv, Current
  <2>3. job.proposal.rank \in Nat
    BY <2>2, AtHand
  <2>4. schedulerRank \in Int /\ schedulerRank' \in Int
    BY <2>2 DEF Rounds
  <2> QED
    BY <2>1, <2>3, <2>4
<1>7. InTurn' /\ BestFirst'
  BY <1>2 DEF InTurn, BestFirst
<1> QED
  BY <1>3, <1>4, <1>5, <1>6, <1>7 DEF IInv

LEMMA RankEvents ==
    ASSUME IInv, NEW r \in Ranks, HandleEvent(r) \/ EstimatePoolRank(r) \/ PredictDiscrepancy(r)
    PROVE  IInv'
<1>1. /\ Event /\ UNCHANGED <<workVars, roundVars, voteVars, schedulerRank, reselect, faults>>
  BY DEF HandleEvent, EstimatePoolRank, PredictDiscrepancy
<1>2. /\ UNCHANGED <<round, next, pruned, submitted, signFailed, state>>
      /\ pc = "select" /\ pc' = "top" /\ Rounds
  BY <1>1 DEF roundVars, voteVars, workVars, Event, IInv
<1>3. r # NoRank
  BY <1>2, RankTyped
<1>4. /\ discrepancy' \in {NoDiscrepancy} \cup [rank : Ranks, authoritative : BOOLEAN]
      /\ discrepancy' = NoDiscrepancy => discrepancy = NoDiscrepancy
      /\ poolRank' \in Ranks \cup {NoRank}
  <2>1. discrepancy \in {NoDiscrepancy} \cup [rank : Ranks, authoritative : BOOLEAN] /\ poolRank \in Ranks \cup {NoRank}
    BY <1>2 DEF Rounds
  <2>2. ASSUME NEW a \in BOOLEAN, HandleDiscrepancy([rank |-> r, authoritative |-> a])
        PROVE  /\ discrepancy' \in {NoDiscrepancy} \cup [rank : Ranks, authoritative : BOOLEAN]
               /\ discrepancy' = NoDiscrepancy => discrepancy = NoDiscrepancy
    <3>1. [rank |-> r, authoritative |-> a] \in [rank : Ranks, authoritative : BOOLEAN]
      OBVIOUS
    <3>2. [rank |-> r, authoritative |-> a] # NoDiscrepancy
      BY <1>3 DEF NoDiscrepancy
    <3> QED
      BY <2>1, <2>2, <3>1, <3>2 DEF HandleDiscrepancy
  <2>3. CASE HandleEvent(r)
    BY <2>1, <2>2, <2>3 DEF HandleEvent
  <2>4. CASE EstimatePoolRank(r)
    BY <2>1, <2>4 DEF EstimatePoolRank
  <2>5. CASE PredictDiscrepancy(r)
    BY <2>1, <2>2, <2>5 DEF PredictDiscrepancy
  <2> QED
    BY <2>3, <2>4, <2>5
<1>5. Rounds'
  BY <1>1, <1>2, <1>4 DEF Rounds
<1>6. schedulerRank <= schedulerRank'
  BY <1>1, <1>2 DEF Rounds
<1> QED
  BY <1>1, <1>2, <1>4, <1>5, <1>6, EventStep

LEMMA ClockEvents ==
    ASSUME IInv, Tick \/ Flush \/ Reselect
    PROVE  IInv'
<1>1. /\ Event /\ UNCHANGED <<workVars, roundVars, voteVars, poolRank, discrepancy, faults>>
      /\ schedulerRank' = schedulerRank \/ (schedulerRank < Schedulers /\ schedulerRank' = schedulerRank + 1)
      /\ reselect' \in {reselect, FALSE}
  BY DEF Tick, Flush, Reselect, rankVars
<1>2. /\ UNCHANGED <<round, next, pruned, submitted, signFailed, state>>
      /\ pc = "select" /\ pc' = "top" /\ Rounds
  BY <1>1 DEF roundVars, voteVars, workVars, Event, IInv
<1>3. schedulerRank \in 0..Schedulers /\ Schedulers \in Nat
  BY <1>2, ExecutorAssumed DEF Rounds, ExecutorAssumption
<1>4. schedulerRank' \in 0..Schedulers /\ schedulerRank <= schedulerRank'
  BY <1>1, <1>3
<1>5. reselect' \in BOOLEAN
  BY <1>1, <1>2 DEF Rounds
<1>6. Rounds'
  BY <1>1, <1>2, <1>4, <1>5 DEF Rounds
<1> QED
  BY <1>1, <1>2, <1>4, <1>6, EventStep

LEMMA TransactionsStep ==
    ASSUME IInv, NEW n \in 1..MaxBatchSize, HandleTransactions(n)
    PROVE  IInv'
<1>1. /\ UNCHANGED <<job, processed, proposals, round, next, pruned, schedulerRank, poolRank, discrepancy>>
      /\ UNCHANGED <<submitted, signed, published, signFailed, reselect, faults>>
      /\ pc = "select" /\ pc' = "top" /\ state.name = "WaitingForTxs"
      /\ state' = [state EXCEPT !.missing = @ - n]
  BY DEF HandleTransactions, roundVars, rankVars, voteVars, Event
<1>2. Rounds /\ Votes /\ Healthy(Current) /\ Queue(proposals)
  BY DEF IInv
<1>3. state \in States /\ Current \in Works /\ Current.state = state /\ Current.job = job
  BY <1>2 DEF Current, Healthy, Works
<1>4. job = NoJob /\ processed = <<>> /\ proposals \in SUBSET Entries
  BY <1>1, <1>2, <1>3, Quiet DEF Current, Queue
<1>5. n \in Int /\ state.missing \in Int
  BY <1>3, ExecutorAssumed DEF States, ExecutorAssumption
<1> DEFINE m == state.missing - n
<1>6. m \in Int /\ state' = [state EXCEPT !.missing = m]
  BY <1>1, <1>3, <1>5 DEF States
<1> HIDE DEF m
<1>7. /\ state' \in States /\ state'.name = "WaitingForTxs" /\ state'.proposal = state.proposal
      /\ state'.mode = state.mode
  BY <1>1, <1>3, <1>6 DEF States
<1>8. state' # WaitingForBatch
  BY <1>7, StatesTyped
<1>9. /\ Current' \in Works /\ Current'.state = state' /\ Current'.job = NoJob /\ Current'.processed = <<>>
  BY <1>1, <1>3, <1>4, <1>7, StatesTyped DEF Current, Works
<1>10. Rank' = Rank
  BY <1>1 DEF Rank, SchedulerRank
<1>11. /\ state.proposal \in Proposals /\ state.proposal.round = round /\ state.proposal.rank \notin submitted
       /\ state.mode = "schedule" => state.proposal.rank = Rank /\ state.proposal.shape.good
  BY <1>1, <1>2, <1>3 DEF Healthy
<1>12. Healthy(Current)'
  BY <1>1, <1>7, <1>8, <1>9, <1>10, <1>11 DEF Healthy
<1>13. Rounds'
  BY <1>1, <1>2 DEF Rounds
<1>14. Votes' /\ Queue(proposals)'
  BY <1>1, <1>2, SameVotes DEF Queue
<1>15. Turn(Current)' /\ InTurn' /\ BestFirst'
  BY <1>1, <1>4, <1>9 DEF Turn, InTurn, BestFirst
<1> QED
  BY <1>12, <1>13, <1>14, <1>15 DEF IInv
-----------------------------------------------------------------------------
(***************************************************************************)
(* Results.                                                                  *)
(***************************************************************************)
LEMMA SignedVotes ==
    ASSUME Rounds, Votes, NEW p \in Proposals, p.round = round, p.rank \notin submitted,
           NEW ok \in BOOLEAN, ok => p.shape.good, Signed(p, ok), round' = round,
           published' = published \/ (published' = published + 1 /\ p.rank = Rank)
    PROVE  Votes'
<1> DEFINE v == [proposal |-> p, ok |-> ok]
<1>1. v \in [proposal : Proposals, ok : BOOLEAN] /\ v.proposal = p /\ v.ok = ok
  OBVIOUS
<1> HIDE DEF v
<1>2. signed' = Append(signed, v) /\ submitted' = submitted \cup {p.rank} /\ signFailed' = signFailed
  BY DEF Signed, v
<1>3. signed \in Seq([proposal : Proposals, ok : BOOLEAN])
  BY DEF Votes
<1>4. /\ signed' \in Seq([proposal : Proposals, ok : BOOLEAN])
      /\ DOMAIN signed' = (DOMAIN signed) \cup {Len(signed) + 1} /\ Len(signed) + 1 \notin DOMAIN signed
      /\ signed'[Len(signed) + 1] = v
      /\ \A i \in DOMAIN signed : signed'[i] = signed[i]
  BY <1>1, <1>2, <1>3
<1>5. submitted' = {signed'[i].proposal.rank : i \in DOMAIN signed'}
  BY <1>1, <1>2, <1>4 DEF Votes
<1>6. Rank' = Rank
  BY DEF Rank, SchedulerRank
<1>7. \A i \in DOMAIN signed : signed[i].proposal.rank # p.rank
  BY DEF Votes
<1>8. \A i, j \in DOMAIN signed' : signed'[i].proposal.rank = signed'[j].proposal.rank => i = j
  <2>1. \A i, j \in DOMAIN signed : signed[i].proposal.rank = signed[j].proposal.rank => i = j
    BY DEF Votes, VotesOnce
  <2> QED
    BY <1>1, <1>4, <1>7, <2>1
<1>9. \A i \in DOMAIN signed' :
          /\ signed'[i].proposal.round = round'
          /\ signed'[i].ok => signed'[i].proposal.shape.good
  <2>1. \A i \in DOMAIN signed :
            signed[i].proposal.round = round /\ (signed[i].ok => signed[i].proposal.shape.good)
    BY DEF Votes, VotesOnce
  <2> QED
    BY <1>1, <1>4, <2>1
<1>10. published \in Nat /\ (published >= 1 => Rank \in submitted \/ signFailed) /\ (published <= 1 \/ signFailed)
  BY DEF Votes, VotesOnce
<1>11. /\ published' \in Nat /\ (published' >= 1 => Rank \in submitted' \/ signFailed)
       /\ published' <= 1 \/ signFailed
  <2>1. CASE published' = published
    BY <1>2, <1>10, <2>1
  <2>2. CASE published' = published + 1 /\ p.rank = Rank
    <3>1. Rank \notin submitted /\ Rank \in submitted'
      BY <1>2, <2>2
    <3> QED
      BY <1>10, <2>2, <3>1
  <2> QED
    BY <2>1, <2>2
<1> QED
  BY <1>2, <1>4, <1>5, <1>6, <1>8, <1>9, <1>11 DEF Votes, VotesOnce

LEMMA FailedVotes ==
    ASSUME Votes, signFailed', UNCHANGED <<round, submitted, signed>>, published' \in Nat
    PROVE  Votes'
BY DEF Votes, VotesOnce

LEMMA FaultTyped ==
    ASSUME Rounds, Fault \/ UNCHANGED faults
    PROVE  faults' \in 0..MaxFaults
BY ExecutorAssumed DEF Rounds, Fault, ExecutorAssumption

\* What a result does, summed up: the batch is over, with a commitment or
\* without one, or signing has failed.
LEMMA ResultOutcome ==
    ASSUME IInv, HandleProcessedBatch
    PROVE  /\ state.name = "ProcessingBatch" /\ job = NoJob
           /\ job' = NoJob /\ processed' = <<>> /\ proposals' = proposals
           /\ Fault \/ UNCHANGED faults
           /\ \/ state' = WaitingForBatch /\ UNCHANGED voteVars
              \/ /\ state' = WaitingForBatch
                 /\ \E ok \in BOOLEAN : Signed(state.proposal, ok) /\ (ok => state.proposal.shape.good)
                 /\ published' = published \/ (published' = published + 1 /\ state.mode = "schedule")
              \/ /\ state' = WaitingForBatch \/ state' = state
                 /\ signFailed' = TRUE /\ UNCHANGED <<signed, submitted>>
                 /\ published' = published \/ published' = published + 1
<1> DEFINE w == [Current EXCEPT !.processed = Tail(processed)]
           b == Head(processed)
<1>1. Rounds /\ Healthy(Current) /\ Queue(proposals) /\ processed # <<>>
  BY DEF IInv, HandleProcessedBatch
<1>2. /\ Current.state = state /\ Current.job = job /\ Current.processed = processed
      /\ Current.proposals = proposals /\ Current \in Works
  BY <1>1 DEF Current, Healthy
<1>3. state.name = "ProcessingBatch" /\ job = NoJob
  BY <1>1, <1>2 DEF Healthy
<1>4. PICK k \in Kinds : processed = <<Result(k, state.proposal)>> /\ (k = "computed" => state.proposal.shape.good)
  BY <1>1, <1>2 DEF Healthy
<1>5. b.kind = k /\ b.proposal = state.proposal /\ Tail(processed) = <<>>
  BY <1>4 DEF Result
<1>6. w \in Works /\ w.state = state /\ w.job = NoJob /\ w.processed = <<>> /\ w.proposals = proposals
  <2>1. Tail(processed) = <<>>
    BY <1>5
  <2>2. w = [Current EXCEPT !.processed = <<>>]
    BY <2>1, Zenon
  <2>3. <<>> \in Seq(Results)
    OBVIOUS
  <2> HIDE DEF w
  <2> QED
    BY <1>2, <1>3, <2>2, <2>3 DEF Works
<1>7. CASE k = "none"
  <2>1. Becomes(TransitionState(w, WaitingForBatch)) /\ UNCHANGED <<voteVars, faults>>
    BY <1>3, <1>5, <1>7 DEF HandleProcessedBatch
  <2> HIDE DEF w
  <2>2. LET t == TransitionState(w, WaitingForBatch) IN
        t.state = WaitingForBatch /\ t.job = NoJob /\ t.processed = <<>> /\ t.proposals = proposals
    BY <1>3, <1>6, ToWaiting
  <2> QED
    BY <1>3, <2>1, <2>2 DEF Becomes
<1>8. ASSUME NEW a \in AbortBatch(w)
      PROVE  /\ a.state = state /\ a.job = NoJob /\ a.processed = <<>> /\ a.proposals = proposals
             /\ LET t == TransitionState(a, WaitingForBatch) IN
                t.state = WaitingForBatch /\ t.job = NoJob /\ t.processed = <<>> /\ t.proposals = proposals
  <2> HIDE DEF w
  <2>1. /\ a \in Works /\ a.state = w.state /\ a.job = NoJob /\ a.processed = <<>> /\ a.proposals = w.proposals
    BY <1>1, <1>6, Aborted
  <2>2. a.state.name # "Panicked"
    BY <1>3, <1>6, <2>1
  <2> QED
    BY <1>6, <2>1, <2>2, ToWaiting
<1>9. CASE k = "failed"
  <2>1. SubmitFailure(state.proposal)
    BY <1>3, <1>5, <1>9 DEF HandleProcessedBatch
  <2>2. PICK a \in AbortBatch(w) : Becomes(TransitionState(a, WaitingForBatch))
    BY <2>1 DEF SubmitFailure
  <2> HIDE DEF w
  <2>3. state' = WaitingForBatch /\ job' = NoJob /\ processed' = <<>> /\ proposals' = proposals
    BY <1>8, <2>2 DEF Becomes
  <2>4. published' = published /\ ((Signed(state.proposal, FALSE) /\ UNCHANGED faults) \/ SignFails)
    BY <2>1 DEF SubmitFailure
  <2> QED
    BY <1>3, <2>3, <2>4 DEF SignFails
<1>10. CASE k = "computed"
  <2>1. \/ Becomes(w) /\ SignFails /\ UNCHANGED published
        \/ ProposeBatch(state.proposal) /\ published' = published + 1 /\ state.mode = "schedule"
        \/ ProposeBatch(state.proposal) /\ published' = published
    BY <1>3, <1>5, <1>10 DEF HandleProcessedBatch
  <2>2. CASE Becomes(w) /\ SignFails /\ UNCHANGED published
    <3> HIDE DEF w
    <3> QED
      BY <1>3, <1>6, <2>2 DEF Becomes, SignFails
  <2>3. CASE /\ ProposeBatch(state.proposal)
             /\ published' = published \/ (published' = published + 1 /\ state.mode = "schedule")
    <3>1. \/ Becomes(TransitionState(w, WaitingForBatch)) /\ Signed(state.proposal, TRUE) /\ UNCHANGED faults
          \/ /\ \E a \in AbortBatch(w) : Becomes(TransitionState(a, WaitingForBatch))
             /\ Signed(state.proposal, FALSE) /\ Fault
          \/ (\E a \in AbortBatch(w) : Becomes(a)) /\ SignFails
      BY <2>3 DEF ProposeBatch
    <3> HIDE DEF w
    <3>2. CASE Becomes(TransitionState(w, WaitingForBatch)) /\ Signed(state.proposal, TRUE) /\ UNCHANGED faults
      <4>1. LET t == TransitionState(w, WaitingForBatch) IN
            t.state = WaitingForBatch /\ t.job = NoJob /\ t.processed = <<>> /\ t.proposals = proposals
        BY <1>3, <1>6, ToWaiting
      <4> QED
        BY <1>3, <1>4, <1>10, <2>3, <3>2, <4>1 DEF Becomes
    <3>3. CASE /\ \E a \in AbortBatch(w) : Becomes(TransitionState(a, WaitingForBatch))
               /\ Signed(state.proposal, FALSE) /\ Fault
      <4>1. state' = WaitingForBatch /\ job' = NoJob /\ processed' = <<>> /\ proposals' = proposals
        BY <1>8, <3>3 DEF Becomes
      <4> QED
        BY <1>3, <2>3, <3>3, <4>1
    <3>4. CASE (\E a \in AbortBatch(w) : Becomes(a)) /\ SignFails
      <4>1. state' = state /\ job' = NoJob /\ processed' = <<>> /\ proposals' = proposals
        BY <1>8, <3>4 DEF Becomes
      <4> QED
        BY <1>3, <2>3, <3>4, <4>1 DEF SignFails
    <3> QED
      BY <3>1, <3>2, <3>3, <3>4
  <2> QED
    BY <2>1, <2>2, <2>3
<1> QED
  BY <1>7, <1>9, <1>10 DEF Kinds

LEMMA ResultStep == IInv /\ HandleProcessedBatch => IInv'
<1> SUFFICES ASSUME IInv, HandleProcessedBatch PROVE IInv'
  OBVIOUS
<1> DEFINE p == state.proposal
<1>1. /\ Rounds /\ Votes /\ Healthy(Current) /\ Queue(proposals)
      /\ UNCHANGED <<round, next, pruned, schedulerRank, poolRank, discrepancy, reselect>>
      /\ pc = "select" /\ pc' = "top"
  BY DEF IInv, HandleProcessedBatch, Event, roundVars, rankVars
<1>2. /\ Current.state = state /\ Current \in Works
  BY <1>1 DEF Current, Healthy
<1>3. /\ state.name = "ProcessingBatch" /\ job = NoJob
      /\ job' = NoJob /\ processed' = <<>> /\ proposals' = proposals
      /\ Fault \/ UNCHANGED faults
  BY ResultOutcome
<1>4. /\ p \in Proposals /\ p.round = round /\ p.rank \notin submitted
      /\ state.mode = "schedule" => p.rank = Rank /\ p.shape.good
  BY <1>1, <1>2, <1>3 DEF Healthy
<1>5. faults' \in 0..MaxFaults
  BY <1>1, <1>3, FaultTyped
<1>6. Queue(proposals)' /\ proposals' \in SUBSET Entries
  BY <1>1, <1>3 DEF Queue
<1>7. p.rank \in Ranks
  BY <1>4 DEF Proposals
<1>8. ASSUME state' = WaitingForBatch, Votes', submitted' \subseteq Ranks, signFailed' \in BOOLEAN
      PROVE  IInv'
  <2>1. Healthy(Current)' /\ Turn(Current)' /\ InTurn' /\ BestFirst'
    BY <1>3, <1>6, <1>8, Idle
  <2>2. Rounds'
    BY <1>1, <1>5, <1>8 DEF Rounds
  <2> QED
    BY <1>6, <1>8, <2>1, <2>2 DEF IInv
<1>9. CASE state' = WaitingForBatch /\ UNCHANGED voteVars
  <2>1. UNCHANGED <<submitted, signed, published, signFailed>>
    BY <1>9 DEF voteVars
  <2>2. Votes' /\ submitted' \subseteq Ranks /\ signFailed' \in BOOLEAN
    BY <1>1, <2>1, SameVotes DEF Rounds
  <2> QED
    BY <1>8, <1>9, <2>2
<1>10. CASE /\ state' = WaitingForBatch
            /\ \E ok \in BOOLEAN : Signed(p, ok) /\ (ok => p.shape.good)
            /\ published' = published \/ (published' = published + 1 /\ state.mode = "schedule")
  <2>1. PICK ok \in BOOLEAN : Signed(p, ok) /\ (ok => p.shape.good)
    BY <1>10
  <2>2. published' = published \/ (published' = published + 1 /\ p.rank = Rank)
    BY <1>4, <1>10
  <2>3. submitted' \subseteq Ranks /\ signFailed' \in BOOLEAN
    BY <1>1, <1>7, <2>1 DEF Rounds, Signed
  <2> HIDE DEF p
  <2>4. Votes'
    BY <1>1, <1>4, <2>1, <2>2, SignedVotes
  <2> QED
    BY <1>8, <1>10, <2>3, <2>4
<1>11. CASE /\ state' = WaitingForBatch \/ state' = state
            /\ signFailed' = TRUE /\ UNCHANGED <<signed, submitted>>
            /\ published' = published \/ published' = published + 1
  <2>1. published' \in Nat
    BY <1>1, <1>11 DEF Votes
  <2>2. Votes' /\ submitted' \subseteq Ranks /\ signFailed' \in BOOLEAN
    BY <1>1, <1>11, <2>1, FailedVotes DEF Rounds
  <2>3. CASE state' = WaitingForBatch
    BY <1>8, <2>2, <2>3
  <2>4. CASE state' = state
    <3>1. /\ Current'.state = state /\ Current'.job = NoJob /\ Current'.processed = <<>>
          /\ Current' \in Works
      BY <1>2, <1>3, <1>6, <2>4, StatesTyped DEF Current, Works
    <3>2. Rank' = Rank /\ state # WaitingForBatch
      BY <1>1, <1>3, StatesTyped DEF Rank, SchedulerRank
    <3>3. Healthy(Current)'
      BY <1>1, <1>3, <1>4, <1>11, <3>1, <3>2 DEF Healthy
    <3>4. Rounds'
      BY <1>1, <1>5, <1>11, <2>2 DEF Rounds
    <3>5. Turn(Current)' /\ InTurn' /\ BestFirst'
      BY <1>1, <3>1 DEF Turn, InTurn, BestFirst
    <3> QED
      BY <1>6, <2>2, <3>3, <3>4, <3>5 DEF IInv
  <2> QED
    BY <1>11, <2>3, <2>4
<1> QED
  BY <1>9, <1>10, <1>11, ResultOutcome

\* The goroutine hands over its result, or rejects the proposal.
LEMMA FinishStep == IInv /\ FinishJob => IInv'
<1> SUFFICES ASSUME IInv, FinishJob PROVE IInv'
  OBVIOUS
<1> DEFINE p == job.proposal
<1>1. /\ Rounds /\ Votes /\ Healthy(Current) /\ Queue(proposals) /\ BestFirst
      /\ UNCHANGED <<state, round, next, pruned, schedulerRank, poolRank, discrepancy, pc, reselect>>
      /\ UNCHANGED <<submitted, signed, published, signFailed>> /\ job # NoJob /\ job' = NoJob
  BY DEF IInv, FinishJob, roundVars, rankVars, voteVars
<1>2. /\ Current.state = state /\ Current.job = job /\ Current.processed = processed
      /\ Current.proposals = proposals /\ Current \in Works
  BY <1>1 DEF Current, Healthy
<1>3. /\ processed = <<>> /\ state.name = "ProcessingBatch" /\ state.proposal = p /\ state.mode = job.mode
      /\ state \in States /\ job \in Jobs
  BY <1>1, <1>2 DEF Healthy, Works
<1>4. /\ p \in Proposals /\ p.round = round /\ p.rank \notin submitted
      /\ state.mode = "schedule" => p.rank = Rank /\ p.shape.good
  BY <1>1, <1>2, <1>3 DEF Healthy
<1>5. PICK k \in Kinds : /\ processed' = Append(processed, Result(k, p))
                         /\ k = "computed" => ~(job.mode = "execute" /\ ~p.shape.good)
                         /\ proposals' = proposals \/ proposals' = Reject(proposals, p)
                         /\ Fault \/ UNCHANGED faults
  <2>1. "none" \in Kinds /\ "computed" \in Kinds /\ "none" # "computed"
    BY DEF Kinds
  <2> QED
    BY <2>1 DEF FinishJob
<1>6. k = "computed" => p.shape.good
  <2>1. job.mode \in {"execute", "schedule"}
    BY <1>1, <1>2 DEF Healthy
  <2> QED
    BY <1>3, <1>4, <1>5, <2>1
<1>7. Result(k, p) \in Results /\ Append(processed, Result(k, p)) = <<Result(k, p)>>
  BY <1>3, <1>4 DEF Result, Results
<1>8. processed' = <<Result(k, p)>> /\ processed' # <<>> /\ processed' \in Seq(Results)
  BY <1>5, <1>7
<1>9. Queue(proposals') /\ Shrinks(proposals', proposals)
  BY <1>1, <1>5, RejectQueue DEF Shrinks
<1>10. /\ Current' \in Works /\ Current'.state = state /\ Current'.job = NoJob
       /\ Current'.processed = processed'
  BY <1>1, <1>3, <1>8, <1>9, StatesTyped DEF Current, Works, Queue
<1>11. Rank' = Rank /\ Limit' = Limit /\ state # WaitingForBatch
  BY <1>1, <1>3, StatesTyped DEF Rank, SchedulerRank, Limit
<1>12. Healthy(Current)'
  BY <1>1, <1>3, <1>4, <1>6, <1>8, <1>10, <1>11 DEF Healthy
<1>13. Rounds'
  BY <1>1, <1>5, FaultTyped DEF Rounds
<1>14. Votes' /\ Queue(proposals)'
  BY <1>1, <1>9, SameVotes DEF Queue
<1>15. Turn(Current)' /\ InTurn'
  BY <1>1, <1>10 DEF Turn, InTurn
<1>16. BestFirst'
  <2>1. Eligible(proposals', 0, Limit) \subseteq Eligible(proposals, 0, Limit)
    BY <1>9, EligibleShrinks
  <2>2. Eligible(proposals, 0, Limit)' = Eligible(proposals', 0, Limit)
    BY <1>1, <1>11 DEF Eligible
  <2> QED
    BY <1>1, <2>1, <2>2 DEF BestFirst
<1> QED
  BY <1>12, <1>13, <1>14, <1>15, <1>16 DEF IInv
-----------------------------------------------------------------------------
(***************************************************************************)
(* P2P and blocks.                                                           *)
(***************************************************************************)
LEMMA MessageStep ==
    ASSUME IInv, NEW p \in [round : 1..MaxRound, rank : Ranks, shape : Shapes], HandleMessage(p)
    PROVE  IInv'
<1> DEFINE q == Add(proposals, p)
<1>1. /\ Rounds /\ Votes /\ Healthy(Current) /\ Queue(proposals) /\ InTurn /\ BestFirst
      /\ discrepancy = NoDiscrepancy => Turn(Current)
      /\ UNCHANGED <<state, job, processed, round, next, pruned, schedulerRank, poolRank, discrepancy>>
      /\ UNCHANGED <<submitted, signed, published, signFailed, pc, faults>>
      /\ Get(proposals, p) = {} /\ proposals' = q /\ reselect' = (reselect \/ Get(q, p) # {})
  BY DEF IInv, HandleMessage, roundVars, rankVars, voteVars
<1>2. Queue(q) /\ \A e \in q : e \in proposals \/ Get(q, p) # {}
  BY <1>1, AddQueue
<1> HIDE DEF q
<1>3. /\ Current \in Works /\ Current.state = state /\ Current.job = job /\ Current.processed = processed
  BY <1>1 DEF Current, Healthy
<1>4. /\ Current' \in Works /\ Current'.state = state /\ Current'.job = job /\ Current'.processed = processed
  BY <1>1, <1>2, <1>3 DEF Current, Works, Queue
<1>5. Rank' = Rank /\ Limit' = Limit
  BY <1>1 DEF Rank, SchedulerRank, Limit
<1>6. Healthy(Current)'
  BY <1>1, <1>3, <1>4, <1>5 DEF Healthy
<1>7. reselect' \in BOOLEAN /\ (reselect => reselect')
  BY <1>1 DEF Rounds
<1>8. Rounds'
  BY <1>1, <1>7 DEF Rounds
<1>9. Votes' /\ Queue(proposals)'
  BY <1>1, <1>2, SameVotes DEF Queue
<1>10. discrepancy' = NoDiscrepancy => Turn(Current)'
  BY <1>1, <1>3, <1>4, <1>5 DEF Turn
<1>11. InTurn'
  BY <1>1, <1>5 DEF InTurn
<1>12. BestFirst'
  <2> SUFFICES ASSUME pc = "select", discrepancy = NoDiscrepancy, Worker,
                      state.name \in {"ProcessingBatch", "WaitingForTxs"},
                      NEW e \in Eligible(proposals, 0, Limit)', e.rank < state.proposal.rank
               PROVE  reselect'
    BY <1>1 DEF BestFirst
  <2>1. /\ e \in q /\ e.round = round /\ e.rank \in 0..Limit /\ ~e.invalid /\ e.rank \notin submitted
    BY <1>1, <1>5 DEF Eligible
  <2>2. CASE e \in proposals
    <3>1. e \in Eligible(proposals, 0, Limit)
      BY <2>1, <2>2 DEF Eligible
    <3>2. reselect
      BY <1>1, <3>1 DEF BestFirst
    <3> QED
      BY <1>7, <3>2
  <2>3. CASE Get(q, p) # {}
    BY <1>1, <2>3
  <2> QED
    BY <1>2, <2>1, <2>2, <2>3
<1> QED
  BY <1>6, <1>8, <1>9, <1>10, <1>11, <1>12 DEF IInv

LEMMA DispatchStep == IInv /\ HandleNewDispatchInfo => IInv'
<1> SUFFICES ASSUME IInv, HandleNewDispatchInfo PROVE IInv'
  OBVIOUS
<1>1. /\ Rounds /\ Votes /\ Healthy(Current) /\ Queue(proposals) /\ InTurn /\ BestFirst
      /\ discrepancy = NoDiscrepancy => Turn(Current)
      /\ UNCHANGED <<state, job, processed, proposals, round, pruned, schedulerRank, poolRank, discrepancy>>
      /\ UNCHANGED <<submitted, signed, published, signFailed, reselect, pc, faults>>
  BY DEF IInv, HandleNewDispatchInfo, workVars, rankVars, voteVars
<1>2. Max({round, next}) \in {round, next}
  <2>1. round \in Int /\ next \in Int
    BY <1>1 DEF Rounds
  <2>2. \E x \in {round, next} : \A y \in {round, next} : x >= y
    BY <2>1
  <2> QED
    BY <2>2 DEF Max
<1>3. next' \in 0..MaxRound
  <2>1. round \in Nat /\ next \in Nat /\ MaxRound \in Nat
    BY <1>1, ExecutorAssumed DEF Rounds, ExecutorAssumption
  <2>2. next' = Max({round, next}) + 1 /\ next' <= MaxRound
    BY DEF HandleNewDispatchInfo
  <2> QED
    BY <1>2, <2>1, <2>2
<1>4. Current' = Current /\ Rank' = Rank /\ Limit' = Limit
  BY <1>1 DEF Current, Rank, SchedulerRank, Limit
<1>5. Healthy(Current)'
  BY <1>1, <1>4 DEF Healthy
<1>6. Rounds'
  BY <1>1, <1>3 DEF Rounds
<1>7. Votes' /\ Queue(proposals)'
  BY <1>1, SameVotes DEF Queue
<1>8. discrepancy' = NoDiscrepancy => Turn(Current)'
  BY <1>1, <1>4 DEF Turn
<1>9. InTurn'
  BY <1>1, <1>4 DEF InTurn
<1>10. BestFirst'
  BY <1>1, <1>4 DEF BestFirst, Eligible
<1> QED
  BY <1>5, <1>6, <1>7, <1>8, <1>9, <1>10 DEF IInv

LEMMA SubQueue ==
    ASSUME NEW q, Queue(q), NEW r, r \subseteq q
    PROVE  Queue(r)
<1>1. IsFiniteSet(r) /\ Cardinality(r) <= Cardinality(q)
  BY FS_Subset DEF Queue
<1>2. Cardinality(r) \in Nat /\ Cardinality(q) \in Nat
  BY <1>1, FS_CardinalityType DEF Queue
<1>3. Cardinality(q) <= MaxPendingProposals /\ MaxPendingProposals \in Nat
  BY ExecutorAssumed DEF Queue, ExecutorAssumption
<1>4. Cardinality(r) <= MaxPendingProposals
  BY <1>1, <1>2, <1>3
<1> QED
  BY <1>1, <1>4 DEF Queue

LEMMA RoundStep == IInv /\ StartRound => IInv'
<1> SUFFICES ASSUME IInv, StartRound PROVE IInv'
  OBVIOUS
<1>1. Rounds /\ Healthy(Current) /\ Queue(proposals)
  BY DEF IInv
<1>2. PICK w \in ResetNodeState(Current) : Becomes([w EXCEPT !.proposals = Prune(w.proposals, next)])
  BY DEF StartRound
<1>3. Current.state = state /\ Current.proposals = proposals /\ Current \in Works
  BY <1>1 DEF Current, Healthy
<1>4. /\ w \in Works /\ w.state = WaitingForBatch /\ w.job = NoJob /\ w.processed = <<>> /\ Queue(w.proposals)
  <2>1. CASE state.name = "WaitingForBatch"
    <3>1. w = Current
      BY <1>2, <1>3, <2>1 DEF ResetNodeState
    <3> QED
      BY <1>1, <1>3, <2>1, <3>1, Quiet DEF Healthy
  <2>2. CASE state.name = "ProcessingBatch"
    <3>1. PICK a \in AbortBatch(Current) : w = TransitionState(a, WaitingForBatch)
      BY <1>2, <1>3, <2>2 DEF ResetNodeState
    <3>2. a \in Works /\ a.state = state /\ a.job = NoJob /\ a.processed = <<>> /\ Queue(a.proposals)
      BY <1>1, <1>3, Aborted
    <3>3. a.state.name # "Panicked"
      BY <2>2, <3>2
    <3>4. Healthy(w) /\ w.state = WaitingForBatch /\ w.job = NoJob /\ w.processed = <<>> /\ w.proposals = a.proposals
      BY <3>1, <3>2, <3>3, ToWaiting
    <3> QED
      BY <3>2, <3>4 DEF Healthy
  <2>3. CASE state.name \notin {"WaitingForBatch", "ProcessingBatch"}
    <3>1. w = TransitionState(Current, WaitingForBatch)
      BY <1>2, <1>3, <2>3 DEF ResetNodeState
    <3>2. Current.job = NoJob /\ Current.processed = <<>> /\ Current.state.name # "Panicked"
      BY <1>1, <1>3, <2>3, Quiet DEF Healthy
    <3>3. Healthy(w) /\ w.state = WaitingForBatch /\ w.job = NoJob /\ w.processed = <<>> /\ w.proposals = proposals
      BY <1>3, <3>1, <3>2, ToWaiting
    <3> QED
      BY <1>1, <3>3 DEF Healthy
  <2> QED
    BY <2>1, <2>2, <2>3
<1>5. Prune(w.proposals, next) \subseteq w.proposals
  BY DEF Prune
<1>6. Queue(Prune(w.proposals, next))
  BY <1>4, <1>5, SubQueue
<1>7. state' = WaitingForBatch /\ job' = NoJob /\ processed' = <<>> /\ proposals' = Prune(w.proposals, next)
  BY <1>2, <1>4 DEF Becomes, Works
<1>8. Queue(proposals)' /\ proposals' \in SUBSET Entries
  BY <1>6, <1>7 DEF Queue
<1>9. Healthy(Current)' /\ Turn(Current)' /\ InTurn' /\ BestFirst'
  BY <1>7, <1>8, Idle
<1>10. /\ round' = next /\ next' = 0 /\ pruned' = next /\ next # 0
       /\ schedulerRank' = 0 /\ poolRank' = NoRank /\ discrepancy' = NoDiscrepancy
       /\ submitted' = {} /\ signed' = <<>> /\ published' = 0 /\ signFailed' = FALSE
       /\ pc' \in {"top", "skipped"} /\ reselect' \in {FALSE, reselect} /\ (Fault \/ UNCHANGED faults)
  BY DEF StartRound
<1>11. /\ round' \in 0..MaxRound /\ next' \in 0..MaxRound /\ pruned' \in 0..MaxRound /\ round' # 0
       /\ schedulerRank' \in 0..Schedulers /\ faults' \in 0..MaxFaults /\ reselect' \in BOOLEAN
  <2>1. /\ next \in 0..MaxRound /\ MaxRound \in Nat /\ Schedulers \in Nat /\ reselect \in BOOLEAN
    BY <1>1, ExecutorAssumed DEF Rounds, ExecutorAssumption
  <2>2. faults' \in 0..MaxFaults
    BY <1>1, <1>10, FaultTyped
  <2>3. reselect' \in BOOLEAN
    BY <1>10, <2>1
  <2> QED
    BY <1>10, <2>1, <2>2, <2>3
<1>12. Rounds'
  BY <1>7, <1>10, <1>11 DEF Rounds
<1>13. Votes'
  BY <1>10 DEF Votes, VotesOnce
<1> QED
  BY <1>8, <1>9, <1>12, <1>13 DEF IInv
-----------------------------------------------------------------------------
(***************************************************************************)
(* The theorems.                                                             *)
(***************************************************************************)
LEMMA NextInv == IInv /\ [Next]_vars => IInv'
<1> SUFFICES ASSUME IInv, [Next]_vars PROVE IInv'
  OBVIOUS
<1>1. CASE Top
  BY <1>1, TopStep
<1>2. CASE \E r \in Ranks : HandleEvent(r) \/ EstimatePoolRank(r) \/ PredictDiscrepancy(r)
  BY <1>2, RankEvents
<1>3. CASE \E n \in 1..MaxBatchSize : HandleTransactions(n)
  BY <1>3, TransactionsStep
<1>4. CASE Tick \/ Flush \/ Reselect
  BY <1>4, ClockEvents
<1>5. CASE HandleProcessedBatch
  BY <1>5, ResultStep
<1>6. CASE FinishJob
  BY <1>6, FinishStep
<1>7. CASE \E r \in {round, round + 1}, k \in Ranks, s \in Shapes :
               r \in 1..MaxRound /\ HandleMessage([round |-> r, rank |-> k, shape |-> s])
  <2>1. PICK r \in 1..MaxRound, k \in Ranks, s \in Shapes : HandleMessage([round |-> r, rank |-> k, shape |-> s])
    BY <1>7
  <2>2. [round |-> r, rank |-> k, shape |-> s] \in [round : 1..MaxRound, rank : Ranks, shape : Shapes]
    OBVIOUS
  <2> QED
    BY <2>1, <2>2, MessageStep
<1>8. CASE HandleNewDispatchInfo
  BY <1>8, DispatchStep
<1>9. CASE StartRound
  BY <1>9, RoundStep
<1>10. CASE UNCHANGED vars
  <2>1. /\ UNCHANGED <<state, job, processed, proposals, round, next, pruned, schedulerRank, poolRank, discrepancy>>
        /\ UNCHANGED <<submitted, signed, published, signFailed, pc, reselect, faults>>
    BY <1>10 DEF vars, workVars, roundVars, rankVars, voteVars
  <2>2. Current' = Current /\ Rank' = Rank /\ Limit' = Limit
    BY <2>1 DEF Current, Rank, SchedulerRank, Limit
  <2>3. Rounds' /\ Votes' /\ Queue(proposals)'
    BY <2>1, SameVotes DEF IInv, Rounds, Queue
  <2>4. Healthy(Current)'
    BY <2>1, <2>2 DEF IInv, Healthy
  <2>5. (discrepancy' = NoDiscrepancy => Turn(Current)') /\ InTurn'
    BY <2>1, <2>2 DEF IInv, Turn, InTurn
  <2>6. BestFirst'
    BY <2>1, <2>2 DEF IInv, BestFirst, Eligible
  <2> QED
    BY <2>3, <2>4, <2>5, <2>6 DEF IInv
<1> QED
  BY <1>1, <1>2, <1>3, <1>4, <1>5, <1>6, <1>7, <1>8, <1>9, <1>10 DEF Next

\* The inductive invariant: the state of the worker, the goroutine and the
\* channel agree, the queue is bounded, and ranks with a commitment are known.
THEOREM Invariance == Spec => []IInv
<1>1. Init => IInv
  BY InitInv
<1>2. IInv /\ [Next]_vars => IInv'
  BY NextInv
<1> QED
  BY <1>1, <1>2, PTL DEF Spec

LEMMA InvTyped == IInv => TypeOK
<1> SUFFICES ASSUME IInv PROVE TypeOK
  OBVIOUS
<1>1. Rounds /\ Healthy(Current) /\ Queue(proposals)
  BY DEF IInv
<1>2. Current.state = state /\ Current.job = job /\ Current \in Works
  BY <1>1 DEF Current, Healthy
<1>3. state \in States /\ job \in Jobs
  BY <1>2 DEF Works
<1>4. state.name \in Names /\ state.proposal \in Proposals \cup {NoProposal} /\ job.proposal \in Proposals \cup {NoProposal}
  BY <1>3 DEF States, Jobs
<1>5. DOMAIN ValidStateTransitions = Names
  BY DEF ValidStateTransitions, Names
<1>6. discrepancy.rank \in Ranks \cup {NoRank}
  BY <1>1 DEF Rounds, NoDiscrepancy
<1> QED
  BY <1>1, <1>4, <1>5, <1>6 DEF TypeOK, Rounds, Queue, Entries

\* The state is well-typed; the queue of proposals keeps its bound.
THEOREM TypeCorrect == Spec => []TypeOK
BY Invariance, InvTyped, PTL

\* In whatever order proposals, transactions, discrepancies, results and blocks
\* arrive, the worker and its goroutine never wait for each other and never make
\* an invalid transition, a batch is never forgotten, no rank gets two
\* commitments in a round, and batches are executed in turn, the best one first.
THEOREM AlwaysCommitsRight == Spec => []CommitmentsRight
<1>1. IInv => CommitmentsRight
  <2> SUFFICES ASSUME IInv PROVE CommitmentsRight
    OBVIOUS
  <2>1. Healthy(Current) /\ VotesOnce /\ InTurn /\ BestFirst
    BY DEF IInv, Votes
  <2>2. /\ Current.state = state /\ Current.job = job /\ Current.processed = processed
    BY DEF Current
  <2>3. Len(processed) <= 1
    <3>1. processed = <<>> \/ \E k \in Kinds : processed = <<Result(k, state.proposal)>>
      BY <2>1, <2>2 DEF Healthy
    <3>2. CASE processed = <<>>
      BY <3>2
    <3>3. ASSUME NEW r, processed = <<r>> PROVE Len(processed) <= 1
      BY <3>3
    <3> QED
      BY <3>1, <3>2, <3>3
  <2>4. NeverBlocks
    BY <2>1, <2>2, <2>3 DEF Healthy, NeverBlocks
  <2>5. NeverForgotten
    BY <2>1, <2>2 DEF Healthy, NeverForgotten
  <2> QED
    BY <2>1, <2>4, <2>5 DEF CommitmentsRight
<1> QED
  BY <1>1, Invariance, PTL
=============================================================================

------------------------------- MODULE Executor -------------------------------
(***************************************************************************)
(* The executor worker of a compute node: a round worker that is restarted   *)
(* with every runtime block and chooses, from the proposals that P2P queues, *)
(* the one to commit to, or schedules one itself.  Batches are executed by a  *)
(* goroutine of their own, whose result comes back through a channel, while  *)
(* better proposals, discrepancies and new blocks arrive.                    *)
(*                                                                         *)
(* A proposal is its round, the rank of its scheduler and the shape of its    *)
(* batch: the number of transactions, the bytes of each, whether its I/O root *)
(* is the one of the header and whether it builds on the last block.  The     *)
(* rank of a scheduler stands for the scheduler; NoRank is math.MaxUint64.   *)
(***************************************************************************)
EXTENDS Integers, Sequences, FiniteSets, FiniteSetsExt

CONSTANTS Worker, Backup,        \* the roles of the node
          Schedulers,            \* number of workers in the committee
          Position,              \* the position of the node among them
          Shapes, OwnShape,      \* of proposals: [txs, weight, good, linked]
          MaxBatchSize, MaxBatchSizeBytes,
          MaxPendingProposals,
          MaxRound, MaxFaults    \* bounds

NoRank == Schedulers + 1
Ranks  == 0..Schedulers - 1

ExecutorAssumption ==
    /\ Worker \in BOOLEAN /\ Backup \in BOOLEAN /\ (Worker \/ Backup)
    /\ Schedulers \in Nat \ {0} /\ Position \in Ranks
    /\ Shapes \subseteq [txs : Nat, weight : Nat, good : BOOLEAN, linked : BOOLEAN]
    /\ OwnShape \in [txs : Nat, weight : Nat, good : {TRUE}, linked : {TRUE}]
    /\ MaxBatchSize \in Nat /\ MaxBatchSizeBytes \in Nat /\ MaxPendingProposals \in Nat \ {0}
    /\ MaxRound \in Nat \ {0} /\ MaxFaults \in Nat

ASSUME ExecutorAssumed == ExecutorAssumption

VARIABLES
    round, next,      \* the round worked on; the one in dispatchInfoCh, or 0
    pc,               \* of the round worker: "top", "select" or "skipped"
    state, job, processed,  \* NodeState, the goroutine at work, processedBatchCh
    proposals, pruned,      \* proposalQueue: its entries, its round
    reselect,         \* whether reselectCh holds a notification
    schedulerRank, poolRank, flush,
    discrepancy, predicted,  \* the discrepancy; whether commitPool found one
    submitted,        \* ranks
    signed, published,  \* commitments signed and proposals published in the round
    signFailed,       \* whether signing failed in the round
    faults

workVars  == <<state, job, processed, proposals>>
roundVars == <<round, next, pruned>>
rankVars  == <<schedulerRank, poolRank, flush, discrepancy, predicted>>
voteVars  == <<submitted, signed, published, signFailed>>
vars == <<workVars, roundVars, rankVars, voteVars, pc, reselect, faults>>

-----------------------------------------------------------------------------
(* States, jobs and results.                                               *)

Proposals == [round : 1..MaxRound + 1, rank : Ranks, shape : Shapes \cup {OwnShape}]

NoProposal == [round |-> 0, rank |-> NoRank, shape |-> OwnShape]

WaitingForBatch == [name |-> "WaitingForBatch", proposal |-> NoProposal, bytes |-> 0, missing |-> 0, mode |-> "none"]
WaitingForTxs(p, known) ==
    [name |-> "WaitingForTxs", proposal |-> p, bytes |-> known * p.shape.weight,
     missing |-> p.shape.txs - known, mode |-> "none"]
WaitingForEvent(p) == [WaitingForBatch EXCEPT !.name = "WaitingForEvent", !.proposal = p]
ProcessingBatch(p, mode) ==
    [WaitingForBatch EXCEPT !.name = "ProcessingBatch", !.proposal = p, !.mode = mode]
Panicked == [WaitingForBatch EXCEPT !.name = "Panicked"]

ValidStateTransitions ==
    [WaitingForBatch |-> {"WaitingForBatch", "ProcessingBatch", "WaitingForEvent", "WaitingForTxs"},
     WaitingForTxs   |-> {"WaitingForBatch", "WaitingForEvent", "ProcessingBatch"},
     WaitingForEvent |-> {"WaitingForBatch", "ProcessingBatch"},
     ProcessingBatch |-> {"WaitingForBatch"},
     Panicked        |-> {}]

NoJob == [mode |-> "none", proposal |-> NoProposal]

\* What processedBatchCh holds: no batch at all, a batch that cannot be
\* processed, or a computed one.
Result(kind, p) == [kind |-> kind, proposal |-> p]

NoDiscrepancy == [rank |-> NoRank, authoritative |-> FALSE]

TooMany(s) == s.txs > MaxBatchSize
TooHeavy(bytes) == MaxBatchSizeBytes > 0 /\ bytes > MaxBatchSizeBytes

SchedulerRank(r) == IF Worker THEN (r + Position) % Schedulers ELSE NoRank
Rank == SchedulerRank(round)

-----------------------------------------------------------------------------
(* The queue of proposals.                                                 *)

Before(a, b) == a.round < b.round \/ (a.round = b.round /\ a.rank < b.rank)

\* Candidates of the round between two ranks, the best one first.
Eligible(q, lo, hi) ==
    {e \in q : e.round = round /\ e.rank \in lo..hi /\ ~e.invalid /\ e.rank \notin submitted}
Best(q, lo, hi) ==
    LET E == Eligible(q, lo, hi)
        b == CHOOSE e \in E : \A f \in E : e.rank <= f.rank
    IN IF E = {} THEN NoProposal ELSE [round |-> b.round, rank |-> b.rank, shape |-> b.shape]

Get(q, p) == {e \in q : e.round = p.round /\ e.rank = p.rank}
Reject(q, p) == (q \ Get(q, p)) \cup {[e EXCEPT !.invalid = TRUE] : e \in Get(q, p)}

\* The queue with a proposal; on overflow the one furthest in the future goes.
Add(q, p) ==
    LET all  == q \cup {[round |-> p.round, rank |-> p.rank, shape |-> p.shape, invalid |-> FALSE]}
        last == CHOOSE e \in all : \A f \in all \ {e} : Before(f, e)
    IN IF Cardinality(all) <= MaxPendingProposals THEN all ELSE all \ {last}

-----------------------------------------------------------------------------
(* What the round worker does with its state, as a function of a record of    *)
(* the state, the goroutine, the channel and the queue: goroutines that it    *)
(* stops may still reject their proposal, so there may be several outcomes.   *)

Current == [state |-> state, job |-> job, processed |-> processed, proposals |-> proposals]

Becomes(w) ==
    /\ state' = w.state /\ job' = w.job /\ processed' = w.processed /\ proposals' = w.proposals

TransitionState(w, s) ==
    [w EXCEPT !.state = IF s.name \in ValidStateTransitions[w.state.name] THEN s ELSE Panicked]

TransitionStateToProcessing(w, p) ==
    [TransitionState(w, ProcessingBatch(p, "execute"))
        EXCEPT !.job = [mode |-> "execute", proposal |-> p]]

TransitionStateToProcessingFailure(w, p) ==
    [TransitionState(w, ProcessingBatch(p, "execute"))
        EXCEPT !.processed = Append(w.processed, Result("failed", p))]

\* The goroutine is waited for, and its result thrown away.
AbortBatchMutant(w) == {[w EXCEPT !.job = NoJob]}
AbortBatch(w) ==
    {[w EXCEPT !.job = NoJob, !.processed = <<>>, !.proposals = q] :
        q \in {w.proposals} \cup
              IF w.job.mode = "execute" /\ ~w.job.proposal.shape.good
              THEN {Reject(w.proposals, w.job.proposal)} ELSE {}}

ResolvedMutant(w, p, disputed) == TransitionStateToProcessing(w, p)
\* Backup workers wait until there is a discrepancy.
Resolved(w, p, disputed) ==
    IF ~Worker /\ Backup /\ ~disputed THEN TransitionState(w, WaitingForEvent(p))
    ELSE TransitionStateToProcessing(w, p)

UpdateState(w, lo, hi, disputed) ==
    LET s   == w.state
        out == s.proposal.rank \notin lo..hi
    IN CASE s.name = "WaitingForTxs" ->
                {IF out THEN TransitionState(w, WaitingForBatch)
                 ELSE IF TooHeavy(s.bytes) THEN TransitionStateToProcessingFailure(w, s.proposal)
                 ELSE IF s.missing = 0 THEN Resolved(w, s.proposal, disputed)
                 ELSE w}
         [] s.name = "WaitingForEvent" ->
                {IF out THEN TransitionState(w, WaitingForBatch)
                 ELSE IF disputed THEN TransitionStateToProcessing(w, s.proposal)
                 ELSE w}
         [] s.name = "ProcessingBatch" /\ out ->
                {TransitionState(a, WaitingForBatch) : a \in AbortBatch(w)}
         [] OTHER -> {w}

\* The transaction pool knows some of the transactions of the batch.
ProcessProposal(w, p, disputed) ==
    IF w.state.name # "WaitingForBatch" \/ p.rank \in submitted \/ (disputed /\ ~Backup) THEN {w}
    ELSE {IF TooMany(p.shape) \/ TooHeavy(known * p.shape.weight)
          THEN TransitionStateToProcessingFailure(w, p)
          ELSE IF known < p.shape.txs THEN TransitionState(w, WaitingForTxs(p, known))
          ELSE IF ~p.shape.linked THEN w
          ELSE Resolved(w, p, disputed) : known \in 0..p.shape.txs}

\* There may be no reason to schedule a batch, unless it is forced, or none may
\* be allowed: an epoch transition is next, or the runtime does not answer.
ScheduleBatch(w) ==
    LET own == [round |-> round, rank |-> Rank, shape |-> OwnShape]
    IN IF w.state.name # "WaitingForBatch" \/ Rank \in submitted \/ ~Worker THEN {w}
       ELSE {w, [TransitionState(w, ProcessingBatch(own, "schedule"))
                    EXCEPT !.job = [mode |-> "schedule", proposal |-> own]]}

-----------------------------------------------------------------------------
(* The round worker.                                                       *)

Limit == Min({schedulerRank, poolRank, Rank})

\* The top of the loop without a discrepancy.
Select ==
    LET p == Best(proposals, 0, Limit)
    IN IF p # NoProposal /\ p.rank < Rank
       THEN UNION {ProcessProposal(u, p, FALSE) : u \in UpdateState(Current, 0, p.rank, FALSE)}
       ELSE IF Rank <= Limit
       THEN UNION {ScheduleBatch(u) : u \in UpdateState(Current, 0, Rank, FALSE)}
       ELSE {Current}

\* And with one.
SelectDisputed ==
    LET d == discrepancy.rank
        Then(u) == LET p == Best(u.proposals, d, d)
                   IN IF p # NoProposal THEN ProcessProposal(u, p, TRUE)
                      ELSE IF Rank = d THEN ScheduleBatch(u)
                      ELSE {u}
    IN UNION {Then(u) : u \in UpdateState(Current, d, d, TRUE)}

Top ==
    /\ pc = "top"
    /\ \E w \in IF discrepancy = NoDiscrepancy THEN Select ELSE SelectDisputed : Becomes(w)
    /\ pc' = "select"
    /\ UNCHANGED <<roundVars, rankVars, voteVars, reselect, faults>>

\* A case of the select statement.
Event == pc = "select" /\ pc' = "top"

\* Consensus announces at most one discrepancy in a round.
HandleDiscrepancy(d) ==
    discrepancy' = IF discrepancy.authoritative THEN discrepancy ELSE d

HandleEvent(rank) ==
    /\ Event
    /\ ~discrepancy.authoritative
    /\ HandleDiscrepancy([rank |-> rank, authoritative |-> TRUE])
    /\ UNCHANGED <<workVars, roundVars, voteVars, schedulerRank, poolRank, flush, predicted, reselect, faults>>

\* A commitment of a scheduler, from consensus or observed before it is there.
EstimatePoolRank(rank) ==
    /\ Event
    /\ Worker /\ rank < poolRank
    /\ poolRank' = rank
    /\ UNCHANGED <<workVars, roundVars, voteVars, schedulerRank, flush, discrepancy, predicted, reselect, faults>>

\* Observed commitments add up to a discrepancy (see CommitmentPool).
PredictDiscrepancy(rank) ==
    /\ Event
    /\ ~Worker /\ Backup /\ ~predicted
    /\ predicted' = TRUE
    /\ HandleDiscrepancy([rank |-> rank, authoritative |-> FALSE])
    /\ UNCHANGED <<workVars, roundVars, voteVars, schedulerRank, poolRank, flush, reselect, faults>>

\* Missing transactions arrive, checked by the pool or fetched from peers.  The
\* bytes are added to a copy of the state.
HandleTransactions(n) ==
    /\ Event
    /\ state.name = "WaitingForTxs" /\ n \in 1..state.missing
    /\ state' = [state EXCEPT !.missing = @ - n]
    /\ UNCHANGED <<job, processed, proposals, roundVars, rankVars, voteVars, reselect, faults>>

Tick ==
    /\ Event
    /\ schedulerRank < Schedulers
    /\ schedulerRank' = schedulerRank + 1
    /\ UNCHANGED <<workVars, roundVars, voteVars, poolRank, flush, discrepancy, predicted, reselect, faults>>

Flush ==
    /\ Event
    /\ ~flush /\ flush' = TRUE
    /\ UNCHANGED <<workVars, roundVars, voteVars, schedulerRank, poolRank, discrepancy, predicted, reselect, faults>>

Reselect ==
    /\ Event
    /\ reselect /\ reselect' = FALSE
    /\ UNCHANGED <<workVars, roundVars, rankVars, voteVars, faults>>

-----------------------------------------------------------------------------
(* Results.                                                                *)

Fault == faults < MaxFaults /\ faults' = faults + 1

Signed(p, ok) ==
    /\ signed' = Append(signed, [proposal |-> p, ok |-> ok])
    /\ submitted' = submitted \cup {p.rank}
    /\ UNCHANGED signFailed

SignFails == Fault /\ signFailed' = TRUE /\ UNCHANGED <<signed, submitted>>

\* A batch that cannot be processed gets a commitment that says so.
SubmitFailure(p) ==
    /\ \E w \in AbortBatch([Current EXCEPT !.processed = Tail(processed)]) :
           Becomes(TransitionState(w, WaitingForBatch))
    /\ \/ Signed(p, FALSE) /\ UNCHANGED faults
       \/ SignFails
    /\ UNCHANGED published

\* The write logs are stored, then the commitment is signed and submitted; the
\* state stays as it is when that fails.
ProposeBatch(p) ==
    LET w == [Current EXCEPT !.processed = Tail(processed)]
    IN \/ Becomes(TransitionState(w, WaitingForBatch)) /\ Signed(p, TRUE) /\ UNCHANGED faults
       \/ /\ \E a \in AbortBatch(w) : Becomes(TransitionState(a, WaitingForBatch))
          /\ Signed(p, FALSE) /\ Fault
       \/ (\E a \in AbortBatch(w) : Becomes(a)) /\ SignFails

HandleProcessedBatch ==
    /\ Event
    /\ processed # <<>>
    /\ LET b == Head(processed)
           w == [Current EXCEPT !.processed = Tail(processed)]
       IN CASE state.name # "ProcessingBatch" ->
                   Becomes(w) /\ UNCHANGED <<voteVars, faults>>
            [] state.name = "ProcessingBatch" /\ b.kind = "none" ->
                   Becomes(TransitionState(w, WaitingForBatch)) /\ UNCHANGED <<voteVars, faults>>
            [] state.name = "ProcessingBatch" /\ b.kind = "failed" ->
                   SubmitFailure(b.proposal)
            [] state.name = "ProcessingBatch" /\ b.kind = "computed" /\ state.mode = "schedule" ->
                   \/ Becomes(w) /\ SignFails /\ UNCHANGED published
                   \/ ProposeBatch(b.proposal) /\ published' = published + 1
            [] OTHER ->
                   ProposeBatch(b.proposal) /\ UNCHANGED published
    /\ UNCHANGED <<roundVars, rankVars, reselect>>

\* The goroutine hands over its result; an I/O root that is not the one of the
\* header makes it reject the proposal.
FinishJob ==
    LET p    == job.proposal
        Send(kind) == processed' = Append(processed, Result(kind, p))
    IN /\ job # NoJob
       /\ job' = NoJob
       /\ \/ Fault /\ Send("none") /\ UNCHANGED proposals
          \/ /\ UNCHANGED faults
             /\ IF job.mode = "execute" /\ ~p.shape.good
                THEN Send("none") /\ proposals' = Reject(proposals, p)
                ELSE Send("computed") /\ UNCHANGED proposals
       /\ UNCHANGED <<state, roundVars, rankVars, voteVars, pc, reselect>>

-----------------------------------------------------------------------------
(* P2P and blocks.                                                         *)

HandleMessageMutant(p) ==
    /\ p.rank # SchedulerRank(p.round)
    /\ Get(proposals, p) = {} /\ p.round >= pruned
    /\ proposals' = Add(proposals, p)
    /\ UNCHANGED <<state, job, processed, roundVars, rankVars, voteVars, pc, reselect, faults>>
HandleMessage(p) ==
    LET q == Add(proposals, p)
    IN /\ p.rank # SchedulerRank(p.round)
       /\ Get(proposals, p) = {} /\ p.round >= pruned
       /\ proposals' = q
       /\ reselect' = (reselect \/ Get(q, p) # {})
       /\ UNCHANGED <<state, job, processed, roundVars, rankVars, voteVars, pc, faults>>

HandleNewDispatchInfo ==
    /\ next' = Max({round, next}) + 1
    /\ next' <= MaxRound
    /\ UNCHANGED <<round, pruned, workVars, rankVars, voteVars, pc, reselect, faults>>

ResetNodeState(w) ==
    CASE w.state.name = "WaitingForBatch" -> {w}
      [] w.state.name = "ProcessingBatch" -> {TransitionState(a, WaitingForBatch) : a \in AbortBatch(w)}
      [] OTHER -> {TransitionState(w, WaitingForBatch)}

Prune(q, r) == {e \in q : e.round >= r}

\* The round worker is stopped and started for the next block; the state of the
\* round may not be available.  What its channels hold may get lost.
StartRound ==
    /\ pc \in {"select", "skipped"} /\ next # 0
    /\ round' = next /\ next' = 0
    /\ \E w \in ResetNodeState(Current) :
           Becomes([w EXCEPT !.proposals = Prune(w.proposals, next)])
    /\ pruned' = next
    /\ schedulerRank' = 0 /\ poolRank' = NoRank /\ flush' = FALSE
    /\ discrepancy' = NoDiscrepancy /\ predicted' = FALSE
    /\ submitted' = {} /\ signed' = <<>> /\ published' = 0 /\ signFailed' = FALSE
    /\ \/ pc' = "top" /\ UNCHANGED faults /\ reselect' \in {FALSE, reselect}
       \/ pc' = "skipped" /\ Fault /\ reselect' = FALSE

Init ==
    /\ round = 0 /\ next = 1 /\ pc = "skipped"
    /\ state = WaitingForBatch /\ job = NoJob /\ processed = <<>>
    /\ proposals = {} /\ pruned = 0 /\ reselect = FALSE
    /\ schedulerRank = 0 /\ poolRank = NoRank /\ flush = FALSE
    /\ discrepancy = NoDiscrepancy /\ predicted = FALSE
    /\ submitted = {} /\ signed = <<>> /\ published = 0 /\ signFailed = FALSE
    /\ faults = 0

Next ==
    \/ Top
    \/ \E r \in Ranks : HandleEvent(r)
    \/ \E r \in Ranks : EstimatePoolRank(r)
    \/ \E r \in Ranks : PredictDiscrepancy(r)
    \/ \E n \in 1..MaxBatchSize : HandleTransactions(n)
    \/ Tick
    \/ Flush
    \/ Reselect
    \/ HandleProcessedBatch
    \/ FinishJob
    \/ \E r \in {round, round + 1}, k \in Ranks, s \in Shapes :
           r \in 1..MaxRound /\ HandleMessage([round |-> r, rank |-> k, shape |-> s])
    \/ HandleNewDispatchInfo
    \/ StartRound

Spec == Init /\ [][Next]_vars

-----------------------------------------------------------------------------
(* Properties.                                                             *)

\* Every variable stays in its type.
TypeOK ==
    /\ round \in 0..MaxRound /\ next \in 0..MaxRound /\ pruned \in 0..MaxRound
    /\ pc \in {"top", "select", "skipped"}
    /\ state.name \in DOMAIN ValidStateTransitions
    /\ state.proposal \in Proposals \cup {NoProposal} /\ job.proposal \in Proposals \cup {NoProposal}
    /\ proposals \subseteq [round : 1..MaxRound, rank : Ranks, shape : Shapes, invalid : BOOLEAN]
    /\ Cardinality(proposals) <= MaxPendingProposals
    /\ schedulerRank \in 0..Schedulers /\ poolRank \in Ranks \cup {NoRank}
    /\ discrepancy.rank \in Ranks \cup {NoRank} /\ submitted \subseteq Ranks
    /\ faults \in 0..MaxFaults

\* The round worker and its goroutines never wait for each other: a goroutine
\* runs only in state ProcessingBatch, with an empty channel to send its result
\* to, and no transition is invalid (transitionState would panic).
NeverBlocks ==
    /\ Len(processed) <= 1
    /\ job # NoJob => processed = <<>> /\ state.name = "ProcessingBatch" /\ state.proposal = job.proposal
    /\ processed # <<>> => state.name = "ProcessingBatch"
    /\ state.name # "Panicked"

\* A batch that is being processed comes to an end: it is with a goroutine or its
\* result is in the channel, unless signing has failed, which leaves the node in
\* ProcessingBatch until the round is over.
NeverForgotten ==
    state.name = "ProcessingBatch" => job # NoJob \/ processed # <<>> \/ signFailed

\* In a round the node signs at most one commitment for each rank and publishes
\* at most one proposal, each for a batch of the round with the right I/O root.
\* (The commitment of a published proposal that could not be signed is forgotten,
\* and another batch may be scheduled in its place.)
VotesOnce ==
    /\ \A i, j \in DOMAIN signed : signed[i].proposal.rank = signed[j].proposal.rank => i = j
    /\ \A i \in DOMAIN signed :
           /\ signed[i].proposal.round = round
           /\ signed[i].ok => signed[i].proposal.shape.good
    /\ published <= 1 \/ signFailed

\* A batch is executed only by whose turn it is: under a discrepancy the disputed
\* one; without, one of a scheduler whose time has come, by workers alone.
InTurn ==
    pc = "select" /\ job # NoJob =>
        IF discrepancy # NoDiscrepancy THEN job.proposal.rank = discrepancy.rank
        ELSE Worker /\ job.proposal.rank <= Min({schedulerRank, Rank})

\* No proposal is overlooked: when a better one than the batch at hand can be
\* taken up the round worker has been notified.
BestFirst ==
    pc = "select" /\ discrepancy = NoDiscrepancy /\ state.name \in {"ProcessingBatch", "WaitingForTxs"}
    /\ Worker =>
        \A e \in Eligible(proposals, 0, Limit) : e.rank < state.proposal.rank => reselect

\* Whatever arrives while a batch is executed, the worker and its goroutines
\* never block or panic, no batch is forgotten, each rank gets one commitment,
\* and batches are executed in turn, the best proposal first.
CommitmentsRight == NeverBlocks /\ NeverForgotten /\ VotesOnce /\ InTurn /\ BestFirst

\* A commitment with results is never signed for a batch with too many bytes,
\* which "All workers should indicate failure immediately" for (node.go:250).
HeavyBatchesRefused ==
    \A i \in DOMAIN signed :
        signed[i].ok => ~TooHeavy(signed[i].proposal.shape.txs * signed[i].proposal.shape.weight)

\* A proposal of the first scheduler that can be executed gets a commitment,
\* unless the round ends, its batch is disputed or signing fails.
Executable(p) ==
    /\ Worker /\ pc # "skipped" /\ 0 # Rank /\ p.round = round
    /\ p \in proposals /\ p.rank = 0 /\ p.shape.good /\ p.shape.linked
    /\ ~TooMany(p.shape) /\ ~TooHeavy(p.shape.txs * p.shape.weight)
Answered(p) ==
    0 \in submitted \/ round # p.round \/ discrepancy # NoDiscrepancy \/ signFailed
=============================================================================

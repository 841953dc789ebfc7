-------------------------------- MODULE ABCIMux --------------------------------
(***************************************************************************)
(* The ABCI multiplexer of a node.  While a height is being agreed on it     *)
(* executes the blocks that are proposed, its own and those of others, on a  *)
(* branch of the state and keeps the last one with its results; when a block *)
(* is decided it uses what it kept if that is the same block, and executes   *)
(* the block otherwise.  Commit makes the branch the state.  A worker prunes *)
(* old versions, which lets CometBFT discard old blocks.  The node may crash *)
(* at any time, and the power may fail, which takes back the versions of the *)
(* state that were not synced.                                               *)
(***************************************************************************)
EXTENDS Integers, Sequences, SequencesExt

CONSTANTS Own, Others,       \* the blocks this node and the others may propose
          Bad,               \* those whose execution panics
          NumTxs,            \* user transactions in a block
          KeepN,             \* versions the pruner keeps
          MaxHeight, MaxFaults   \* bounds

ABCIMuxAssumption ==
    /\ Bad \subseteq Own \cup Others /\ NumTxs \in [Own \cup Others -> Nat]
    /\ KeepN \in Nat \ {0} /\ MaxHeight \in Nat /\ MaxFaults \in Nat

ASSUME ABCIMuxAssumed == ABCIMuxAssumption

Blocks == Own \cup Others
NoBlock == <<0, "none">>
Ended == -1

VARIABLES
    chain, base,     \* CometBFT: the decided blocks, and the first it has kept
    stage,           \* of the decided block: 0, or 1 + the transactions delivered, or Ended
    returned,        \* the results returned to CometBFT for it
    stateRoot,       \* the last committed version: [height, tree]
    initState,       \* the genesis state is still needed: no block is committed
    canonicalState,  \* the tree the next proposal is a branch of
    proposal,        \* the proposal and its results
    verdict,         \* the last answer of ProcessProposal
    synced,          \* what a power failure leaves: [height, tree, earliest]
    earliest, latest, lastRetained, pruned,   \* the pruner
    known,           \* the pruner has read the earliest version since the start
    exposed,         \* history: it has let blocks go that a replay from synced needs
    indexed,         \* the last height a prune handler is done with
    faults, panicked

vars == <<chain, base, stage, returned, stateRoot, initState, canonicalState, proposal,
          verdict, synced, earliest, latest, lastRetained, pruned, known, exposed, indexed, faults, panicked>>

chainVars == <<chain, base, stage, returned>>
stateVars == <<stateRoot, initState, synced>>
pruneVars == <<earliest, latest, lastRetained, pruned, known, exposed, indexed>>

-----------------------------------------------------------------------------
(***************************************************************************)
(* A tree is the sequence of the steps it is the result of.                  *)
(***************************************************************************)
Genesis == << <<<<0, "genesis">>, 0>> >>

\* The steps that change the state; the transaction with the metadata does not.
Execute(b) == [i \in 1..NumTxs[b[2]] + 2 |-> <<b, i - 1>>]

\* The results: of BeginBlock, the transactions, the metadata and EndBlock.
Results(b) == [i \in 1..NumTxs[b[2]] + 3 |-> <<b, i - 1>>]

NilProposal == [hash |-> NoBlock, header |-> NoBlock, tree |-> <<>>, results |-> <<>>, executed |-> FALSE, nil |-> TRUE]

Fresh(tree) == [NilProposal EXCEPT !.tree = tree, !.nil = FALSE]

RestoredMutant == stateRoot.tree

\* resetProposal replaces the canonical state that it has given away.
Restored == IF initState THEN Genesis ELSE stateRoot.tree

Height == stateRoot.height + 1

\* A proposal that was executed: executeProposal sets all results at the end.
Executed(hash, header, tree, b) ==
    [hash |-> hash, header |-> header, tree |-> tree \o Execute(b), results |-> Results(b),
     executed |-> TRUE, nil |-> FALSE]

NeedsExecution(p) == ~p.executed

-----------------------------------------------------------------------------
Proposing == stage = 0 /\ Len(chain) = stateRoot.height /\ ~panicked /\ Height <= MaxHeight

\* PrepareProposal; when an application panics the proposal is reset.
PrepareProposal(id) ==
    LET b == <<Height, id>> IN
    /\ Proposing
    /\ proposal' = IF id \in Bad THEN Fresh(Restored)
                   ELSE Executed(NoBlock, b, canonicalState, b)
    /\ canonicalState' = Restored
    /\ UNCHANGED <<chainVars, stateVars, pruneVars, verdict, faults, panicked>>

IsEqualMutant(p, b) == p.header # NoBlock

IsEqual(p, b) == p.header = b

\* ProcessProposal: what was prepared is not executed again; a panic rejects.
ProcessProposal(id) ==
    LET b      == <<Height, id>>
        cached == ~proposal.nil /\ ~NeedsExecution(proposal) /\ IsEqual(proposal, b)
    IN /\ Proposing
       /\ verdict' = [block |-> b, accept |-> cached \/ id \notin Bad]
       /\ proposal' = IF cached THEN [proposal EXCEPT !.hash = b]
                      ELSE IF id \in Bad THEN Fresh(Restored)
                      ELSE Executed(b, NoBlock, canonicalState, b)
       /\ canonicalState' = IF cached THEN canonicalState ELSE Restored
       /\ UNCHANGED <<chainVars, stateVars, pruneVars, faults, panicked>>

\* CometBFT decides on a block; it is saved before it is applied.
Decide(id) ==
    /\ Proposing /\ id \notin Bad
    /\ chain' = Append(chain, <<Height, id>>)
    /\ UNCHANGED <<base, stage, returned, stateVars, pruneVars, canonicalState, proposal, verdict, faults, panicked>>

-----------------------------------------------------------------------------
(***************************************************************************)
(* The decided block.                                                        *)
(***************************************************************************)
Decided == chain[Height]
Applying == Len(chain) > stateRoot.height /\ ~panicked

\* resetProposalIfChanged.
Changed(p, b) == p.nil \/ p.hash # b

BeginBlock ==
    LET changed == Changed(proposal, Decided)
        p       == IF changed THEN [Fresh(canonicalState) EXCEPT !.hash = Decided] ELSE proposal
    IN /\ Applying /\ stage = 0
       /\ canonicalState' = IF changed THEN Restored ELSE canonicalState
       /\ IF NeedsExecution(p)
          THEN /\ proposal' = [p EXCEPT !.tree = Append(@, <<Decided, 0>>)]
               /\ returned' = <<<<Decided, 0>>>>
          ELSE /\ proposal' = [p EXCEPT !.results = Tail(@)]
               /\ returned' = <<Head(p.results)>>
       /\ stage' = 1
       /\ UNCHANGED <<chain, base, stateVars, pruneVars, verdict, faults, panicked>>

\* DeliverTx; the last transaction is the metadata.
DeliverTx ==
    LET i == stage IN
    /\ Applying /\ stage \in 1..NumTxs[Decided[2]] + 1
    /\ stage' = stage + 1
    /\ IF NeedsExecution(proposal)
       THEN /\ proposal' = IF i <= NumTxs[Decided[2]]
                           THEN [proposal EXCEPT !.tree = Append(@, <<Decided, i>>)] ELSE proposal
            /\ returned' = Append(returned, <<Decided, i>>)
            /\ UNCHANGED panicked
       ELSE IF Len(proposal.results) <= 1
       THEN panicked' = TRUE /\ UNCHANGED <<proposal, returned>>
       ELSE /\ proposal' = [proposal EXCEPT !.results = Tail(@)]
            /\ returned' = Append(returned, Head(proposal.results))
            /\ UNCHANGED panicked
    /\ UNCHANGED <<chain, base, stateVars, pruneVars, canonicalState, verdict, faults>>

EndBlock ==
    /\ Applying /\ stage = NumTxs[Decided[2]] + 2
    /\ IF NeedsExecution(proposal)
       THEN /\ proposal' = [proposal EXCEPT !.tree = Append(@, <<Decided, NumTxs[Decided[2]] + 1>>)]
            /\ returned' = Append(returned, <<Decided, stage>>)
            /\ stage' = Ended /\ UNCHANGED panicked
       ELSE IF Len(proposal.results) # 1
       THEN panicked' = TRUE /\ UNCHANGED <<stage, proposal, returned>>
       ELSE /\ returned' = Append(returned, Head(proposal.results))
            /\ stage' = Ended /\ UNCHANGED <<panicked, proposal>>
    /\ UNCHANGED <<chain, base, stateVars, pruneVars, canonicalState, verdict, faults>>

\* What doCommit returns to CometBFT, which discards the blocks below it.
RetainHeight == lastRetained

Commit ==
    /\ Applying /\ stage = Ended
    /\ stateRoot' = [height |-> Height, tree |-> proposal.tree]
    /\ canonicalState' = proposal.tree
    /\ initState' = FALSE /\ proposal' = NilProposal
    /\ latest' = Height
    /\ base' = IF RetainHeight > base THEN RetainHeight ELSE base
    /\ stage' = 0 /\ returned' = <<>>
    /\ earliest' = IF earliest = 0 THEN Height ELSE earliest
    /\ UNCHANGED <<chain, synced, lastRetained, pruned, known, exposed, indexed, verdict, faults, panicked>>

-----------------------------------------------------------------------------
(***************************************************************************)
(* The pruner: the versions go first, then the database is synced, and only  *)
(* then are blocks let go; but the first call after a start lets go of the   *)
(* blocks before the version it finds in the database, synced or not.        *)
(***************************************************************************)
CanPrune(v) == v <= indexed

Prune ==
    LET stop == {v \in earliest..latest : v >= latest - KeepN \/ ~CanPrune(v)}
    IN /\ latest # 0 /\ latest >= KeepN /\ earliest # 0 /\ pruned = 0 /\ ~panicked
       /\ earliest' = CHOOSE v \in stop : \A w \in stop : v <= w
       /\ latest' = 0
       /\ pruned' = earliest'
       /\ known' = TRUE
       /\ lastRetained' = IF known THEN lastRetained ELSE earliest
       /\ exposed' = (exposed \/ (~known /\ earliest > synced.height + 1))
       /\ UNCHANGED <<chainVars, stateVars, canonicalState, proposal, verdict, indexed, faults, panicked>>

\* ndb.Sync makes every version that is committed durable.
Sync == [height |-> stateRoot.height, tree |-> stateRoot.tree, earliest |-> earliest]

PruneDone ==
    /\ pruned # 0 /\ ~panicked
    /\ synced' = Sync /\ lastRetained' = pruned /\ pruned' = 0
    /\ exposed' = FALSE
    /\ UNCHANGED <<chainVars, stateRoot, initState, canonicalState, proposal, verdict,
                   earliest, latest, known, indexed, faults, panicked>>

\* A prune handler (the runtime histories) reads the state of the next height.
Index ==
    /\ indexed < stateRoot.height /\ indexed' = indexed + 1
    /\ UNCHANGED <<chainVars, stateVars, canonicalState, proposal, verdict,
                   earliest, latest, lastRetained, pruned, known, exposed, faults, panicked>>

-----------------------------------------------------------------------------
(***************************************************************************)
(* Restart: newApplicationState with what the database has; without a        *)
(* committed block CometBFT calls InitChain again.  CometBFT refuses to      *)
(* start when it no longer has the block after the last committed one, and   *)
(* the node is lost: that fault is not taken.                                *)
(***************************************************************************)
RestartFrom(root) ==
    /\ faults < MaxFaults /\ faults' = faults + 1
    /\ ~panicked
    /\ base <= root.height + 1
    /\ stateRoot' = root
    /\ initState' = (root.height = 0)
    /\ canonicalState' = IF root.height = 0 THEN Genesis ELSE root.tree
    /\ proposal' = NilProposal
    /\ stage' = 0 /\ returned' = <<>>
    /\ lastRetained' = 0 /\ pruned' = 0 /\ latest' = 0 /\ known' = FALSE
    /\ UNCHANGED <<chain, base, synced, exposed, indexed, verdict, panicked>>

Crash == RestartFrom(stateRoot) /\ UNCHANGED earliest

PowerFailure ==
    /\ RestartFrom([height |-> synced.height, tree |-> synced.tree])
    /\ earliest' = synced.earliest

Init ==
    /\ chain = <<>> /\ base = 1 /\ stage = 0 /\ returned = <<>>
    /\ stateRoot = [height |-> 0, tree |-> <<>>]
    /\ initState = TRUE /\ canonicalState = Genesis /\ proposal = NilProposal
    /\ verdict = [block |-> NoBlock, accept |-> FALSE]
    /\ synced = [height |-> 0, tree |-> <<>>, earliest |-> 0]
    /\ earliest = 0 /\ latest = 0 /\ lastRetained = 0 /\ pruned = 0 /\ indexed = 0
    /\ known = FALSE /\ exposed = FALSE
    /\ faults = 0 /\ panicked = FALSE

Next ==
    \/ \E id \in Own : PrepareProposal(id)
    \/ \E id \in Blocks : ProcessProposal(id) \/ Decide(id)
    \/ BeginBlock \/ DeliverTx \/ EndBlock \/ Commit
    \/ Prune \/ PruneDone \/ Index
    \/ Crash \/ PowerFailure

Spec == Init /\ [][Next]_vars

-----------------------------------------------------------------------------
(***************************************************************************)
(* Properties.                                                              *)
(***************************************************************************)

Step == (Nat \X (Blocks \cup {"genesis"})) \X Nat

TypeOK ==
    /\ chain \in Seq((1..MaxHeight) \X Blocks) /\ Len(chain) \in stateRoot.height..MaxHeight
    /\ base \in 1..MaxHeight + 1 /\ stage \in Nat \cup {Ended} /\ returned \in Seq(Step)
    /\ stateRoot \in [height : 0..MaxHeight, tree : Seq(Step)]
    /\ initState \in BOOLEAN /\ canonicalState \in Seq(Step)
    /\ proposal \in [hash : Nat \X (Blocks \cup {"none"}), header : Nat \X (Blocks \cup {"none"}),
                     tree : Seq(Step), results : Seq(Step), executed : BOOLEAN, nil : BOOLEAN]
    /\ verdict \in [block : Nat \X (Blocks \cup {"none"}), accept : BOOLEAN]
    /\ synced \in [height : 0..stateRoot.height, tree : Seq(Step), earliest : 0..MaxHeight]
    /\ {earliest, latest, lastRetained, pruned, indexed} \subseteq 0..MaxHeight
    /\ known \in BOOLEAN /\ exposed \in BOOLEAN
    /\ faults \in 0..MaxFaults /\ panicked \in BOOLEAN

\* CometBFT gets the results of the block it decided on, kept or recomputed,
\* and the assertions on the kept results never fail.
ResultsOfDecided ==
    /\ ~panicked
    /\ stage # 0 => IsPrefix(returned, Results(Decided))
    /\ stage = Ended => returned = Results(Decided)

\* Whether a proposal is accepted depends on the block and on nothing that was
\* executed before it.
VerdictRight == verdict.accept <=> (verdict.block # NoBlock /\ verdict.block[2] \notin Bad)

\* After a power failure CometBFT still has the blocks to replay, except when a
\* pruner that was started after a crash has let blocks go and has not synced yet.
ReplayPossible == exposed \/ base <= synced.height + 1

\* A version is not pruned before the prune handlers are done with it.
HandlersFirst == indexed < stateRoot.height => earliest <= indexed + 1

\* CometBFT gets the results of the block it decided on, verdicts on proposals
\* depend on the proposal alone, and neither pruning nor its handlers lose what
\* a replay needs.
ExecutionRight == ResultsOfDecided /\ VerdictRight /\ ReplayPossible /\ HandlersFirst

\* The state as the ledger sees it: before the first commit it is the genesis state.
StateOf(root) == IF root.height = 0 THEN Genesis ELSE root.tree

L == INSTANCE Ledger WITH
    Block <- (1..MaxHeight) \X Blocks,
    log <- chain, applied <- stateRoot.height, state <- StateOf(stateRoot),
    durable <- [applied |-> synced.height, state |-> StateOf(synced)]

\* Whatever proposals are prepared, executed, accepted, rejected and dropped,
\* and wherever the node crashes or loses power, the committed state is the
\* decided blocks applied once each, in order, and what was synced is not lost.
ImplementsLedger == L!Spec
=============================================================================

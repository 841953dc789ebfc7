---------------------------- MODULE RoundRecords ----------------------------
(***************************************************************************)
(* What the roothash application records about the rounds of a runtime      *)
(* besides its current state: the state and I/O roots of past rounds        *)
(* (go/consensus/cometbft/apps/roothash/state/state.go) and the evidence of *)
(* equivocation that was acted upon (transactions.go, slashing.go).  How a  *)
(* round comes to its end is the subject of RootHash; here blocks are       *)
(* appended in any order of kinds.  Both records are pruned by consensus    *)
(* parameters that governance may change at any time.                       *)
(*                                                                          *)
(* A failed transaction is not rolled back by the ABCI multiplexer: what a  *)
(* handler wrote before it failed stays, unless the handler opened a        *)
(* transaction context of its own, which submitEvidence does not.           *)
(***************************************************************************)
EXTENDS Integers, FiniteSets

CONSTANTS
    Node,           \* public keys that may sign commitments and proposals
    Root,           \* state and I/O roots
    EmptyRoot,      \* hash of the empty tree
    GenesisRound,   \* runtime.Genesis.Round
    Ages,           \* values of MaxEvidenceAge that governance chooses from
    Limits,         \* values of MaxPastRootsStored that governance chooses from
    Modulus,        \* rounds and ages are unsigned integers below this, 2^64 in the code
    MaxRound        \* bound on runtime rounds

ASSUME RecordsAssumption ==
    /\ EmptyRoot \in Root
    /\ Modulus \in Nat \ {0}
    /\ Ages \subseteq 0 .. Modulus - 1 /\ Limits \subseteq 0 .. Modulus - 1
    /\ MaxRound \in 0 .. Modulus - 1
    /\ GenesisRound \in 0 .. MaxRound

VARIABLES
    suspended,      \* RuntimeState.Suspended
    round,          \* round of the last block
    roots,          \* state and I/O root of the last block
    maxAge,         \* consensus parameter MaxEvidenceAge
    maxStored,      \* consensus parameter MaxPastRootsStored
    pastRoots,      \* stored roots, a function on the rounds they are stored for
    evidence,       \* stored evidence hashes (a hash stands for the node) with their rounds
    registered,     \* nodes known to the registry
    chain,          \* history: the roots of every block
    punished,       \* history: how often a node was punished for a round
    raised          \* history: governance has raised MaxEvidenceAge

vars == <<suspended, round, roots, maxAge, maxStored, pastRoots, evidence,
          registered, chain, punished, raised>>

Roots == [state : Root, io : Root]

\* The round in an evidence is chosen by whoever submits it.
Evidence == [node : Node, round : 0 .. Modulus - 1]

-----------------------------------------------------------------------------
(* SetRuntimeState, which every change of the runtime's state goes through: *)
(* the roots of the last block are stored and the oldest ones make room.    *)
StoreRootsMutant(past, r, new, limit) ==
    IF limit = 0 THEN past
    ELSE LET kept == DOMAIN past \ {r - limit - 1} IN
         [q \in kept \cup {r} |-> IF q = r THEN new ELSE past[q]]

StoreAheadMutant(past, r, new, limit) ==
    IF limit = 0 THEN past
    ELSE LET kept == IF r >= limit THEN DOMAIN past \ {r - limit} ELSE DOMAIN past IN
         [q \in kept \cup {r + 1} |-> IF q = r + 1 THEN new ELSE past[q]]

StoreRoots(past, r, new, limit) ==
    IF limit = 0 THEN past
    ELSE LET kept == IF r >= limit THEN DOMAIN past \ {r - limit} ELSE DOMAIN past IN
         [q \in kept \cup {r} |-> IF q = r THEN new ELSE past[q]]

\* ShrinkPastRoots: the first keys are removed until `limit` of them are left.
ShrinkMutant(past, limit) ==
    [q \in {q \in DOMAIN past : Cardinality({p \in DOMAIN past : p < q})
                                  > Cardinality(DOMAIN past) - limit} |-> past[q]]

ShrinkPastRoots(past, limit) ==
    [q \in {q \in DOMAIN past : Cardinality({p \in DOMAIN past : p < q})
                                  >= Cardinality(DOMAIN past) - limit} |-> past[q]]

\* Without the check for rounds below the age the difference wraps around.
RemoveExpiredMutant(stored, r, age) == {e \in stored : e.round >= (r - age) % Modulus}

RemoveExpiredEvidence(stored, r, age) ==
    IF r > age THEN {e \in stored : e.round >= r - age} ELSE stored

Expired(e) == (e.round + maxAge) % Modulus < round

\* finalizeBlock: a Normal block has new roots, any other keeps the state root.
AppendBlock(new) ==
    /\ round < MaxRound
    /\ round' = round + 1 /\ roots' = new
    /\ pastRoots' = StoreRoots(pastRoots, round + 1, new, maxStored)
    /\ chain' = [r \in GenesisRound .. round + 1 |-> IF r = round + 1 THEN new ELSE chain[r]]

EmptyBlockRoots == [state |-> roots.state, io |-> EmptyRoot]

-----------------------------------------------------------------------------
Init ==
    /\ suspended = TRUE /\ round = GenesisRound
    /\ roots \in [state : Root, io : {EmptyRoot}]
    /\ maxAge \in Ages /\ maxStored \in Limits
    /\ pastRoots = StoreRoots([r \in {} |-> roots], GenesisRound, roots, maxStored)
    /\ evidence = {} /\ registered = {}
    /\ chain = [r \in {GenesisRound} |-> roots]
    /\ punished = [e \in Evidence |-> 0] /\ raised = FALSE

\* tryFinalizeRound: the round is finalized ...
FinalizeNormal(new) ==
    /\ ~suspended /\ AppendBlock(new)
    /\ UNCHANGED <<suspended, maxAge, maxStored, evidence, registered, punished, raised>>

\* ... or fails.
FailRound ==
    /\ ~suspended /\ AppendBlock(EmptyBlockRoots)
    /\ UNCHANGED <<suspended, maxAge, maxStored, evidence, registered, punished, raised>>

\* executorCommit (and a round that stays open) stores the runtime's state in the same round.
ExecutorCommit ==
    /\ ~suspended
    /\ pastRoots' = StoreRoots(pastRoots, round, roots, maxStored)
    /\ UNCHANGED <<suspended, round, roots, maxAge, maxStored, evidence, registered, chain,
                   punished, raised>>

\* onRuntimeCommitteeChanged: expired evidence is removed, then an empty block follows.
CommitteeChanged(suspend) ==
    /\ AppendBlock(EmptyBlockRoots)
    /\ evidence' = RemoveExpiredEvidence(evidence, round, maxAge)
    /\ suspended' = suspend
    /\ UNCHANGED <<maxAge, maxStored, registered, punished, raised>>

(* submitEvidence, for valid evidence and a runtime that slashes equivocation. *)
(* The evidence is stored first; if the node is not registered the transaction *)
(* fails after that.                                                           *)
SubmitEvidence(e) ==
    /\ ~suspended /\ ~Expired(e)
    /\ e \notin evidence
    /\ evidence' = evidence \cup {e}
    /\ punished' = IF e.node \in registered THEN [punished EXCEPT ![e] = @ + 1] ELSE punished
    /\ UNCHANGED <<suspended, round, roots, maxAge, maxStored, pastRoots, registered, chain, raised>>

\* changeParameters; an unset parameter of the proposal keeps its value.
ChangeParameters(age, limit) ==
    /\ <<age, limit>> # <<maxAge, maxStored>>
    /\ maxAge' = age /\ maxStored' = limit
    /\ pastRoots' = IF limit < maxStored THEN ShrinkPastRoots(pastRoots, limit) ELSE pastRoots
    /\ raised' = (raised \/ age > maxAge)
    /\ UNCHANGED <<suspended, round, roots, evidence, registered, chain, punished>>

\* Nodes register, and are removed some time after their registration expired.
RegisterNode(n) ==
    /\ n \notin registered
    /\ registered' = registered \cup {n}
    /\ UNCHANGED <<suspended, round, roots, maxAge, maxStored, pastRoots, evidence, chain,
                   punished, raised>>

RemoveNode(n) ==
    /\ n \in registered
    /\ registered' = registered \ {n}
    /\ UNCHANGED <<suspended, round, roots, maxAge, maxStored, pastRoots, evidence, chain,
                   punished, raised>>

Next ==
    \/ \E new \in Roots : FinalizeNormal(new)
    \/ FailRound
    \/ ExecutorCommit
    \/ \E suspend \in BOOLEAN : CommitteeChanged(suspend)
    \/ \E e \in Evidence : SubmitEvidence(e)
    \/ \E age \in Ages, limit \in Limits : ChangeParameters(age, limit)
    \/ \E n \in Node : RegisterNode(n) \/ RemoveNode(n)

Spec == Init /\ [][Next]_vars

-----------------------------------------------------------------------------
(*                               Properties                                *)

\* Every variable stays in its type.
TypeOK ==
    /\ suspended \in BOOLEAN /\ raised \in BOOLEAN
    /\ round \in GenesisRound .. MaxRound /\ roots \in Roots
    /\ maxAge \in Ages /\ maxStored \in Limits
    /\ DOMAIN pastRoots \subseteq GenesisRound .. round
    /\ evidence \subseteq Evidence /\ registered \subseteq Node
    /\ chain \in [GenesisRound .. round -> Roots]
    /\ punished \in [Evidence -> Nat]

(* Whatever governance does to MaxPastRootsStored, the stored roots are those *)
(* of the last blocks without a gap, at most as many as the parameter allows, *)
(* and a proof against them is a proof against the block of that round        *)
(* (SetRuntimeState removes a single round and counts on this).               *)
PastRootsWindow ==
    /\ \E first \in GenesisRound .. round + 1 : DOMAIN pastRoots = first .. round
    /\ Cardinality(DOMAIN pastRoots) <= maxStored
    /\ \A r \in DOMAIN pastRoots : pastRoots[r] = chain[r]

(* Roots are dropped only for want of room: a step that drops the roots of a  *)
(* past round leaves exactly as many as MaxPastRootsStored allows.            *)
RootsKeptStep ==
    \/ DOMAIN pastRoots \subseteq DOMAIN pastRoots'
    \/ Cardinality(DOMAIN pastRoots') = maxStored'

RootsKept == [][RootsKeptStep]_vars

(* A node is punished at most once for equivocating in a round: the evidence  *)
(* is remembered for as long as it may be submitted again.  Only raising      *)
(* MaxEvidenceAge can make evidence acceptable that was removed as expired.   *)
PunishedOnce == raised \/ \A e \in Evidence : punished[e] <= 1

(* Evidence that was stored led to a punishment.                              *)
StoredEvidencePunished == \A e \in evidence : punished[e] > 0
=============================================================================

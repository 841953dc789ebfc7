------------------------------- MODULE Scheduler -------------------------------
(***************************************************************************)
(* The scheduler application: the election of consensus validators by stake *)
(* and of a runtime's executor committee by lottery, and the hand-over of    *)
(* the validator set to CometBFT at the end of the block.  Escrow balances,  *)
(* VRF proofs, frozen nodes and the orders that hashed betas (or, in the     *)
(* fallback, per-epoch entropy) give to entities and nodes are inputs of an  *)
(* election.                                                                *)
(***************************************************************************)
EXTENDS Integers, FiniteSets, Sequences, SequencesExt

CONSTANTS Nodes, Entities,
          EntityOf,              \* node |-> its entity
          MaxStake,              \* bound on balances
          BaseUnitsPerVotingPower, \* of the linear distribution
          MinValidators, MaxValidators, MaxValidatorsPerEntity,
          Groups,                \* role |-> size of the group
          MaxNodes,              \* per entity and role, 0: no constraint
          ValidatorsOnly         \* the runtime's ValidatorSet constraint

SchedulerAssumption ==
    /\ IsFiniteSet(Nodes) /\ EntityOf \in [Nodes -> Entities]
    /\ MaxStake \in Nat /\ BaseUnitsPerVotingPower \in Nat \ {0}
    /\ MinValidators \in Nat \ {0}
    /\ MaxValidators \in Nat /\ MaxValidatorsPerEntity \in Nat /\ MaxNodes \in Nat
    /\ Groups \in [{"worker", "backup"} -> Nat]
    /\ ValidatorsOnly \in BOOLEAN

VARIABLES
    input,     \* of the election in this block: [stake, claims, pi, frozen]
    pending,   \* elected validator |-> voting power, or NoUpdate
    current,   \* the validators of the application's state
    cometbft,  \* the validators CometBFT uses
    committee, \* the members elected, in order: [node, role]
    failed

vars == <<input, pending, current, cometbft, committee, failed>>

NoInput == [stake |-> [e \in Entities |-> 0], claims |-> [e \in Entities |-> 0],
            pi |-> {}, frozen |-> {}]
NoUpdate == [n \in {} |-> 0]

NoFailure == "none"

\* All sequences that hold each element of S once.
Orders(S) == {f \in [1..Cardinality(S) -> S] : \A i, j \in DOMAIN f : f[i] = f[j] => i = j}

Before(order, x, y) == \E i, j \in DOMAIN order : i < j /\ order[i] = x /\ order[j] = y

\* The first nodes of each entity in an order, at most max of them.
FirstOfEntities(order, max) ==
    {n \in ToSet(order) :
        Cardinality({m \in ToSet(order) : EntityOf[m] = EntityOf[n] /\ Before(order, m, n)}) < max}

CheckStakeClaims(in, e) == in.stake[e] >= in.claims[e]

\* A validator without a whole unit of power still gets one.
VotingPowerFromStake(stake) ==
    IF stake < BaseUnitsPerVotingPower THEN 1 ELSE stake \div BaseUnitsPerVotingPower

-----------------------------------------------------------------------------
(***************************************************************************)
(* Validators.                                                              *)
(***************************************************************************)

EligibleValidators(in) == {n \in Nodes \ in.frozen : CheckStakeClaims(in, EntityOf[n])}

\* Entities by falling stake, ties in the order of the entropy.
ByStake(in) ==
    {o \in Orders({EntityOf[n] : n \in EligibleValidators(in)}) :
        \A i, j \in DOMAIN o : i < j => in.stake[o[i]] >= in.stake[o[j]]}

\* Nodes in the order of their hashed betas; without enough proofs all nodes,
\* in the order of the entropy.
ShuffledValidators(in) ==
    LET all    == EligibleValidators(in)
        proved == all \cap in.pi
    IN IF Cardinality(proved) < MinValidators THEN all ELSE proved

\* Entity by entity, at most so many nodes of each, until the set is full; a
\* seat is taken before the loop looks at the limit.
ElectLoop(entities, order) ==
    LET candidates == FirstOfEntities(order, MaxValidatorsPerEntity)
        ahead(n)   == {m \in candidates :
                          \/ Before(entities, EntityOf[m], EntityOf[n])
                          \/ EntityOf[m] = EntityOf[n] /\ Before(order, m, n)}
    IN {n \in candidates : ahead(n) = {} \/ Cardinality(ahead(n)) < MaxValidators}

ElectedPowers(in, elected) ==
    [n \in elected |-> VotingPowerFromStake(in.stake[EntityOf[n]])]

-----------------------------------------------------------------------------
(***************************************************************************)
(* The executor committee.                                                  *)
(***************************************************************************)

IsSuitable(in, n) ==
    /\ n \notin in.frozen
    /\ CheckStakeClaims(in, EntityOf[n])
    /\ n \in in.pi

NodesForRole(in, validatorEntities) ==
    {n \in Nodes : IsSuitable(in, n) /\ (ValidatorsOnly => EntityOf[n] \in validatorEntities)}

DedupEntityNodesMutant(order) == ToSet(order)

DedupEntityNodes(order) ==
    IF MaxNodes = 0 THEN ToSet(order) ELSE FirstOfEntities(order, MaxNodes)

\* The first nodes of an order of those left.  <<>> when there are too few.
ElectRole(role, order) ==
    IF Len(order) < Groups[role] THEN <<>>
    ELSE [i \in 1..Groups[role] |-> [node |-> order[i], role |-> role]]

\* One order for the removal of surplus nodes, and one for the election among
\* the rest.
RoleOutcomes(pool, role) ==
    UNION {{ElectRole(role, o) : o \in Orders(DedupEntityNodes(d))} : d \in Orders(pool)}

\* A group that cannot be filled, and one without workers, leaves the runtime
\* without a committee.
Assemble(w, b) ==
    IF Groups["worker"] = 0 \/ Len(w) # Groups["worker"] \/ Len(b) # Groups["backup"]
    THEN <<>> ELSE w \o b

-----------------------------------------------------------------------------
\* electValidators fails without enough validators, and with it the block.
ElectFailure(elected) ==
    IF elected = {} THEN "failed to elect any validators"
    ELSE IF Cardinality(elected) < MinValidators THEN "insufficient validators"
    ELSE NoFailure

ValidatorOutcomes(in) ==
    {ElectLoop(e, o) : e \in ByStake(in), o \in Orders(ShuffledValidators(in))}

\* BeginBlock with an epoch change or a slash.
Elect(in) ==
    /\ failed = NoFailure /\ pending = NoUpdate
    /\ \E elected \in ValidatorOutcomes(in) :
         LET pool == NodesForRole(in, {EntityOf[n] : n \in elected})
         IN /\ input' = in
            /\ failed' = ElectFailure(elected)
            /\ IF failed' # NoFailure THEN UNCHANGED <<pending, committee>>
               ELSE /\ pending' = ElectedPowers(in, elected)
                    /\ \E w \in RoleOutcomes(pool, "worker"), b \in RoleOutcomes(pool, "backup") :
                          committee' = Assemble(w, b)
    /\ UNCHANGED <<current, cometbft>>

\* Removed validators get no power, new and changed ones their new power.
DiffValidators(cur, pend) ==
    [n \in (DOMAIN cur \ DOMAIN pend) \cup
           {m \in DOMAIN pend : m \notin DOMAIN cur \/ cur[m] # pend[m]} |->
        IF n \in DOMAIN pend THEN pend[n] ELSE 0]

\* What CometBFT does with validator updates.
ApplyUpdates(set, upd) ==
    LET all == [n \in DOMAIN set \cup DOMAIN upd |->
                   IF n \in DOMAIN upd THEN upd[n] ELSE set[n]]
    IN [n \in {m \in DOMAIN all : all[m] > 0} |-> all[n]]

\* updateValidators at the end of the block.
EndBlock ==
    /\ failed = NoFailure /\ pending # NoUpdate
    /\ cometbft' = ApplyUpdates(cometbft, DiffValidators(current, pending))
    /\ current' = pending
    /\ pending' = NoUpdate
    /\ input' = NoInput
    /\ UNCHANGED <<committee, failed>>

\* What an election may find; every entity has one claim.
Inputs == [stake : [Entities -> 0..MaxStake], claims : {[e \in Entities |-> 1]},
           pi : SUBSET Nodes, frozen : SUBSET Nodes]

Init ==
    /\ input = NoInput
    /\ pending = NoUpdate /\ current = NoUpdate /\ cometbft = NoUpdate
    /\ committee = <<>> /\ failed = NoFailure

Next == (\E in \in Inputs : Elect(in)) \/ EndBlock

Spec == Init /\ [][Next]_vars

-----------------------------------------------------------------------------
(***************************************************************************)
(* Properties.                                                              *)
(***************************************************************************)

TypeOK ==
    /\ input \in Inputs \cup {NoInput}
    /\ \A n \in DOMAIN pending : pending[n] \in 1..MaxStake
    /\ \A i \in 1..Len(committee) :
           committee[i].node \in Nodes /\ committee[i].role \in DOMAIN Groups

\* The set CometBFT runs with is the one in the state of the application
\* after every sequence of elections: the differences that are sent never
\* lose a removal or a change of power.
ValidatorSetAgrees == cometbft = current

\* An entity that is left out has no more stake than one that got in, among
\* those with a node that took part in the shuffle.
HighestStakeElected ==
    pending # NoUpdate =>
        \A n \in DOMAIN pending, m \in ShuffledValidators(input) :
            EntityOf[m] \notin {EntityOf[x] : x \in DOMAIN pending}
                => input.stake[EntityOf[m]] <= input.stake[EntityOf[n]]

\* No entity has more validators, or more members of one role of a committee,
\* than the parameters allow.
EntityLimits ==
    /\ \A e \in Entities : Cardinality({n \in DOMAIN pending : EntityOf[n] = e})
                               <= MaxValidatorsPerEntity
    /\ MaxNodes > 0 => \A e \in Entities, r \in DOMAIN Groups :
           Cardinality({i \in DOMAIN committee : committee[i].role = r
                                                /\ EntityOf[committee[i].node] = e}) <= MaxNodes

\* A committee is complete or there is none: the workers come first, no node
\* has the same role twice, and under a ValidatorSet constraint every member's
\* entity also has a validator.
CommitteeComplete ==
    committee # <<>> =>
        /\ Len(committee) = Groups["worker"] + Groups["backup"]
        /\ \A i \in DOMAIN committee : committee[i].role = "worker" <=> i <= Groups["worker"]
        /\ \A i, j \in DOMAIN committee : committee[i] = committee[j] => i = j
        /\ ValidatorsOnly /\ pending # NoUpdate => \A i \in DOMAIN committee :
               EntityOf[committee[i].node] \in {EntityOf[n] : n \in DOMAIN pending}

\* "If not enough validators have submitted proofs to ensure that the minimum
\* committee size has been met, fall back" (scheduler/shuffle.go): an election
\* only fails for want of validators if all eligible nodes, with or without
\* proofs, could not have filled the minimum either.
FallbackEnsuresMinimum ==
    failed # NoFailure =>
        \A entities \in ByStake(input), order \in Orders(EligibleValidators(input)) :
            ElectFailure(ElectLoop(entities, order)) # NoFailure
=============================================================================

------------------------------ MODULE Governance ------------------------------
(***************************************************************************)
(* The governance application: proposals with their deposits, votes, the    *)
(* tally with delegators overriding their validators, the execution of       *)
(* passed proposals, and the pending upgrades.  A block with an epoch        *)
(* transition begins in BeginEpoch and ends in EndBlock; transactions come   *)
(* before, between and after.                                               *)
(***************************************************************************)
EXTENDS Integers, FiniteSets, Sequences, SequencesExt, FiniteSetsExt

CONSTANTS Accounts,        \* submitters and voters
          Entities,        \* those of them that may be validators
          Delegations,     \* [Accounts -> [Entities -> Nat]]: shares
          Balance,         \* [Entities -> Nat]: active escrow balance
          GenesisParams,   \* [votingPeriod, minDiff, cancelDiff, threshold, deposit]
          ParamChanges,    \* changes a proposal may ask for: [field, value]
          InitialBalance,
          MaxEpoch, MaxProposals   \* bounds

Votes == {"yes", "no", "abstain"}
NoVote == "none"

VARIABLES
    epoch,
    transition,   \* inside a block with an epoch transition
    validators,   \* entities of the current validators
    params,
    proposals,    \* identifier |-> proposal
    active,       \* the index of active proposals: <<closes at, identifier>>
    votes,        \* identifier |-> account |-> vote
    pending,      \* identifiers of pending upgrades
    general,      \* general balances
    deposits,     \* governance deposits
    pool,         \* common pool
    failed

vars == <<epoch, transition, validators, params, proposals, active, votes, pending,
          general, deposits, pool, failed>>

IDs == 1..MaxProposals
Total(f) == SumFunction(f)

Contents ==
    [kind : {"upgrade"}, epoch : 1..(MaxEpoch + 1)]
    \cup [kind : {"cancel"}, target : IDs]
    \cup [kind : {"change"}, change : ParamChanges]

AbsDiff(a, b) == IF a > b THEN a - b ELSE b - a

\* ConsensusParameters.SanityCheck.
ParamsSane(p) ==
    /\ p.threshold <= 100 /\ p.threshold > 66
    /\ p.votingPeriod < p.minDiff
    /\ p.votingPeriod < p.cancelDiff

Apply(p, change) == [p EXCEPT ![change.field] = change.value]

Fields == {"votingPeriod", "minDiff", "cancelDiff", "threshold", "deposit"}

\* The genesis document is refused when its parameters are not sane.
GovernanceAssumption ==
    /\ IsFiniteSet(Accounts) /\ Entities \subseteq Accounts
    /\ Delegations \in [Accounts -> [Entities -> Nat]]
    /\ Balance \in [Entities -> Nat]
    /\ GenesisParams \in [Fields -> Nat] /\ ParamsSane(GenesisParams)
    /\ ParamChanges \subseteq [field : Fields, value : Nat]
    /\ MaxEpoch \in Nat \ {0} /\ MaxProposals \in Nat /\ InitialBalance \in Nat

-----------------------------------------------------------------------------
(***************************************************************************)
(* Transactions.                                                            *)
(***************************************************************************)

\* No pending upgrade is too close to an upgrade in epoch e.
ClearOfPending(props, pend, p, e) ==
    \A id \in pend : AbsDiff(props[id].content.epoch, e) >= p.minDiff

ContentAcceptable(c) ==
    \/ /\ c.kind = "upgrade"
       /\ c.epoch >= params.minDiff + epoch
       /\ ClearOfPending(proposals, pending, params, c.epoch)
    \/ /\ c.kind = "cancel"
       /\ c.target \in pending
       /\ proposals[c.target].content.epoch >= params.cancelDiff + epoch
    \/ /\ c.kind = "change"
       /\ ParamsSane(Apply(params, c.change))

SubmitProposal(a, c) ==
    LET id == Cardinality(DOMAIN proposals) + 1
        p  == [content |-> c, submitter |-> a, deposit |-> params.deposit, state |-> "active",
               createdAt |-> epoch, closesAt |-> epoch + params.votingPeriod]
    IN /\ ~failed /\ id \in IDs
       /\ general[a] >= params.deposit
       /\ ContentAcceptable(c)
       /\ general' = [general EXCEPT ![a] = @ - params.deposit]
       /\ deposits' = deposits + params.deposit
       /\ proposals' = [i \in 1..id |-> IF i = id THEN p ELSE proposals[i]]
       /\ active' = active \cup {<<p.closesAt, id>>}
       /\ votes' = [i \in 1..id |-> IF i = id THEN [x \in Accounts |-> NoVote] ELSE votes[i]]
       /\ UNCHANGED <<epoch, transition, validators, params, pending, pool, failed>>

\* A validator's entity, or an account with a delegation to one.
Eligible(a) == a \in validators \/ \E v \in validators : Delegations[a][v] > 0

CastVoteGuardMutant(a, id) == Eligible(a)

CastVoteGuard(a, id) == Eligible(a) /\ proposals[id].state = "active"

CastVote(a, id, v) ==
    /\ ~failed
    /\ CastVoteGuard(a, id)
    /\ votes[id][a] # v
    /\ votes' = [votes EXCEPT ![id][a] = v]
    /\ UNCHANGED <<epoch, transition, validators, params, proposals, active, pending,
                   general, deposits, pool, failed>>

-----------------------------------------------------------------------------
(***************************************************************************)
(* The tally.                                                               *)
(***************************************************************************)

TotalShares(v) == Total([a \in Accounts |-> Delegations[a][v]])

StakeForShares(v, shares) ==
    IF shares = 0 \/ Balance[v] = 0 THEN 0 ELSE (shares * Balance[v]) \div TotalShares(v)

\* What one delegator's vote moves: its shares leave the validator's vote,
\* unless they agree.
DelegatorVote(tally, v, own, a, vote) ==
    IF own = vote THEN tally
    ELSE [x \in Votes |-> tally[x] + (IF x = vote THEN Delegations[a][v] ELSE 0)
                                   - (IF x = own THEN Delegations[a][v] ELSE 0)]

VoteSharesMutant(ballot, v) ==
    FoldLeft(LAMBDA t, a : IF ballot[a] = NoVote THEN t
                           ELSE DelegatorVote(t, v, NoVote, a, ballot[a]),
             [x \in Votes |-> IF x = ballot[v] THEN TotalShares(v) ELSE 0],
             SetToSeq(Accounts))

\* The shares of validator v for each vote: all with the validator's own
\* vote, then one delegator after the other.
VoteShares(ballot, v) ==
    FoldLeft(LAMBDA t, a : IF ballot[a] = NoVote \/ Delegations[a][v] = 0 THEN t
                           ELSE DelegatorVote(t, v, ballot[v], a, ballot[a]),
             [x \in Votes |-> IF x = ballot[v] THEN TotalShares(v) ELSE 0],
             SetToSeq(Accounts))

Results(ballot, vals) ==
    [x \in Votes |-> Total([v \in vals |-> StakeForShares(v, VoteShares(ballot, v)[x])])]

VotingStake(vals) == Total([v \in vals |-> Balance[v]])

\* The state of the proposal after Proposal.CloseProposal.
CloseState(ballot, vals, threshold) ==
    LET r == Results(ballot, vals)
        t == VotingStake(vals)
    IN IF t = 0 \/ r["yes"] + r["no"] + r["abstain"] > t THEN "error"
       ELSE IF r["yes"] = 0 \/ (r["yes"] * 100) \div t < threshold THEN "rejected"
       ELSE "passed"

-----------------------------------------------------------------------------
(***************************************************************************)
(* The end of an epoch transition block.  s: [props, act, pend, par, gen,    *)
(* dep, pl, fail].                                                           *)
(***************************************************************************)

ExecuteUpgrade(s, id) ==
    IF ClearOfPending(s.props, s.pend, s.par, s.props[id].content.epoch)
    THEN [s EXCEPT !.pend = @ \cup {id}, !.props[id].state = "passed"]
    ELSE [s EXCEPT !.props[id].state = "failed"]

ExecuteCancel(s, id) ==
    LET target == s.props[id].content.target
    IN IF target \in s.pend
       THEN [s EXCEPT !.pend = @ \ {target}, !.props[id].state = "passed"]
       ELSE [s EXCEPT !.props[id].state = "failed"]

\* The changes are validated against the parameters of this moment.
ExecuteChange(s, id) ==
    LET new == Apply(s.par, s.props[id].content.change)
    IN IF ParamsSane(new)
       THEN [s EXCEPT !.par = new, !.props[id].state = "passed"]
       ELSE [s EXCEPT !.props[id].state = "failed"]

ExecuteProposal(s, id) ==
    CASE s.props[id].content.kind = "upgrade" -> ExecuteUpgrade(s, id)
      [] s.props[id].content.kind = "cancel"  -> ExecuteCancel(s, id)
      [] s.props[id].content.kind = "change"  -> ExecuteChange(s, id)

\* The deposit of a rejected proposal is discarded, any other returned.
Settle(s, id) ==
    LET p == s.props[id]
    IN IF p.state = "rejected" THEN [s EXCEPT !.pl = @ + p.deposit, !.dep = @ - p.deposit]
       ELSE [s EXCEPT !.gen[p.submitter] = @ + p.deposit, !.dep = @ - p.deposit]

CloseProposal(s, id) ==
    LET closed == CloseState(votes[id], validators, s.par.threshold)
        t == IF closed = "passed" THEN ExecuteProposal(s, id)
             ELSE [s EXCEPT !.props[id].state = closed]
    IN IF s.fail \/ closed = "error" THEN [s EXCEPT !.fail = TRUE]
       ELSE [Settle(t, id) EXCEPT !.act = @ \ {<<s.props[id].closesAt, id>>}]

Closing == {i \in IDs : <<epoch, i>> \in active}

CloseDue(s, i) == IF i \in Closing THEN CloseProposal(s, i) ELSE s

\* The proposals to close, in the order of their keys.
CloseAll(s) == FoldLeft(CloseDue, s, [i \in IDs |-> i])

EndBlock ==
    LET s == CloseAll([props |-> proposals, act |-> active, pend |-> pending, par |-> params,
                       gen |-> general, dep |-> deposits, pl |-> pool,
                       fail |-> Closing # {} /\ VotingStake(validators) = 0])
    IN /\ ~failed /\ transition
       /\ transition' = FALSE
       /\ proposals' = s.props /\ active' = s.act /\ pending' = s.pend /\ params' = s.par
       /\ general' = s.gen /\ deposits' = s.dep /\ pool' = s.pl /\ failed' = s.fail
       /\ UNCHANGED <<epoch, validators, votes>>

\* A new epoch, with any validators.  The upgrades of this epoch have been
\* carried out (module Upgrade).
BeginEpoch(vals) ==
    /\ ~failed /\ ~transition /\ epoch < MaxEpoch
    /\ epoch' = epoch + 1
    /\ transition' = TRUE
    /\ validators' = vals
    /\ pending' = {id \in pending : proposals[id].content.epoch # epoch + 1}
    /\ UNCHANGED <<params, proposals, active, votes, general, deposits, pool, failed>>

-----------------------------------------------------------------------------
Init ==
    /\ epoch = 1 /\ transition = FALSE
    /\ validators = Entities
    /\ params = GenesisParams
    /\ proposals = <<>> /\ active = {} /\ votes = <<>> /\ pending = {}
    /\ general = [a \in Accounts |-> InitialBalance]
    /\ deposits = 0 /\ pool = 0 /\ failed = FALSE

Next ==
    \/ \E a \in Accounts, c \in Contents : SubmitProposal(a, c)
    \/ \E a \in Accounts, id \in DOMAIN proposals, v \in Votes : CastVote(a, id, v)
    \/ \E vals \in (SUBSET Entities) \ {{}} : BeginEpoch(vals)
    \/ EndBlock

Spec == Init /\ [][Next]_vars

-----------------------------------------------------------------------------
(***************************************************************************)
(* Properties.                                                              *)
(***************************************************************************)

TypeOK ==
    /\ epoch \in 1..MaxEpoch /\ transition \in BOOLEAN
    /\ validators \subseteq Entities
    /\ \A id \in DOMAIN proposals :
           proposals[id].state \in {"active", "passed", "rejected", "failed"}
    /\ votes \in [DOMAIN proposals -> [Accounts -> Votes \cup {NoVote}]]
    /\ pending \subseteq {id \in DOMAIN proposals : proposals[id].content.kind = "upgrade"}
    /\ deposits \in Nat /\ pool \in Nat /\ general \in [Accounts -> Nat]

\* Governance deposits are those of the active proposals, and no token is
\* lost between accounts, deposits and the common pool, whichever way several
\* proposals end in one block.
DepositsMatch ==
    ~failed =>
    /\ deposits = Total([id \in {i \in DOMAIN proposals : proposals[i].state = "active"}
                            |-> proposals[id].deposit])
    /\ Total(general) + deposits + pool = InitialBalance * Cardinality(Accounts)

\* "active proposal with past closing epoch" (governance/api/sanity_check.go)
\* never happens: every proposal is closed in the epoch it was given, though
\* the parameters may have changed since.
ClosedInTime ==
    \A id \in DOMAIN proposals :
        /\ proposals[id].state = "active" <=> <<proposals[id].closesAt, id>> \in active
        /\ proposals[id].state = "active" => proposals[id].closesAt >= epoch

\* The values that UpgradeMinEpochDiff has had: of the genesis document and of
\* the changes that passed.
DiffsInForce(props) ==
    {GenesisParams["minDiff"]}
    \cup {props[id].content.change.value :
             id \in {i \in DOMAIN props : /\ props[i].state = "passed"
                                        /\ props[i].content.kind = "change"
                                        /\ props[i].content.change.field = "minDiff"}}

\* Pending upgrades are at least UpgradeMinEpochDiff epochs apart, or a lower
\* value that was in force before: with several proposals submitted before the
\* first of them passed, and with changes of the parameter that close in the
\* same block.
PendingUpgradesApart ==
    \A i, j \in pending : i # j =>
        \E diff \in DiffsInForce(proposals) :
            AbsDiff(proposals[i].content.epoch, proposals[j].content.epoch) >= diff

\* An upgrade is never pending for an epoch that has begun: it would wait for
\* ever.  The pending upgrades can be computed from the proposals alone, as
\* the export of a genesis document does.
PendingFromProposals ==
    ~failed => pending =
        {id \in DOMAIN proposals :
            /\ proposals[id].state = "passed"
            /\ proposals[id].content.kind = "upgrade"
            /\ proposals[id].content.epoch > epoch
            /\ ~ \E c \in DOMAIN proposals :
                    /\ proposals[c].state = "passed"
                    /\ proposals[c].content.kind = "cancel"
                    /\ proposals[c].content.target = id}

\* A vote is as strong as its shares: of every validator's shares each counts
\* once, for the vote of the one who delegated it, or else for the vote of
\* the validator, or not at all.
TallyFollowsDelegators ==
    \A id \in DOMAIN votes, v \in Entities, x \in Votes :
        VoteShares(votes[id], v)[x] =
            Total([a \in {b \in Accounts : votes[id][b] = x
                             \/ (votes[id][b] = NoVote /\ votes[id][v] = x)}
                      |-> Delegations[a][v]])

\* No proposal can keep an epoch transition block from ending: the stake
\* counted never exceeds the stake there is.
BlocksNeverFail == ~failed

\* The outcome of a proposal is final, and so are the votes on it.
OutcomesFinal ==
    \A id \in DOMAIN proposals : proposals[id].state # "active" =>
         proposals'[id] = proposals[id] /\ votes'[id] = votes[id]
=============================================================================

------------------------------ MODULE Staking -------------------------------
(* The staking application (apps/staking, staking/api): balances, escrow and *)
(* debonding share pools, fees, rewards, slashing and governance deposits.   *)
(*                                                                           *)
(* A block is BeginBlock, transactions, EndBlock of the staking application, *)
(* and then the effects that the EndBlock of later applications (governance, *)
(* roothash) have on the ledger.  Addresses are those that are not reserved. *)
EXTENDS SharePool, FiniteSetsExt, SequencesExt

CONSTANTS
    Addr,
    Genesis,         \* general balances at genesis
    CommonPool,      \* the common pool at genesis
    Amount,          \* amounts of transactions
    Fees,            \* fees of transactions
    Rate,            \* commission rate of each account, out of RateDenominator
    RateDenominator,
    Weights,         \* fee split weights that governance may choose
    RewardFactor,    \* [num, den]: reward per balance (factor, scale and denominator)
    SigningThreshold,\* [num, den]
    Penalties,       \* amounts of slashes
    RuntimePercent,  \* percentage of slashed funds that goes to the runtime
    RuntimeAddr,     \* the account of the runtime
    DebondingInterval,
    MinTransactBalance, MinTransfer, MinDelegation, MaxAllowances,
    Nobody,          \* a proposer whose node is not registered
    Proposers, VoterSets, \* who proposes blocks and who may have voted for one
    MaxEpoch, MaxBlocks, MaxTxs

StakingAssumption ==
    /\ IsFiniteSet(Addr) /\ RuntimeAddr \in Addr /\ Nobody \notin Addr
    /\ Proposers \subseteq Addr \cup {Nobody} /\ VoterSets \subseteq SUBSET Addr
    /\ Genesis \subseteq [Addr -> Nat] /\ CommonPool \in Nat /\ Amount \subseteq Nat /\ Fees \subseteq Nat /\ Penalties \subseteq Nat
    /\ RateDenominator \in Nat \ {0} /\ Rate \in [Addr -> 0 .. RateDenominator]
    /\ \A w \in Weights : w \in [propose : Nat, vote : Nat, next : Nat]
                          /\ w.propose + w.vote + w.next > 0
    /\ RewardFactor \in [num : Nat, den : Nat \ {0}] /\ SigningThreshold \in [num : Nat, den : Nat]
    /\ RuntimePercent \in 0 .. 100 /\ DebondingInterval \in Nat \ {0}
    /\ MinTransactBalance \in Nat /\ MinTransfer \in Nat /\ MinDelegation \in Nat /\ MaxAllowances \in Nat
    /\ MaxEpoch \in Nat /\ MaxBlocks \in Nat /\ MaxTxs \in Nat

VARIABLES
    ledger,     \* the balances, see Ledger
    weights,    \* fee split weights in effect
    epoch,
    phase,      \* "begin", "deliver" or "end" of a block
    block,      \* [proposer, fees, txs] of the block context, and the height
    signing,    \* EpochSigning: [total, by]
    failed,     \* BeginBlock or EndBlock has returned an error
    split       \* history: the weights that the kept fees were split by

vars == <<ledger, weights, epoch, phase, block, signing, failed, split>>

DebondingKey == Addr \X Addr \X (1 .. MaxEpoch + DebondingInterval)

\* debonding delegations exist for the keys in DOMAIN ledger.debs, which is the
\* debonding queue too.
Ledger(Keys) ==
    [general : [Addr -> Nat], allowance : [Addr -> [Addr -> Nat]],
     active : [Addr -> SharePool], debonding : [Addr -> SharePool],
     delegation : [Addr -> [Addr -> Nat]],
     debs : [Keys -> Nat],
     commonPool : Nat, lastFees : Nat, deposits : Nat, total : Nat]

-----------------------------------------------------------------------------
(* Operations on the ledger (apps/staking/state). *)

TransferMutant(l, from, to, amount) ==
    [l EXCEPT !.general = [@ EXCEPT ![from] = l.general[from] - amount,
                                    ![to] = l.general[to] + amount]]

\* Source and destination may be the same account.
Transfer(l, from, to, amount) ==
    IF from = to THEN l
    ELSE [l EXCEPT !.general = [l.general EXCEPT ![from] = @ - amount, ![to] = @ + amount]]

CanTransfer(l, from, to, amount) ==
    /\ l.general[from] >= amount
    /\ from # to => /\ l.general[from] - amount >= MinTransactBalance
                    /\ l.general[to] + amount >= MinTransactBalance

\* Moves the debonding shares of a reclaim; an entry with the same end is merged.
SetDebondingDelegation(l, key, shares) ==
    [l EXCEPT !.debs = [k \in DOMAIN @ \cup {key} |->
                            (IF k \in DOMAIN @ THEN @[k] ELSE 0) + (IF k = key THEN shares ELSE 0)]]

SlashedOf(l, x, amount) ==
    LET total == l.active[x].balance + l.debonding[x].balance
    IN  [active |-> SlashAmount(l.active[x], amount, total),
         debonding |-> SlashAmount(l.debonding[x], amount, total)]

\* What a slash of amount takes from each account.
Slashed(l, amount) ==
    [x \in Addr |-> SlashedOf(l, x, amount).active + SlashedOf(l, x, amount).debonding]

SlashEscrow(l, x, amount) ==
    LET s == SlashedOf(l, x, amount)
    IN  [l EXCEPT !.active[x].balance = @ - s.active,
                  !.debonding[x].balance = @ - s.debonding,
                  !.commonPool = @ + s.active + s.debonding]

SlashAll(l, xs, amount) == FoldLeft(LAMBDA m, x : SlashEscrow(m, x, amount), l, SetToSeq(xs))

ComputeCommissionMutant(x, amount) == (amount * Rate[x] + RateDenominator - 1) \div RateDenominator

ComputeCommission(x, amount) == (amount * Rate[x]) \div RateDenominator

\* Deposits amount, which has left its source already, for the account itself.
DepositOwn(l, x, amount) ==
    [l EXCEPT !.delegation[x][x] = @ + SharesForStake(l.active[x], amount),
              !.active[x] = Deposit(@, amount)]

\* The reward q: all but the commission raises the share price, and the
\* commission is delegated to the account by itself.
PayReward(l, x, q) ==
    LET com == ComputeCommission(x, q)
        l1  == [l EXCEPT !.commonPool = @ - q, !.active[x].balance = @ + q - com]
    IN  IF com = 0 THEN l1 ELSE DepositOwn(l1, x, com)

AddRewardMutant(l, x, num, den) ==
    LET q == (l.active[x].balance * num) \div den
    IN  IF q = 0 THEN l ELSE PayReward(l, x, q)

\* A reward that the common pool cannot pay is skipped.
AddReward(l, x, num, den) ==
    LET q == (l.active[x].balance * num) \div den
    IN  IF q = 0 \/ q > l.commonPool THEN l ELSE PayReward(l, x, q)

AddRewardSingleAttenuated(l, x, votes, validators) ==
    AddReward(l, x, RewardFactor.num * votes, RewardFactor.den * validators)

AddRewards(l, xs) ==
    FoldLeft(LAMBDA m, x : AddReward(m, x, RewardFactor.num, RewardFactor.den), l, SetToSeq(xs))

\* TransferFromCommon with escrow deposits like a reward, except that without
\* any shares everything is commission.
CommonToEscrow(l, x, amount) ==
    LET q   == Min({amount, l.commonPool})
        com == IF l.active[x].shares = 0 THEN q ELSE ComputeCommission(x, q)
        l1  == [l EXCEPT !.commonPool = @ - q, !.active[x].balance = @ + q - com]
    IN  IF com = 0 THEN l1 ELSE DepositOwn(l1, x, com)

CommonToEscrows(l, xs, amount) ==
    FoldLeft(LAMBDA m, x : CommonToEscrow(m, x, amount), l, SetToSeq(xs))

\* The deposit of the commission fails in a pool that still has no balance.
CommonToEscrowFails(l, x, amount) ==
    LET q   == Min({amount, l.commonPool})
        com == ComputeCommission(x, q)
    IN  l.active[x].shares # 0 /\ com # 0 /\ l.active[x].balance + q - com = 0

CommonToGeneral(l, x, amount) ==
    LET q == Min({amount, l.commonPool})
    IN  [l EXCEPT !.commonPool = @ - q, !.general[x] = @ + q]

-----------------------------------------------------------------------------
(* Distribution of slashed funds (apps/roothash/slashing.go). *)

\* What was slashed is divided between the runtime and the resolvers.
DistributeSlashedFunds(l, slashed, resolvers) ==
    LET mine  == (slashed * RuntimePercent) \div 100
        l1    == CommonToGeneral(l, RuntimeAddr, mine)
        n     == Cardinality(resolvers)
        other == IF n = 0 THEN 0 ELSE (slashed - mine) \div n
    IN  CommonToEscrows(l1, resolvers, other)

\* A resolver's pool is touched only by its own reward.
DistributionFails(l, slashed, resolvers) ==
    LET mine  == (slashed * RuntimePercent) \div 100
        other == (slashed - mine) \div Cardinality(resolvers)
    IN  \E x \in resolvers : CommonToEscrowFails(l, x, other)

-----------------------------------------------------------------------------
(* Fees (apps/staking/fees.go). *)

\* The fees of this block: a part is kept for the voters and the next proposer.
DisburseFeesP(l, fees, proposer) ==
    LET persist == (fees * (weights.vote + weights.next)) \div (weights.propose + weights.vote + weights.next)
    IN  IF proposer = Nobody
        THEN [l EXCEPT !.lastFees = persist, !.commonPool = @ + fees - persist]
        ELSE [l EXCEPT !.lastFees = persist, !.general[proposer] = @ + fees - persist]

DisburseFeesVQFails(l) == l.lastFees # 0 /\ weights.vote + weights.next = 0

\* The kept fees of the previous block; what rounding leaves goes to the common pool.
\* The stored amount is overwritten by the EndBlock of this block.
DisburseFeesVQ(l, proposer, validators, voters) ==
    IF l.lastFees = 0 THEN l
    ELSE LET per   == l.lastFees \div validators
             next  == (per * weights.next) \div (weights.vote + weights.next)
             vote  == per - next
             nextTotal == IF proposer = Nobody THEN 0 ELSE next * Cardinality(voters)
         IN  [l EXCEPT
                !.general = [x \in Addr |-> @[x] + (IF x = proposer THEN nextTotal ELSE 0)
                                                 + (IF x \in voters THEN vote ELSE 0)],
                !.commonPool = @ + l.lastFees - nextTotal - vote * Cardinality(voters)]

-----------------------------------------------------------------------------
(* Blocks. *)

UpdateSigning(voters) ==
    [total |-> signing.total + 1,
     by |-> [x \in Addr |-> signing.by[x] + (IF x \in voters THEN 1 ELSE 0)]]

\* punished: accounts whose validators are reported for misbehaviour.
BeginBlock(proposer, voters, punished, penalty) ==
    /\ phase = "begin" /\ ~failed /\ block.height < MaxBlocks
    /\ phase' = "deliver"
    /\ block' = [proposer |-> proposer, fees |-> 0, txs |-> 0, height |-> block.height + 1]
    /\ failed' = DisburseFeesVQFails(ledger)
    /\ IF failed' THEN UNCHANGED <<ledger, signing>>
       ELSE LET n  == Cardinality(Addr)
                l1 == DisburseFeesVQ(ledger, proposer, n, voters)
                l2 == IF proposer = Nobody THEN l1
                      ELSE AddRewardSingleAttenuated(l1, proposer, Cardinality(voters), n)
            IN  /\ ledger' = SlashAll(l2, punished, penalty)
                /\ signing' = UpdateSigning(voters)
    /\ UNCHANGED <<weights, epoch, split>>

\* AuthenticateAndPayFees.
CanPay(x, fee) == ledger.general[x] >= fee + MinTransactBalance

PayFees(x, fee) == [ledger EXCEPT !.general[x] = @ - fee]

\* A transaction of x that pays fee and, if it succeeds, changes the ledger to l.
Transaction(x, fee, l) ==
    /\ phase = "deliver" /\ ~failed /\ block.txs < MaxTxs
    /\ CanPay(x, fee)
    /\ ledger' = l
    /\ block' = [block EXCEPT !.fees = @ + fee, !.txs = @ + 1]
    /\ UNCHANGED <<weights, epoch, phase, signing, failed, split>>

\* A failed transaction has paid its fees.
FailedTx(x, fee) == Transaction(x, fee, PayFees(x, fee))

TransferTx(x, fee, to, amount) ==
    LET l == PayFees(x, fee)
    IN  /\ amount >= MinTransfer /\ CanTransfer(l, x, to, amount)
        /\ Transaction(x, fee, Transfer(l, x, to, amount))

Burn(x, fee, amount) ==
    LET l == PayFees(x, fee)
    IN  /\ amount >= MinTransfer /\ l.general[x] - amount >= MinTransactBalance
        /\ Transaction(x, fee, [l EXCEPT !.general[x] = @ - amount, !.total = @ - amount])

AddEscrow(x, fee, to, amount) ==
    LET l == PayFees(x, fee)
    IN  /\ amount >= MinDelegation /\ CanDeposit(l.active[to])
        /\ l.general[x] - amount >= MinTransactBalance
        /\ Transaction(x, fee,
             [l EXCEPT !.general[x] = @ - amount,
                       !.delegation[x][to] = @ + SharesForStake(l.active[to], amount),
                       !.active[to] = Deposit(@, amount)])

ReclaimEscrow(x, fee, from, shares) ==
    LET l    == PayFees(x, fee)
        base == StakeForShares(l.active[from], shares)
        key  == <<x, from, epoch + DebondingInterval>>
    IN  /\ shares # 0 /\ shares <= l.delegation[x][from]
        /\ CanDeposit(l.debonding[from])
        /\ Transaction(x, fee,
             SetDebondingDelegation(
               [l EXCEPT !.active[from] = Withdraw(@, shares),
                         !.delegation[x][from] = @ - shares,
                         !.debonding[from] = Deposit(@, base)],
               key, SharesForStake(l.debonding[from], base)))

Allow(x, fee, to, amount, negative) ==
    LET l   == PayFees(x, fee)
        old == l.allowance[x][to]
        new == IF negative THEN (IF amount > old THEN 0 ELSE old - amount) ELSE old + amount
    IN  /\ x # to /\ MaxAllowances # 0 /\ new <= l.total
        /\ Cardinality({y \in Addr : (IF y = to THEN new ELSE l.allowance[x][y]) > 0}) <= MaxAllowances
        /\ Transaction(x, fee, [l EXCEPT !.allowance[x][to] = new])

WithdrawTx(x, fee, from, amount) ==
    LET l == PayFees(x, fee)
    IN  /\ x # from /\ MaxAllowances # 0 /\ amount >= MinTransfer
        /\ l.allowance[from][x] >= amount /\ l.allowance[from][x] > 0
        /\ CanTransfer(l, from, x, amount)
        /\ Transaction(x, fee,
             Transfer([l EXCEPT !.allowance[from][x] = @ - amount], from, x, amount))

TransferToGovernanceDeposits(x, fee, amount) ==
    LET l == PayFees(x, fee)
    IN  /\ l.general[x] >= amount
        /\ Transaction(x, fee, [l EXCEPT !.general[x] = @ - amount, !.deposits = @ + amount])

\* Evidence of equivocation by a node of accused: the reward goes to reporter,
\* the entity of the caller or the caller itself.
OnRuntimeEquivocation(x, fee, accused, penalty, reporter) ==
    LET l == PayFees(x, fee)
        s == SlashedOf(l, accused, penalty)
        slashed == s.active + s.debonding
        l1 == SlashEscrow(l, accused, penalty)
    IN  /\ slashed # 0 => ~DistributionFails(l1, slashed, {reporter})
        /\ Transaction(x, fee, IF slashed = 0 THEN l1 ELSE DistributeSlashedFunds(l1, slashed, {reporter}))

-----------------------------------------------------------------------------
(* The end of a block. *)

EligibleEntities ==
    {x \in Addr : /\ signing.by[x] > 0
                  /\ signing.by[x] * SigningThreshold.den >= signing.total * SigningThreshold.num}

\* Pays out one expired debonding delegation.
Redeem(l, key) ==
    LET pool == l.debonding[key[2]]
    IN  [l EXCEPT !.general[key[1]] = @ + StakeForShares(pool, l.debs[key]),
                  !.debonding[key[2]] = Withdraw(pool, l.debs[key]),
                  !.debs = [k \in DOMAIN @ \ {key} |-> @[k]]]

ExpiredDebondingQueueMutant(l, now) == {k \in DOMAIN l.debs : k[3] = now}

ExpiredDebondingQueue(l, now) == {k \in DOMAIN l.debs : k[3] <= now}

RedeemAll(l, keys) == FoldLeft(Redeem, l, SetToSeq(keys))

OnEpochChange(l, now) ==
    LET l1 == RedeemAll(l, ExpiredDebondingQueue(l, now))
    IN  IF SigningThreshold.den = 0 \/ signing.total = 0 THEN l1
        ELSE AddRewards(l1, EligibleEntities)

\* The epoch may have advanced by any number of epochs: to is the new one.
EndBlock(to) ==
    /\ phase = "deliver" /\ ~failed
    /\ to \in epoch .. MaxEpoch
    /\ phase' = "end"
    /\ epoch' = to
    /\ LET l == DisburseFeesP(ledger, block.fees, block.proposer)
       IN  IF to = epoch THEN ledger' = l /\ UNCHANGED signing
           ELSE /\ ledger' = OnEpochChange(l, to)
                /\ signing' = [total |-> 0, by |-> [x \in Addr |-> 0]]
    /\ block' = [block EXCEPT !.fees = 0]
    /\ split' = weights
    /\ UNCHANGED <<weights, failed>>

\* A closed proposal returns its deposit or loses it to the common pool.
TransferFromGovernanceDeposits(x, amount) ==
    /\ phase = "end" /\ ~failed /\ amount \in 1 .. ledger.deposits
    /\ ledger' = [ledger EXCEPT !.deposits = @ - amount, !.general[x] = @ + amount]
    /\ UNCHANGED <<weights, epoch, phase, block, signing, failed, split>>

DiscardGovernanceDeposit(amount) ==
    /\ phase = "end" /\ ~failed /\ amount \in 1 .. ledger.deposits
    /\ ledger' = [ledger EXCEPT !.deposits = @ - amount, !.commonPool = @ + amount]
    /\ UNCHANGED <<weights, epoch, phase, block, signing, failed, split>>

ChangeParameters(w) ==
    /\ phase = "end" /\ ~failed
    /\ weights' = w
    /\ UNCHANGED <<ledger, epoch, phase, block, signing, failed, split>>

OnRuntimeIncorrectResults(causers, resolvers, penalty) ==
    /\ phase = "end" /\ ~failed /\ causers # {}
    /\ LET slashed == SumFunctionOnSet(Slashed(ledger, penalty), causers)
           l       == SlashAll(ledger, causers, penalty)
       IN  /\ failed' = (slashed # 0 /\ DistributionFails(l, slashed, resolvers))
           /\ ledger' = IF failed' THEN ledger
                        ELSE IF slashed = 0 THEN l ELSE DistributeSlashedFunds(l, slashed, resolvers)
    /\ UNCHANGED <<weights, epoch, phase, block, signing, split>>

\* The remaining applications have ended the block.
Commit ==
    /\ phase = "end" /\ ~failed
    /\ phase' = "begin"
    /\ UNCHANGED <<ledger, weights, epoch, block, signing, failed, split>>
-----------------------------------------------------------------------------
(* Genesis: the tokens are in the general balances and the common pool. *)
Init ==
    /\ ledger \in {[general |-> g, allowance |-> [x \in Addr |-> [y \in Addr |-> 0]],
                    active |-> [x \in Addr |-> EmptyPool], debonding |-> [x \in Addr |-> EmptyPool],
                    delegation |-> [x \in Addr |-> [y \in Addr |-> 0]], debs |-> <<>>,
                    commonPool |-> c, lastFees |-> 0, deposits |-> 0,
                    total |-> c + SumFunctionOnSet(g, Addr)] : g \in Genesis, c \in {CommonPool}}
    /\ weights \in Weights /\ split = weights
    /\ epoch = 0 /\ phase = "begin" /\ failed = FALSE
    /\ block = [proposer |-> Nobody, fees |-> 0, txs |-> 0, height |-> 0]
    /\ signing = [total |-> 0, by |-> [x \in Addr |-> 0]]

\* Transactions that slash nobody.
UserTx ==
    \E x \in Addr, f \in Fees :
        \/ FailedTx(x, f)
        \/ \E y \in Addr, a \in Amount :
              \/ TransferTx(x, f, y, a) \/ AddEscrow(x, f, y, a) \/ ReclaimEscrow(x, f, y, a)
              \/ WithdrawTx(x, f, y, a) \/ \E n \in BOOLEAN : Allow(x, f, y, a, n)
        \/ \E a \in Amount : Burn(x, f, a) \/ TransferToGovernanceDeposits(x, f, a)

EndBlocks == \E e \in 0 .. MaxEpoch : EndBlock(e)

Next ==
    \/ \E p \in Proposers, vs \in VoterSets, bad \in SUBSET Addr, q \in Penalties : BeginBlock(p, vs, bad, q)
    \/ UserTx
    \/ \E x, y, z \in Addr, f \in Fees, q \in Penalties : OnRuntimeEquivocation(x, f, y, q, z)
    \/ EndBlocks
    \/ \E a \in Amount : DiscardGovernanceDeposit(a) \/ \E x \in Addr : TransferFromGovernanceDeposits(x, a)
    \/ \E w \in Weights : ChangeParameters(w)
    \/ \E cs, rs \in SUBSET Addr, q \in Penalties : OnRuntimeIncorrectResults(cs, rs, q)
    \/ Commit

Spec == Init /\ [][Next]_vars

-----------------------------------------------------------------------------
TypeOK ==
    /\ DOMAIN ledger.debs \subseteq DebondingKey /\ ledger \in Ledger(DOMAIN ledger.debs)
    /\ weights \in Weights /\ split \in Weights /\ epoch \in 0 .. MaxEpoch /\ failed \in BOOLEAN
    /\ phase \in {"begin", "deliver", "end"}
    /\ block \in [proposer : Addr \cup {Nobody}, fees : Nat, txs : 0 .. MaxTxs, height : 0 .. MaxBlocks]
    /\ signing \in [total : Nat, by : [Addr -> Nat]]

\* The persisted fees are a stale copy between BeginBlock, which has paid them
\* out, and EndBlock, which overwrites them.
FeesHeld == IF phase = "deliver" /\ ~failed THEN 0 ELSE ledger.lastFees

\* What an account has, and the shares that each account has of another's pool.
Holdings(l) ==
    [x \in Addr |-> l.general[x] + l.active[x].balance + l.debonding[x].balance]
SharesIn(l, x) == [y \in Addr |-> l.delegation[y][x]]

(* Tokens are neither created nor lost: all balances, the common pool, the   *)
(* governance deposits and the fees in flight add up to the total supply in  *)
(* every order of fees, rewards, slashing, debonding and burning.            *)
Conservation ==
    ledger.total = ledger.commonPool + ledger.deposits + block.fees + FeesHeld
                   + SumFunctionOnSet(Holdings(ledger), Addr)

(* The shares of a pool are exactly those that delegations hold, and a pool  *)
(* without shares holds no tokens that nobody could ever withdraw.           *)
SharesBacked ==
    \A x \in Addr :
        /\ ledger.active[x].shares = SumFunctionOnSet(SharesIn(ledger, x), Addr)
        /\ ledger.debonding[x].shares =
              SumFunctionOnSet(ledger.debs, {k \in DOMAIN ledger.debs : k[2] = x})
        /\ ledger.active[x].shares = 0 => ledger.active[x].balance = 0
        /\ ledger.debonding[x].shares = 0 => ledger.debonding[x].balance = 0

(* Deposits, withdrawals and rewards round against whoever makes them: they  *)
(* never lower the value of the shares that others hold.  Only slashing does.*)
SharesKeepValue ==
    \/ \A x \in Addr : /\ NotDiluted(ledger.active[x], ledger'.active[x])
                       /\ NotDiluted(ledger.debonding[x], ledger'.debonding[x])
    \/ ~(UserTx \/ EndBlocks)

(* A debonding delegation keeps its shares until its debonding period ends,  *)
(* and is paid out in the first block of an epoch at or after its end, also  *)
(* when epochs are skipped.                                                  *)
DebondingPaidAtEnd ==
    /\ \A k \in DOMAIN ledger.debs :
          \/ k \in DOMAIN ledger'.debs /\ ledger'.debs[k] >= ledger.debs[k]
          \/ epoch < k[3] /\ epoch' >= k[3]
    /\ epoch' # epoch => \A k \in DOMAIN ledger'.debs : k[3] > epoch'

(* The rewards that follow a slash are paid out of what was slashed: however *)
(* the division rounds, the common pool is not drawn on.                     *)
SlashedFundsOnly ==
    phase = "end" /\ phase' = "end" => ledger'.commonPool >= ledger.commonPool

(* No BeginBlock or EndBlock fails: that would stop the chain.               *)
BlocksNeverFail == ~failed

(* The two ways in which a block does fail.  BeginBlock divides kept fees    *)
(* between nobody, when governance took the weights of voters and of the     *)
(* next proposer away after these fees were split by weights that had them:  *)
(* weights without takers that were in force before keep no fees.  And an    *)
(* EndBlock pays slashed funds into an escrow that has shares and that a     *)
(* slash leaves without a balance, all of it as commission.                  *)
FailuresExplained ==
    failed =>
        \/ /\ phase = "deliver" /\ ledger.lastFees # 0
           /\ weights.vote + weights.next = 0 /\ split.vote + split.next > 0
        \/ /\ phase = "end"
           /\ \E x \in Addr, q \in Penalties :
                 /\ Rate[x] = RateDenominator /\ ledger.active[x].shares # 0
                 /\ ledger.active[x].balance \in {0, SlashedOf(ledger, x, q).active}
=============================================================================

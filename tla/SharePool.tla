----------------------------- MODULE SharePool ------------------------------
(* Share pools (staking/api/api.go): the combined balance of several         *)
(* delegations, whose relative sizes are tracked through shares.             *)
EXTENDS Integers

SharePool == [balance : Nat, shares : Nat]

EmptyPool == [balance |-> 0, shares |-> 0]

\* A pool that has lost everything through slashing cannot issue shares.
CanDeposit(p) == p.shares = 0 \/ p.balance # 0

SharesForStake(p, amount) ==
    IF p.shares = 0 THEN amount ELSE (amount * p.shares) \div p.balance

Deposit(p, amount) ==
    [balance |-> p.balance + amount, shares |-> p.shares + SharesForStake(p, amount)]

StakeForShares(p, shares) ==
    IF shares = 0 \/ p.balance = 0 \/ p.shares = 0 THEN 0
    ELSE (shares * p.balance) \div p.shares

Withdraw(p, shares) ==
    [balance |-> p.balance - StakeForShares(p, shares), shares |-> p.shares - shares]

\* The part of a slash of amount that falls on a pool of an account with the
\* given total balance.
SlashAmount(p, amount, total) ==
    IF total = 0 THEN 0
    ELSE LET part == (p.balance * amount) \div total
         IN  IF part > p.balance THEN p.balance ELSE part

\* A share of q is worth at least as much as a share of p was.
NotDiluted(p, q) == q.shares = 0 \/ p.shares = 0 \/ q.balance * p.shares >= p.balance * q.shares
=============================================================================

------------------------------ MODULE MCEconomy ------------------------------
(***************************************************************************)
(* Instances of the components that hold tokens: staking (escrow, fees and  *)
(* rewards, slashing), commission schedules and vaults; and the             *)
(* registration of a node, with which its stake is claimed. A behaviour is  *)
(* one of a single part, with the steps of the registration worker in part  *)
(* "registering"; the variables of the other parts stay at their initial    *)
(* values or at 0.                                                          *)
(***************************************************************************)
EXTENDS Registration, Integers, Sequences, FiniteSets, TLC

CONSTANT Parts   \* the parts that the run checks
CONSTANTS None   \* model values

VARIABLES
    part,   \* the part that this behaviour is one of
    ledger, weights, stakingEpoch, phase, block, signing, failed, split,
    schedule, minRate, commissionEpoch,
    height, balance, vault, pending, policy, signed, taken

stakingVars == <<ledger, weights, stakingEpoch, phase, block, signing, failed, split>>
commissionVars == <<schedule, minRate, commissionEpoch>>
vaultVars == <<height, balance, vault, pending, policy, signed, taken>>
suiteVars == <<part, stakingVars, commissionVars, vaultVars, vars>>

Accounts(a, b) == ("a" :> a) @@ ("b" :> b)
Half == [num |-> 1, den |-> 2]
NoRewards == [num |-> 0, den |-> 1]
EqualWeights == {[propose |-> 1, vote |-> 1, next |-> 1]}
\* The second gives everything to the proposer.
TwoWeights == {[propose |-> 2, vote |-> 1, next |-> 1], [propose |-> 1, vote |-> 0, next |-> 0]}
Authority(addresses, threshold) == [addresses |-> addresses, threshold |-> threshold]
Limit(amount, interval) == [amount |-> amount, interval |-> interval]

\* Delegation, debonding and slashing over three blocks.
Escrow == INSTANCE Staking WITH
    Addr <- {"a", "b"}, RateDenominator <- 2, RewardFactor <- NoRewards,
    SigningThreshold <- Half, RuntimePercent <- 50, RuntimeAddr <- "b",
    DebondingInterval <- 1, MinTransactBalance <- 0, MinTransfer <- 1,
    MinDelegation <- 1, Nobody <- "nobody", MaxEpoch <- 2, MaxBlocks <- 3,
    MaxTxs <- 1, Genesis <- {Accounts(3, 0)}, CommonPool <- 0, Amount <- {1, 2},
    Fees <- {0}, Rate <- Accounts(1, 0), Weights <- EqualWeights,
    Penalties <- {2}, MaxAllowances <- 0, Proposers <- {"nobody"},
    VoterSets <- {{}}, epoch <- stakingEpoch
ASSUME Escrow!StakingAssumption

\* Fees and rewards, whose split governance changes.
FeeSplit == INSTANCE Staking WITH
    Addr <- {"a", "b"}, RateDenominator <- 2, RewardFactor <- Half,
    SigningThreshold <- Half, RuntimePercent <- 50, RuntimeAddr <- "b",
    DebondingInterval <- 1, MinTransactBalance <- 0, MinTransfer <- 1,
    MinDelegation <- 1, Nobody <- "nobody", MaxEpoch <- 2, MaxBlocks <- 2,
    MaxTxs <- 1, Genesis <- {Accounts(7, 0)}, CommonPool <- 1, Amount <- {1},
    Fees <- {0, 5}, Rate <- Accounts(1, 0), Weights <- TwoWeights,
    Penalties <- {2}, MaxAllowances <- 1, Proposers <- {"a", "nobody"},
    VoterSets <- {{"b"}, {"a", "b"}}, epoch <- stakingEpoch
ASSUME FeeSplit!StakingAssumption

\* Slashed funds paid to the runtime and to entities with commission.
Slash == INSTANCE Staking WITH
    Addr <- {"a", "b"}, RateDenominator <- 3, RewardFactor <- Half,
    SigningThreshold <- Half, RuntimePercent <- 50, RuntimeAddr <- "b",
    DebondingInterval <- 1, MinTransactBalance <- 0, MinTransfer <- 1,
    MinDelegation <- 1, Nobody <- "nobody", MaxEpoch <- 2, MaxBlocks <- 2,
    MaxTxs <- 1, Genesis <- {Accounts(2, 3)}, CommonPool <- 1, Amount <- {2},
    Fees <- {0}, Rate <- Accounts(1, 2), Weights <- EqualWeights,
    Penalties <- {3}, MaxAllowances <- 0, Proposers <- {"a"},
    VoterSets <- {{"a", "b"}}, epoch <- stakingEpoch
ASSUME Slash!StakingAssumption

\* Entities that keep all rewards as commission.
FullCommission == INSTANCE Staking WITH
    Addr <- {"a", "b"}, RateDenominator <- 2, RewardFactor <- NoRewards,
    SigningThreshold <- Half, RuntimePercent <- 50, RuntimeAddr <- "b",
    DebondingInterval <- 1, MinTransactBalance <- 0, MinTransfer <- 1,
    MinDelegation <- 1, Nobody <- "nobody", MaxEpoch <- 2, MaxBlocks <- 2,
    MaxTxs <- 1, Genesis <- {Accounts(2, 3)}, CommonPool <- 0, Amount <- {1, 3},
    Fees <- {0}, Rate <- Accounts(2, 2), Weights <- EqualWeights,
    Penalties <- {3}, MaxAllowances <- 0, Proposers <- {"nobody"},
    VoterSets <- {{}}, epoch <- stakingEpoch
ASSUME FullCommission!StakingAssumption

\* Amendments of up to two steps.
Commission == INSTANCE CommissionSchedule WITH
    Start <- {1, 2, 3}, RateValue <- {1, 2}, RateDenominator <- 2,
    RateChangeInterval <- 1, RateBoundLead <- 1, MaxRateSteps <- 3,
    MaxBoundSteps <- 2, MaxAmendment <- 2, MaxEpoch <- 3, epoch <- commissionEpoch
ASSUME Commission!CommissionAssumption

\* A two-of-two admin authority and a one-of-one suspend authority.
Authorities == INSTANCE Vault WITH
    Addresses <- {"a", "b", "c"}, Recipients <- {"c"}, Policies <- {Limit(1, 2)},
    AuthorityChoices <- {Authority({"a", "c"}, 1), Authority({"a"}, 2)},
    GenesisAdmin <- Authority({"a", "b"}, 2),
    GenesisSuspend <- Authority({"c"}, 1), InitialBalance <- 1, MaxNonce <- 3,
    MaxHeight <- 1
ASSUME Authorities!VaultAssumption

\* One admin who changes the policy of a recipient between withdrawals.
Withdrawals == INSTANCE Vault WITH
    Addresses <- {"a"}, Recipients <- {"a"},
    Policies <- {Limit(2, 2), Limit(1, 2), Limit(2, 3), Limit(0, 0)},
    AuthorityChoices <- {}, GenesisAdmin <- Authority({"a"}, 1),
    GenesisSuspend <- Authority({"a"}, 1), InitialBalance <- 4, MaxNonce <- 3,
    MaxHeight <- 7
ASSUME Withdrawals!VaultAssumption

-----------------------------------------------------------------------------
StakingInit ==
    \/ part = "escrow" /\ Escrow!Init
    \/ part = "fees" /\ FeeSplit!Init
    \/ part = "slash" /\ Slash!Init
    \/ part = "fullCommission" /\ FullCommission!Init
    \/ /\ part \notin {"escrow", "fees", "slash", "fullCommission"}
       /\ ledger = 0 /\ weights = 0 /\ stakingEpoch = 0 /\ phase = 0 /\ block = 0
       /\ signing = 0 /\ failed = 0 /\ split = 0
CommissionInit ==
    \/ part = "commission" /\ Commission!Init
    \/ /\ part \notin {"commission"}
       /\ schedule = 0 /\ minRate = 0 /\ commissionEpoch = 0
VaultInit ==
    \/ part = "authority" /\ Authorities!Init
    \/ part = "withdraw" /\ Withdrawals!Init
    \/ /\ part \notin {"authority", "withdraw"}
       /\ height = 0 /\ balance = 0 /\ vault = 0 /\ pending = 0 /\ policy = 0
       /\ signed = 0 /\ taken = 0

SuiteInit == part \in Parts /\ Init /\ StakingInit /\ CommissionInit /\ VaultInit

StakingNext ==
    /\ \/ part = "escrow" /\ Escrow!Next
       \/ part = "fees" /\ FeeSplit!Next
       \/ part = "slash" /\ Slash!Next
       \/ part = "fullCommission" /\ FullCommission!Next
    /\ UNCHANGED <<part, commissionVars, vaultVars, vars>>
CommissionNext ==
    /\ part = "commission" /\ Commission!Next
    /\ UNCHANGED <<part, stakingVars, vaultVars, vars>>
VaultNext ==
    /\ \/ part = "authority" /\ Authorities!Next
       \/ part = "withdraw" /\ Withdrawals!Next
    /\ UNCHANGED <<part, stakingVars, commissionVars, vars>>
\* Two roles, registrations some blocks after the start of an epoch.
RootNext ==
    /\ part = "registering" /\ Next
    /\ UNCHANGED <<part, stakingVars, commissionVars, vaultVars>>

SuiteNext == RootNext \/ StakingNext \/ CommissionNext \/ VaultNext

SuiteSpec == SuiteInit /\ [][SuiteNext]_suiteVars

-----------------------------------------------------------------------------
\* Every variable stays in its type.
Typed ==
    /\ part = "escrow" => Escrow!TypeOK
    /\ part = "fees" => FeeSplit!TypeOK
    /\ part = "slash" => Slash!TypeOK
    /\ part = "commission" => Commission!TypeOK
    /\ part = "authority" => Authorities!TypeOK
    /\ part = "registering" => TypeOK

\* No order of transactions, fees, rewards, debonding and slashing creates or
\* loses tokens, and the shares of every pool are those of its delegators.
TokensConserved ==
    /\ part = "escrow" => Escrow!Conservation /\ Escrow!SharesBacked
    /\ part = "fees" => FeeSplit!Conservation
    /\ part = "slash" => Slash!Conservation

\* A BeginBlock or EndBlock of staking that returns an error stops every
\* validator: it happens only when governance gives kept fees to nobody, or
\* when a commission takes all that is paid into an escrow slashed to zero.
FailuresExplained ==
    /\ part = "escrow" => Escrow!FailuresExplained
    /\ part = "fees" => FeeSplit!FailuresExplained
    /\ part = "slash" => Slash!FailuresExplained
    /\ part = "fullCommission" => FullCommission!FailuresExplained

\* The distribution of slashed funds to entities that keep all rewards as
\* commission never fails.
BlocksNeverFail == part = "fullCommission" => FullCommission!BlocksNeverFail

\* Nobody but a slash lowers the value of shares, debonding delegations are
\* paid out exactly when their time has come, and rewards for reporting come
\* out of the slashed funds alone.
DelegatorsTreatedFairly ==
  [][/\ part = "escrow" =>
          /\ Escrow!SharesKeepValue
          /\ Escrow!DebondingPaidAtEnd
     /\ part = "slash" => Slash!SlashedFundsOnly]_suiteVars

\* Rates stay within the announced bounds, owners cannot change what the lead
\* time protects, and a raised minimum rate only raises rates.
CommissionPromiseKept ==
    [][part = "commission" =>
          /\ Commission!RateWithinBounds'
          /\ Commission!LeadRespected
          /\ Commission!MigrationOnlyRaises]_suiteVars

\* Vault actions take a threshold of fresh authorizations of one authority, and
\* withdrawals stay within the limit of every interval.
VaultGuarded ==
  [][/\ part = "authority" => Authorities!AuthorizationsNotReused'
     /\ part = "authority" =>
          /\ Authorities!ThresholdAuthorized
          /\ Authorities!NonceUsedOnce
     /\ part = "withdraw" => Withdrawals!LimitRespected]_suiteVars
=============================================================================

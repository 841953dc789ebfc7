---------------------------- MODULE Economy_proofs ----------------------------
(***************************************************************************)
(* The staking ledger, for every set of accounts, genesis, schedule of       *)
(* commissions and penalties and any number of blocks, transactions and      *)
(* epochs: tokens and shares are conserved by every operation on them.       *)
(* Further down, the vault.                                                  *)
(***************************************************************************)
EXTENDS Staking, SumTheorems

-----------------------------------------------------------------------------
(***************************************************************************)
(* Folds over the ledger.  FoldLeft of the community modules is a recursion  *)
(* over the subsets of the positions of a sequence, whose largest element is *)
(* taken in each step.  What the recursion computes is the last entry of a   *)
(* trace: one ledger per position, each made by the operation from the one   *)
(* before.                                                                   *)
(***************************************************************************)

\* One step of a fold of this module's operations.
Step(kind, arg, l, x) ==
    IF kind = "slash" THEN SlashEscrow(l, x, arg)
    ELSE IF kind = "pay" THEN CommonToEscrow(l, x, arg)
    ELSE IF kind = "reward" THEN AddReward(l, x, RewardFactor.num, RewardFactor.den)
    ELSE Redeem(l, x)

FoldUpTo(kind, arg, base, seq, S, n, h) ==
    h = [s \in {t \in SUBSET S : Cardinality(t) <= n} |->
            IF s = {} THEN base ELSE Step(kind, arg, h[s \ {Max(s)}], seq[Max(s)])]

FoldOver(kind, arg, base, seq, S, h) ==
    h = [s \in SUBSET S |->
            IF s = {} THEN base ELSE Step(kind, arg, h[s \ {Max(s)}], seq[Max(s)])]

\* A trace of the fold.
IsTrace(kind, arg, base, seq, n, r) ==
    /\ r[0] = base
    /\ \A i \in 1..n : r[i] = Step(kind, arg, r[i - 1], seq[i])

\* The largest element of a set of positions.
LEMMA MaxIn ==
    ASSUME NEW n \in Nat, NEW S \in SUBSET (1..n), S # {}
    PROVE  Max(S) \in S /\ \A y \in S : Max(S) >= y
<1> DEFINE F == {m \in Nat : \A T \in SUBSET (1..m) : T = {} \/ \E x \in T : \A y \in T : x >= y}
<1>1. 0 \in F
  OBVIOUS
<1>2. ASSUME NEW m \in Nat, m \in F PROVE m + 1 \in F
  <2> SUFFICES ASSUME NEW T \in SUBSET (1..m + 1), T # {} PROVE \E x \in T : \A y \in T : x >= y
    OBVIOUS
  <2>1. CASE m + 1 \in T
    BY <2>1
  <2>2. CASE m + 1 \notin T
    <3>1. T \in SUBSET (1..m)
      BY <2>2
    <3> QED
      BY <1>2, <3>1
  <2> QED
    BY <2>1, <2>2
<1>3. \A m \in Nat : m \in F
  <2> HIDE DEF F
  <2> QED
    BY <1>1, <1>2, NatSetInduction
<1>4. \E x \in S : \A y \in S : x >= y
  BY <1>3
<1> QED
  BY <1>4 DEF Max

LEMMA MaxUpTo ==
    ASSUME NEW i \in Nat \ {0}
    PROVE  Max(1..i) = i /\ (1..i) \ {Max(1..i)} = 1..(i - 1)
<1>1. Max(1..i) \in 1..i /\ Max(1..i) >= i
  <2>1. 1..i \in SUBSET (1..i) /\ 1..i # {} /\ i \in 1..i
    OBVIOUS
  <2> QED
    BY <2>1, MaxIn
<1> QED
  BY <1>1

\* The recursion defines a function.
LEMMA FoldExists ==
    ASSUME NEW kind, NEW arg, NEW base, NEW seq, NEW k \in Nat
    PROVE  \E h : FoldOver(kind, arg, base, seq, 1..k, h)
<1> DEFINE S == 1..k
           Small(n) == {t \in SUBSET S : Cardinality(t) <= n}
           Body(g, s) == IF s = {} THEN base ELSE Step(kind, arg, g[s \ {Max(s)}], seq[Max(s)])
           F == {n \in Nat : \E h : FoldUpTo(kind, arg, base, seq, S, n, h)}
<1>0. IsFiniteSet(S)
  BY FS_Interval
<1>1. 0 \in F
  <2>1. \A s \in Small(0) : s = {}
    <3> HIDE DEF S
    <3> QED
      BY <1>0, FS_Subset, FS_EmptySet, FS_CardinalityType
  <2> DEFINE h == [s \in Small(0) |-> base]
  <2>2. h = [s \in Small(0) |-> Body(h, s)]
    BY <2>1
  <2>3. FoldUpTo(kind, arg, base, seq, S, 0, h)
    BY <2>2 DEF FoldUpTo
  <2> HIDE DEF h
  <2> QED
    BY <2>3
<1>2. ASSUME NEW n \in Nat, n \in F PROVE n + 1 \in F
  <2>0. PICK h : FoldUpTo(kind, arg, base, seq, S, n, h)
    BY <1>2
  <2>1. h = [s \in Small(n) |-> Body(h, s)]
    BY <2>0 DEF FoldUpTo
  <2> DEFINE g == [s \in Small(n + 1) |-> Body(h, s)]
  <2>2. ASSUME NEW s \in Small(n) PROVE s \in Small(n + 1) /\ g[s] = h[s]
    <3>1. s \in Small(n + 1)
      <4> HIDE DEF S
      <4> QED
        BY <1>0, FS_Subset, FS_CardinalityType
    <3>2. h[s] = Body(h, s)
      BY <2>1
    <3> QED
      BY <3>1, <3>2
  <2>3. ASSUME NEW s \in Small(n + 1), s # {} PROVE s \ {Max(s)} \in Small(n)
    <3>1. IsFiniteSet(s) /\ Cardinality(s) \in Nat /\ Cardinality(s) <= n + 1
      BY <1>0, FS_Subset, FS_CardinalityType
    <3>2. Max(s) \in s
      BY <2>3, MaxIn
    <3>3. Cardinality(s \ {Max(s)}) = Cardinality(s) - 1
      BY <3>1, <3>2, FS_RemoveElement
    <3>4. Cardinality(s \ {Max(s)}) <= n
      BY <3>1, <3>3
    <3> QED
      BY <3>4
  <2>4. ASSUME NEW s \in Small(n + 1) PROVE Body(h, s) = Body(g, s)
    <3>1. CASE s = {}
      BY <3>1
    <3>2. CASE s # {}
      <4>1. g[s \ {Max(s)}] = h[s \ {Max(s)}]
        BY <2>2, <2>3, <3>2
      <4> HIDE DEF g
      <4> QED
        BY <4>1
    <3> QED
      BY <3>1, <3>2
  <2>5. g = [s \in Small(n + 1) |-> Body(g, s)]
    <3> HIDE DEF Body, Small
    <3> QED
      BY <2>4
  <2>6. FoldUpTo(kind, arg, base, seq, S, n + 1, g)
    BY <2>5 DEF FoldUpTo
  <2> HIDE DEF g
  <2> QED
    BY <2>6
<1>3. \A n \in Nat : n \in F
  <2> HIDE DEF F
  <2> QED
    BY <1>1, <1>2, NatSetInduction
<1>4. Cardinality(S) \in Nat /\ \A t \in SUBSET S : Cardinality(t) <= Cardinality(S)
  BY <1>0, FS_Subset, FS_CardinalityType
<1>5. {t \in SUBSET S : Cardinality(t) <= Cardinality(S)} = SUBSET S
  BY <1>4
<1>6. PICK h : FoldUpTo(kind, arg, base, seq, S, Cardinality(S), h)
  BY <1>3, <1>4
<1>7. FoldOver(kind, arg, base, seq, S, h)
  BY <1>5, <1>6 DEF FoldOver, FoldUpTo
<1> QED
  BY <1>7

\* The values for the first positions are a trace.
LEMMA FoldTrace ==
    ASSUME NEW kind, NEW arg, NEW base, NEW seq, NEW k \in Nat, NEW h,
           FoldOver(kind, arg, base, seq, 1..k, h)
    PROVE  \E r : IsTrace(kind, arg, base, seq, k, r) /\ h[1..k] = r[k]
<1> DEFINE r == [i \in 0..k |-> h[1..i]]
<1>1. r[0] = base
  <2>1. 1..0 = {} /\ {} \in SUBSET (1..k)
    OBVIOUS
  <2>2. h[{}] = base
    BY <2>1 DEF FoldOver
  <2> QED
    BY <2>1, <2>2
<1>2. ASSUME NEW i \in 1..k PROVE r[i] = Step(kind, arg, r[i - 1], seq[i])
  <2>0. i \in Nat \ {0} /\ i <= k /\ i \in 1..i
    OBVIOUS
  <2>1. 1..i \in SUBSET (1..k) /\ 1..i # {} /\ i - 1 \in 0..k
    <3>1. \A j \in 1..i : j \in 1..k
      BY <2>0
    <3>2. i - 1 \in 0..k
      BY <2>0
    <3> QED
      BY <2>0, <3>1, <3>2
  <2>2. h[1..i] = Step(kind, arg, h[(1..i) \ {Max(1..i)}], seq[Max(1..i)])
    BY <2>1 DEF FoldOver
  <2>3. h[1..i] = Step(kind, arg, h[1..(i - 1)], seq[i])
    BY <2>0, <2>2, MaxUpTo
  <2> QED
    BY <2>1, <2>3
<1>3. IsTrace(kind, arg, base, seq, k, r) /\ h[1..k] = r[k]
  BY <1>1, <1>2 DEF IsTrace
<1> HIDE DEF r
<1> QED
  BY <1>3

\* The sequence of a finite set has each element once.
LEMMA SeqOfSet ==
    ASSUME NEW S, IsFiniteSet(S)
    PROVE  /\ Cardinality(S) \in Nat /\ SetToSeq(S) \in [1..Cardinality(S) -> S]
           /\ \A i, j \in 1..Cardinality(S) : SetToSeq(S)[i] = SetToSeq(S)[j] => i = j
           /\ \A x \in S : \E i \in 1..Cardinality(S) : SetToSeq(S)[i] = x
<1> DEFINE n == Cardinality(S)
           q == SetToSeq(S)
<1>1. n \in Nat /\ ExistsBijection(1..n, S)
  BY FS_CardinalityType
<1>2. \E f \in [1..n -> S] : IsInjective(f)
  BY <1>1 DEF ExistsBijection, Bijection, Injection, IsInjective
<1>3. q \in [1..n -> S] /\ IsInjective(q)
  BY <1>2, Zenon DEF SetToSeq
<1>4. \A i, j \in 1..n : q[i] = q[j] => i = j
  BY <1>3 DEF IsInjective
<1>5. ASSUME NEW x \in S PROVE \E i \in 1..n : q[i] = x
  <2>1. IsFiniteSet(1..n) /\ Cardinality(1..n) = n
    BY <1>1, FS_Interval
  <2> HIDE DEF n, q
  <2> DEFINE T == {q[i] : i \in 1..n}
  <2>2. q \in Surjection(1..n, T) /\ q \in [1..n -> T]
    BY <1>3 DEF Surjection
  <2>3. IsFiniteSet(T) /\ Cardinality(T) = n
    <3>1. q \in Bijection(1..n, T)
      BY <2>2, <1>4 DEF Bijection, Injection, IsInjective
    <3> QED
      BY <3>1, <2>1, FS_Bijection DEF ExistsBijection
  <2>4. T \subseteq S /\ Cardinality(S) = n
    BY <1>3 DEF n
  <2>5. T = S
    BY <2>3, <2>4, FS_Subset
  <2> QED
    BY <2>5
<1> QED
  BY <1>1, <1>3, <1>4, <1>5

\* The trace of a slash for each element of a set.
LEMMA SlashTrace ==
    ASSUME NEW base, NEW arg, NEW S, IsFiniteSet(S)
    PROVE  \E r : /\ IsTrace("slash", arg, base, SetToSeq(S), Cardinality(S), r)
                  /\ SlashAll(base, S, arg) = r[Cardinality(S)]
<1> DEFINE q == SetToSeq(S)
           k == Cardinality(S)
           Is(h) == h = [s \in SUBSET DOMAIN q |->
                            IF s = {} THEN base ELSE SlashEscrow(h[s \ {Max(s)}], q[Max(s)], arg)]
           it == CHOOSE h : Is(h)
<1>1. k \in Nat /\ DOMAIN q = 1..k
  BY SeqOfSet
<1>2. ASSUME NEW h PROVE FoldOver("slash", arg, base, q, 1..k, h) <=> Is(h)
  <2> HIDE DEF q, k
  <2> QED
    BY <1>1 DEF FoldOver, Step
<1>3. SlashAll(base, S, arg) = it[DOMAIN q]
  BY DEF SlashAll, FoldLeft, MapThenFoldSet
<1>4. \E h : Is(h)
  <2> HIDE DEF Is, q, k
  <2> QED
    BY <1>1, <1>2, FoldExists
<1>5. Is(it)
  <2> HIDE DEF Is
  <2> QED
    BY <1>4, Zenon
<1> HIDE DEF it, q, k
<1>6. FoldOver("slash", arg, base, q, 1..k, it)
  BY <1>2, <1>5
<1>7. \E r : IsTrace("slash", arg, base, q, k, r) /\ it[1..k] = r[k]
  BY <1>1, <1>6, FoldTrace
<1> QED
  BY <1>1, <1>3, <1>7 DEF q, k

\* The trace of a payment for each element of a set.
LEMMA PayTrace ==
    ASSUME NEW base, NEW arg, NEW S, IsFiniteSet(S)
    PROVE  \E r : /\ IsTrace("pay", arg, base, SetToSeq(S), Cardinality(S), r)
                  /\ CommonToEscrows(base, S, arg) = r[Cardinality(S)]
<1> DEFINE q == SetToSeq(S)
           k == Cardinality(S)
           Is(h) == h = [s \in SUBSET DOMAIN q |->
                            IF s = {} THEN base ELSE CommonToEscrow(h[s \ {Max(s)}], q[Max(s)], arg)]
           it == CHOOSE h : Is(h)
<1>1. k \in Nat /\ DOMAIN q = 1..k
  BY SeqOfSet
<1>2. ASSUME NEW h PROVE FoldOver("pay", arg, base, q, 1..k, h) <=> Is(h)
  <2> HIDE DEF q, k
  <2> QED
    BY <1>1 DEF FoldOver, Step
<1>3. CommonToEscrows(base, S, arg) = it[DOMAIN q]
  BY DEF CommonToEscrows, FoldLeft, MapThenFoldSet
<1>4. \E h : Is(h)
  <2> HIDE DEF Is, q, k
  <2> QED
    BY <1>1, <1>2, FoldExists
<1>5. Is(it)
  <2> HIDE DEF Is
  <2> QED
    BY <1>4, Zenon
<1> HIDE DEF it, q, k
<1>6. FoldOver("pay", arg, base, q, 1..k, it)
  BY <1>2, <1>5
<1>7. \E r : IsTrace("pay", arg, base, q, k, r) /\ it[1..k] = r[k]
  BY <1>1, <1>6, FoldTrace
<1> QED
  BY <1>1, <1>3, <1>7 DEF q, k

\* The trace of a reward for each element of a set.
LEMMA RewardTrace ==
    ASSUME NEW base, NEW S, IsFiniteSet(S)
    PROVE  \E r : /\ IsTrace("reward", 0, base, SetToSeq(S), Cardinality(S), r)
                  /\ AddRewards(base, S) = r[Cardinality(S)]
<1> DEFINE q == SetToSeq(S)
           k == Cardinality(S)
           Is(h) == h = [s \in SUBSET DOMAIN q |->
                            IF s = {} THEN base ELSE AddReward(h[s \ {Max(s)}], q[Max(s)], RewardFactor.num, RewardFactor.den)]
           it == CHOOSE h : Is(h)
<1>1. k \in Nat /\ DOMAIN q = 1..k
  BY SeqOfSet
<1>2. ASSUME NEW h PROVE FoldOver("reward", 0, base, q, 1..k, h) <=> Is(h)
  <2> HIDE DEF q, k
  <2> QED
    BY <1>1 DEF FoldOver, Step
<1>3. AddRewards(base, S) = it[DOMAIN q]
  BY DEF AddRewards, FoldLeft, MapThenFoldSet
<1>4. \E h : Is(h)
  <2> HIDE DEF Is, q, k
  <2> QED
    BY <1>1, <1>2, FoldExists
<1>5. Is(it)
  <2> HIDE DEF Is
  <2> QED
    BY <1>4, Zenon
<1> HIDE DEF it, q, k
<1>6. FoldOver("reward", 0, base, q, 1..k, it)
  BY <1>2, <1>5
<1>7. \E r : IsTrace("reward", 0, base, q, k, r) /\ it[1..k] = r[k]
  BY <1>1, <1>6, FoldTrace
<1> QED
  BY <1>1, <1>3, <1>7 DEF q, k

\* The trace of a payout for each element of a set.
LEMMA RedeemTrace ==
    ASSUME NEW base, NEW S, IsFiniteSet(S)
    PROVE  \E r : /\ IsTrace("redeem", 0, base, SetToSeq(S), Cardinality(S), r)
                  /\ RedeemAll(base, S) = r[Cardinality(S)]
<1> DEFINE q == SetToSeq(S)
           k == Cardinality(S)
           Is(h) == h = [s \in SUBSET DOMAIN q |->
                            IF s = {} THEN base ELSE Redeem(h[s \ {Max(s)}], q[Max(s)])]
           it == CHOOSE h : Is(h)
<1>1. k \in Nat /\ DOMAIN q = 1..k
  BY SeqOfSet
<1>2. ASSUME NEW h PROVE FoldOver("redeem", 0, base, q, 1..k, h) <=> Is(h)
  <2> HIDE DEF q, k
  <2> QED
    BY <1>1 DEF FoldOver, Step
<1>3. RedeemAll(base, S) = it[DOMAIN q]
  BY DEF RedeemAll, FoldLeft, MapThenFoldSet
<1>4. \E h : Is(h)
  <2> HIDE DEF Is, q, k
  <2> QED
    BY <1>1, <1>2, FoldExists
<1>5. Is(it)
  <2> HIDE DEF Is
  <2> QED
    BY <1>4, Zenon
<1> HIDE DEF it, q, k
<1>6. FoldOver("redeem", 0, base, q, 1..k, it)
  BY <1>2, <1>5
<1>7. \E r : IsTrace("redeem", 0, base, q, k, r) /\ it[1..k] = r[k]
  BY <1>1, <1>6, FoldTrace
<1> QED
  BY <1>1, <1>3, <1>7 DEF q, k

-----------------------------------------------------------------------------
(***************************************************************************)
(* Arithmetic.                                                               *)
(***************************************************************************)
LEMMA MulNat == ASSUME NEW a \in Nat, NEW b \in Nat PROVE a * b \in Nat
OBVIOUS

LEMMA DivNat ==
    ASSUME NEW a \in Nat, NEW b \in Nat \ {0}
    PROVE  a \div b \in Nat /\ b * (a \div b) <= a /\ a < b * (a \div b) + b
OBVIOUS

\* A part of a, of at most the whole.
LEMMA PartOf ==
    ASSUME NEW a \in Nat, NEW b \in Nat, NEW d \in Nat \ {0}, b <= d
    PROVE  (a * b) \div d \in 0..a
<1>1. a * b \in Nat /\ a * d \in Nat /\ a * b <= a * d
  OBVIOUS
<1> DEFINE q == (a * b) \div d
<1>2. q \in Nat /\ d * q <= a * b
  BY <1>1, DivNat
<1> HIDE DEF q
<1>3. ASSUME q >= a + 1 PROVE FALSE
  <2>1. d * q >= d * (a + 1)
    BY <1>2, <1>3
  <2>2. d * (a + 1) = a * d + d
    OBVIOUS
  <2> QED
    BY <1>1, <1>2, <2>1, <2>2
<1>4. q <= a
  BY <1>2, <1>3
<1> QED
  BY <1>2, <1>4 DEF q

LEMMA SlashAmountTyped ==
    ASSUME NEW p \in SharePool, NEW a \in Nat, NEW total \in Nat
    PROVE  SlashAmount(p, a, total) \in 0..p.balance
<1>1. p.balance \in Nat /\ p.balance * a \in Nat
  BY MulNat DEF SharePool
<1>2. total # 0 => (p.balance * a) \div total \in Nat
  BY <1>1, DivNat
<1> QED
  BY <1>1, <1>2 DEF SlashAmount

-----------------------------------------------------------------------------
(***************************************************************************)
(* The parts of a ledger that add up.                                        *)
(***************************************************************************)
Typed(l) == DOMAIN l.debs \subseteq DebondingKey /\ l \in Ledger(DOMAIN l.debs)

DebsOf(l, x) == {k \in DOMAIN l.debs : k[2] = x}

ActiveBacked(l, x) ==
    /\ l.active[x].shares = SumFunctionOnSet(SharesIn(l, x), Addr)
    /\ l.active[x].shares = 0 => l.active[x].balance = 0

DebondingBacked(l, x) ==
    /\ l.debonding[x].shares = SumFunctionOnSet(l.debs, DebsOf(l, x))
    /\ l.debonding[x].shares = 0 => l.debonding[x].balance = 0

Backed(l) == \A x \in Addr : ActiveBacked(l, x) /\ DebondingBacked(l, x)

Sound(l) == Typed(l) /\ Backed(l)

\* All tokens but the fees in flight.
Worth(l) == l.commonPool + l.deposits + SumFunctionOnSet(Holdings(l), Addr)

Shape(l) ==
    l = [general |-> l.general, allowance |-> l.allowance, active |-> l.active,
         debonding |-> l.debonding, delegation |-> l.delegation, debs |-> l.debs,
         commonPool |-> l.commonPool, lastFees |-> l.lastFees, deposits |-> l.deposits,
         total |-> l.total]

LEMMA TypedFields ==
    ASSUME NEW l, Typed(l)
    PROVE  /\ Shape(l) /\ DOMAIN l.debs \subseteq DebondingKey
           /\ l.general \in [Addr -> Nat] /\ l.allowance \in [Addr -> [Addr -> Nat]]
           /\ l.active \in [Addr -> SharePool] /\ l.debonding \in [Addr -> SharePool]
           /\ l.delegation \in [Addr -> [Addr -> Nat]] /\ l.debs \in [DOMAIN l.debs -> Nat]
           /\ l.commonPool \in Nat /\ l.lastFees \in Nat /\ l.deposits \in Nat /\ l.total \in Nat
BY DEF Typed, Ledger, Shape

LEMMA TypedIf ==
    ASSUME NEW l, Shape(l), DOMAIN l.debs \subseteq DebondingKey,
           l.general \in [Addr -> Nat], l.allowance \in [Addr -> [Addr -> Nat]],
           l.active \in [Addr -> SharePool], l.debonding \in [Addr -> SharePool],
           l.delegation \in [Addr -> [Addr -> Nat]], l.debs \in [DOMAIN l.debs -> Nat],
           l.commonPool \in Nat, l.lastFees \in Nat, l.deposits \in Nat, l.total \in Nat
    PROVE  Typed(l)
BY DEF Typed, Ledger, Shape

LEMMA HoldingsNat ==
    ASSUME StakingAssumption, NEW l, Typed(l)
    PROVE  /\ \A x \in Addr : Holdings(l)[x] \in Nat
           /\ SumFunctionOnSet(Holdings(l), Addr) \in Nat /\ Worth(l) \in Nat
<1>1. \A x \in Addr : Holdings(l)[x] \in Nat
  BY TypedFields DEF Holdings, SharePool
<1>2. IsFiniteSet(Addr)
  BY DEF StakingAssumption
<1>3. SumFunctionOnSet(Holdings(l), Addr) \in Nat
  BY <1>1, <1>2, SumNat
<1> QED
  BY <1>1, <1>3, TypedFields DEF Worth

\* At most two elements of a sum change.
TwoChange(f, g, S, a, b, u, v) ==
    \A y \in S : /\ f[y] \in Int /\ g[y] \in Int
                 /\ g[y] = f[y] + (IF y = a THEN u ELSE 0) + (IF y = b THEN v ELSE 0)

LEMMA SumTwo ==
    ASSUME NEW S, IsFiniteSet(S), NEW f, NEW g, NEW a \in S, NEW b \in S, NEW u \in Int, NEW v \in Int,
           TwoChange(f, g, S, a, b, u, v)
    PROVE  SumFunctionOnSet(g, S) = SumFunctionOnSet(f, S) + u + v
<1> USE DEF TwoChange
<1> DEFINE h == [y \in S |-> f[y] + (IF y = a THEN u ELSE 0)]
<1>1. \A y \in S : h[y] \in Int /\ h[y] = f[y] + (IF y = a THEN u ELSE 0)
  OBVIOUS
<1> HIDE DEF h
<1>2. SumFunctionOnSet(h, S) = SumFunctionOnSet(f, S) - f[a] + h[a]
  <2>1. \A y \in S \ {a} : h[y] = f[y]
    BY <1>1
  <2> QED
    BY <1>1, <2>1, SumChange
<1>3. SumFunctionOnSet(g, S) = SumFunctionOnSet(h, S) - h[b] + g[b]
  <2>1. \A y \in S \ {b} : g[y] = h[y]
    BY <1>1
  <2> QED
    BY <1>1, <2>1, SumChange
<1>4. SumFunctionOnSet(f, S) \in Int
  BY SumInt
<1>5. h[a] = f[a] + u /\ g[b] = h[b] + v /\ f[a] \in Int /\ h[b] \in Int
  BY <1>1
<1> QED
  BY <1>2, <1>3, <1>4, <1>5

\* What a change of two accounts, the common pool and the deposits does.
Moved(l, m, a, b, u, v) ==
    \A y \in Addr : Holdings(m)[y] = Holdings(l)[y] + (IF y = a THEN u ELSE 0) + (IF y = b THEN v ELSE 0)

LEMMA WorthTwo ==
    ASSUME StakingAssumption, NEW l, Typed(l), NEW m, Typed(m), NEW a \in Addr, NEW b \in Addr,
           NEW u \in Int, NEW v \in Int, Moved(l, m, a, b, u, v)
    PROVE  Worth(m) = Worth(l) - l.commonPool - l.deposits + m.commonPool + m.deposits + u + v
<1>1. IsFiniteSet(Addr)
  BY DEF StakingAssumption
<1>2. \A y \in Addr : Holdings(l)[y] \in Int /\ Holdings(m)[y] \in Int
  BY HoldingsNat
<1>3. SumFunctionOnSet(Holdings(m), Addr) = SumFunctionOnSet(Holdings(l), Addr) + u + v
  <2>1. TwoChange(Holdings(l), Holdings(m), Addr, a, b, u, v)
    BY <1>2 DEF TwoChange, Moved
  <2> QED
    BY <1>1, <2>1, SumTwo
<1>4. SumFunctionOnSet(Holdings(l), Addr) \in Nat
  BY HoldingsNat
<1>5. l.commonPool \in Nat /\ l.deposits \in Nat /\ m.commonPool \in Nat /\ m.deposits \in Nat
  BY TypedFields
<1> QED
  BY <1>3, <1>4, <1>5 DEF Worth

\* A change of one account.
LEMMA WorthOne ==
    ASSUME StakingAssumption, NEW l, Typed(l), NEW m, Typed(m), NEW a \in Addr, NEW u \in Int,
           \A y \in Addr : Holdings(m)[y] = Holdings(l)[y] + (IF y = a THEN u ELSE 0)
    PROVE  Worth(m) = Worth(l) - l.commonPool - l.deposits + m.commonPool + m.deposits + u
<1>1. Moved(l, m, a, a, u, 0)
  BY HoldingsNat DEF Moved
<1>2. Worth(m) = Worth(l) - l.commonPool - l.deposits + m.commonPool + m.deposits + u + 0
  BY <1>1, WorthTwo
<1> QED
  BY <1>2, HoldingsNat, TypedFields

\* Pools whose delegations are the same stay backed.
LEMMA ActiveSame ==
    ASSUME StakingAssumption, NEW l, NEW m, NEW x \in Addr, ActiveBacked(l, x),
           \A y \in Addr : m.delegation[y][x] = l.delegation[y][x],
           m.active[x].shares = l.active[x].shares,
           l.active[x].shares = 0 => m.active[x].balance = 0
    PROVE  ActiveBacked(m, x)
<1>1. SharesIn(m, x) = SharesIn(l, x)
  BY DEF SharesIn
<1> QED
  BY <1>1 DEF ActiveBacked

LEMMA DebondingSame ==
    ASSUME NEW l, NEW m, NEW x \in Addr, DebondingBacked(l, x), m.debs = l.debs,
           m.debonding[x].shares = l.debonding[x].shares,
           l.debonding[x].shares = 0 => m.debonding[x].balance = 0
    PROVE  DebondingBacked(m, x)
BY DEF DebondingBacked, DebsOf

-----------------------------------------------------------------------------
(***************************************************************************)
(* The operations on the ledger.                                             *)
(***************************************************************************)
LEMMA SlashedTyped ==
    ASSUME NEW l, Typed(l), NEW x \in Addr, NEW a \in Nat
    PROVE  /\ SlashedOf(l, x, a).active \in 0..l.active[x].balance
           /\ SlashedOf(l, x, a).debonding \in 0..l.debonding[x].balance
           /\ Slashed(l, a)[x] = SlashedOf(l, x, a).active + SlashedOf(l, x, a).debonding
           /\ Slashed(l, a)[x] \in Nat
<1>1. /\ l.active[x] \in SharePool /\ l.debonding[x] \in SharePool
      /\ l.active[x].balance \in Nat /\ l.debonding[x].balance \in Nat
  BY TypedFields DEF SharePool
<1>2. l.active[x].balance + l.debonding[x].balance \in Nat
  BY <1>1
<1>3. /\ SlashedOf(l, x, a).active \in 0..l.active[x].balance
      /\ SlashedOf(l, x, a).debonding \in 0..l.debonding[x].balance
  BY <1>1, <1>2, SlashAmountTyped DEF SlashedOf
<1> QED
  BY <1>1, <1>3 DEF Slashed

\* The ledger m is l after the pools of x were slashed.
SlashedIn(l, m, x, a) ==
    /\ Sound(m) /\ Worth(m) = Worth(l)
    /\ m.commonPool = l.commonPool + Slashed(l, a)[x]
    /\ m.general = l.general /\ m.delegation = l.delegation /\ m.debs = l.debs
    /\ m.total = l.total /\ m.lastFees = l.lastFees /\ m.deposits = l.deposits
    /\ \A y \in Addr \ {x} : m.active[y] = l.active[y] /\ m.debonding[y] = l.debonding[y]
    /\ m.active[x].balance = l.active[x].balance - SlashedOf(l, x, a).active
    /\ m.active[x].shares = l.active[x].shares

LEMMA SlashEffect ==
    ASSUME StakingAssumption, NEW l, Sound(l), NEW x \in Addr, NEW a \in Nat,
           NEW m, m = SlashEscrow(l, x, a)
    PROVE  SlashedIn(l, m, x, a)
<1> DEFINE s == SlashedOf(l, x, a)
<1>0. Typed(l) /\ Backed(l)
  BY DEF Sound
<1>1. s.active \in 0..l.active[x].balance /\ s.debonding \in 0..l.debonding[x].balance /\ Slashed(l, a)[x] = s.active + s.debonding
  BY <1>0, SlashedTyped
<1>2. /\ l.active[x] \in SharePool /\ l.debonding[x] \in SharePool
      /\ l.active \in [Addr -> SharePool] /\ l.debonding \in [Addr -> SharePool]
      /\ l.commonPool \in Nat
  BY <1>0, TypedFields
<1>3. /\ Shape(m)
      /\ m.active = [l.active EXCEPT ![x].balance = @ - s.active]
      /\ m.debonding = [l.debonding EXCEPT ![x].balance = @ - s.debonding]
      /\ m.commonPool = l.commonPool + s.active + s.debonding
      /\ m.general = l.general /\ m.delegation = l.delegation /\ m.debs = l.debs /\ m.allowance = l.allowance
      /\ m.total = l.total /\ m.lastFees = l.lastFees /\ m.deposits = l.deposits
  <2> HIDE DEF s
  <2>1. Shape(l)
    BY <1>0, TypedFields
  <2> QED
    BY <2>1 DEF SlashEscrow, Shape, s
<1> HIDE DEF s
<1>4. m.active \in [Addr -> SharePool] /\ m.debonding \in [Addr -> SharePool] /\ m.commonPool \in Nat
  BY <1>1, <1>2, <1>3 DEF SharePool
<1>5. Typed(m)
  BY <1>0, <1>3, <1>4, TypedFields, TypedIf
<1>6. \A y \in Addr \ {x} : m.active[y] = l.active[y] /\ m.debonding[y] = l.debonding[y]
  BY <1>2, <1>3
<1>7. /\ m.active[x].balance = l.active[x].balance - s.active /\ m.active[x].shares = l.active[x].shares
      /\ m.debonding[x].balance = l.debonding[x].balance - s.debonding /\ m.debonding[x].shares = l.debonding[x].shares
  BY <1>2, <1>3 DEF SharePool
<1>8. Backed(m)
  <2> SUFFICES ASSUME NEW y \in Addr PROVE ActiveBacked(m, y) /\ DebondingBacked(m, y)
    BY DEF Backed
  <2>1. ActiveBacked(l, y) /\ DebondingBacked(l, y)
    BY <1>0 DEF Backed
  <2>2. m.active[y].shares = l.active[y].shares /\ m.debonding[y].shares = l.debonding[y].shares
    BY <1>6, <1>7
  <2>3. /\ l.active[y].shares = 0 => l.active[y].balance = 0
        /\ l.debonding[y].shares = 0 => l.debonding[y].balance = 0
    BY <2>1 DEF ActiveBacked, DebondingBacked
  <2>4. /\ l.active[y].shares = 0 => m.active[y].balance = 0
        /\ l.debonding[y].shares = 0 => m.debonding[y].balance = 0
    <3>1. CASE y = x
      <4>1. l.active[x].shares = 0 => s.active = 0 /\ m.active[x].balance = 0
        BY <1>1, <1>7, <2>3, <3>1
      <4>2. l.debonding[x].shares = 0 => s.debonding = 0 /\ m.debonding[x].balance = 0
        BY <1>1, <1>7, <2>3, <3>1
      <4> QED
        BY <3>1, <4>1, <4>2
    <3>2. CASE y # x
      BY <1>6, <2>3, <3>2
    <3> QED
      BY <3>1, <3>2
  <2> QED
    BY <1>3, <2>1, <2>2, <2>4, ActiveSame, DebondingSame, ZenonT(30)
<1>9. Worth(m) = Worth(l)
  <2>1. l.active[x].balance \in Nat /\ l.debonding[x].balance \in Nat /\ s.active \in Nat /\ s.debonding \in Nat
    BY <1>1, <1>2 DEF SharePool
  <2>2. \A y \in Addr : Holdings(m)[y] = Holdings(l)[y] + (IF y = x THEN -(s.active + s.debonding) ELSE 0)
    <3> SUFFICES ASSUME NEW y \in Addr PROVE Holdings(m)[y] = Holdings(l)[y] + (IF y = x THEN -(s.active + s.debonding) ELSE 0)
      OBVIOUS
    <3>1. Holdings(m)[y] = m.general[y] + m.active[y].balance + m.debonding[y].balance /\ Holdings(l)[y] = l.general[y] + l.active[y].balance + l.debonding[y].balance
      BY DEF Holdings
    <3>2. l.general[y] \in Nat /\ l.active[y].balance \in Nat /\ l.debonding[y].balance \in Nat /\ m.general[y] = l.general[y]
      BY <1>0, <1>3, TypedFields DEF SharePool
    <3> QED
      BY <1>6, <1>7, <2>1, <3>1, <3>2
  <2>3. Worth(m) = Worth(l) - l.commonPool - l.deposits + m.commonPool + m.deposits - (s.active + s.debonding)
    <3>1. -(s.active + s.debonding) \in Int
      BY <2>1
    <3>2. Worth(m) = Worth(l) - l.commonPool - l.deposits + m.commonPool + m.deposits + (-(s.active + s.debonding))
      BY <1>0, <1>5, <2>2, <3>1, WorthOne
    <3> QED
      BY <1>0, <1>5, <2>1, <3>2, HoldingsNat, TypedFields
  <2>4. l.commonPool \in Nat /\ l.deposits \in Nat /\ Worth(l) \in Nat
    BY <1>0, TypedFields, HoldingsNat
  <2> QED
    BY <1>3, <2>1, <2>3, <2>4
<1>10. m.commonPool = l.commonPool + Slashed(l, a)[x]
  BY <1>1, <1>2, <1>3
<1>11. /\ m.active[x].balance = l.active[x].balance - SlashedOf(l, x, a).active
       /\ m.active[x].shares = l.active[x].shares
  BY <1>7 DEF s
<1> QED
  BY <1>3, <1>5, <1>6, <1>8, <1>9, <1>10, <1>11 DEF Sound, SlashedIn

-----------------------------------------------------------------------------
(***************************************************************************)
(* Share pools.                                                              *)
(***************************************************************************)
LEMMA SharesTyped ==
    ASSUME NEW p \in SharePool, NEW a \in Nat, CanDeposit(p)
    PROVE  SharesForStake(p, a) \in Nat /\ Deposit(p, a) \in SharePool
<1>1. p.balance \in Nat /\ p.shares \in Nat /\ a * p.shares \in Nat
  BY MulNat DEF SharePool
<1>2. p.shares # 0 => (a * p.shares) \div p.balance \in Nat
  BY <1>1, DivNat DEF CanDeposit
<1>3. SharesForStake(p, a) \in Nat
  BY <1>1, <1>2 DEF SharesForStake
<1> QED
  BY <1>1, <1>3 DEF Deposit, SharePool

LEMMA StakeTyped ==
    ASSUME NEW p \in SharePool, NEW n \in Nat, n <= p.shares
    PROVE  /\ StakeForShares(p, n) \in 0..p.balance /\ Withdraw(p, n) \in SharePool
           /\ n = p.shares /\ n # 0 => StakeForShares(p, n) = p.balance
<1>1. p.balance \in Nat /\ p.shares \in Nat
  BY DEF SharePool
<1>2. p.shares # 0 => (n * p.balance) \div p.shares \in 0..p.balance
  <2>1. p.shares # 0 => (p.balance * n) \div p.shares \in 0..p.balance
    BY <1>1, PartOf
  <2>2. p.balance * n = n * p.balance
    BY <1>1
  <2> QED
    BY <2>1, <2>2
<1>3. StakeForShares(p, n) \in 0..p.balance
  BY <1>1, <1>2 DEF StakeForShares
<1>4. ASSUME n = p.shares, n # 0 PROVE StakeForShares(p, n) = p.balance
  <2>1. (n * p.balance) \div n = p.balance
    BY <1>1, <1>4
  <2> QED
    BY <1>1, <1>4, <2>1 DEF StakeForShares
<1>5. Withdraw(p, n) \in SharePool
  <2>1. p.balance - StakeForShares(p, n) \in Nat /\ p.shares - n \in Nat
    BY <1>1, <1>3
  <2> QED
    BY <2>1 DEF Withdraw, SharePool
<1> QED
  BY <1>3, <1>4, <1>5

\* Rounding is against who deposits, withdraws or is paid.
LEMMA DepositKeepsValue ==
    ASSUME NEW p \in SharePool, NEW a \in Nat, CanDeposit(p)
    PROVE  NotDiluted(p, Deposit(p, a))
<1> SUFFICES ASSUME p.shares # 0 PROVE NotDiluted(p, Deposit(p, a))
  BY DEF NotDiluted
<1> DEFINE b == p.balance
           s == p.shares
           e == (a * s) \div b
<1>1. b \in Nat \ {0} /\ s \in Nat /\ a * s \in Nat
  BY MulNat DEF SharePool, CanDeposit
<1>2. e \in Nat /\ b * e <= a * s
  BY <1>1, DivNat
<1>3. Deposit(p, a).balance = b + a /\ Deposit(p, a).shares = s + e
  BY DEF Deposit, SharesForStake
<1> HIDE DEF b, s, e
<1>4. (b + a) * s = b * s + a * s /\ b * (s + e) = b * s + b * e
  BY <1>1, <1>2
<1>5. b * s \in Nat /\ b * e \in Nat
  BY <1>1, <1>2, MulNat
<1>6. (b + a) * s >= b * (s + e)
  BY <1>1, <1>2, <1>4, <1>5
<1> QED
  BY <1>3, <1>6 DEF NotDiluted, b, s

LEMMA WithdrawKeepsValue ==
    ASSUME NEW p \in SharePool, NEW n \in Nat, n <= p.shares
    PROVE  NotDiluted(p, Withdraw(p, n))
<1> SUFFICES ASSUME p.shares # 0 PROVE NotDiluted(p, Withdraw(p, n))
  BY DEF NotDiluted
<1> DEFINE b == p.balance
           s == p.shares
           v == StakeForShares(p, n)
<1>1. b \in Nat /\ s \in Nat \ {0} /\ n * b \in Nat
  BY MulNat DEF SharePool
<1>2. v \in Nat /\ s * v <= n * b
  <2>1. (n * b) \div s \in Nat /\ s * ((n * b) \div s) <= n * b
    BY <1>1, DivNat
  <2>2. v = 0 \/ v = (n * b) \div s
    BY DEF StakeForShares
  <2>3. s * 0 = 0
    BY <1>1
  <2> HIDE DEF v, b, s
  <2> QED
    BY <1>1, <2>1, <2>2, <2>3
<1>3. Withdraw(p, n).balance = b - v /\ Withdraw(p, n).shares = s - n
  BY DEF Withdraw
<1> HIDE DEF b, s, v
<1>4. (b - v) * s = b * s - s * v /\ b * (s - n) = b * s - n * b
  BY <1>1, <1>2
<1>5. b * s \in Nat /\ s * v \in Nat
  BY <1>1, <1>2, MulNat
<1>6. (b - v) * s >= b * (s - n)
  BY <1>1, <1>2, <1>4, <1>5
<1> QED
  BY <1>3, <1>6 DEF NotDiluted, b, s

LEMMA ValueTransitive ==
    ASSUME NEW p \in SharePool, NEW q \in SharePool, NEW r \in SharePool,
           NotDiluted(p, q), NotDiluted(q, r), q.shares = 0 => p.shares = 0 \/ r.shares = 0
    PROVE  NotDiluted(p, r)
<1> SUFFICES ASSUME p.shares # 0, r.shares # 0 PROVE NotDiluted(p, r)
  BY DEF NotDiluted
<1> DEFINE pb == p.balance
           ps == p.shares
           qb == q.balance
           qs == q.shares
           rb == r.balance
           rs == r.shares
<1>1. pb \in Nat /\ ps \in Nat /\ qb \in Nat /\ qs \in Nat \ {0} /\ rb \in Nat /\ rs \in Nat
  BY DEF SharePool
<1>2. qb * ps >= pb * qs /\ rb * qs >= qb * rs
  BY DEF NotDiluted
<1>3. SUFFICES rb * ps >= pb * rs
  BY DEF NotDiluted
<1> HIDE DEF pb, ps, qb, qs, rb, rs
<1>4. \A a, b, c \in Nat : a * b \in Nat /\ (a >= b => a * c >= b * c)
  OBVIOUS
<1>5. (rb * qs) * ps >= (qb * rs) * ps
  BY <1>1, <1>2, <1>4
<1>6. (qb * ps) * rs >= (pb * qs) * rs
  BY <1>1, <1>2, <1>4
<1>7. (qb * rs) * ps = (qb * ps) * rs /\ (rb * qs) * ps = (rb * ps) * qs /\ (pb * qs) * rs = (pb * rs) * qs
  BY <1>1
<1>8. (rb * ps) * qs >= (pb * rs) * qs
  <2>1. (rb * qs) * ps \in Nat /\ (qb * rs) * ps \in Nat /\ (pb * qs) * rs \in Nat
    BY <1>1, <1>4
  <2> QED
    BY <1>5, <1>6, <1>7, <2>1
<1>9. \A a, b \in Nat : \A c \in Nat \ {0} : a * c >= b * c => a >= b
  OBVIOUS
<1> QED
  BY <1>1, <1>4, <1>8, <1>9

-----------------------------------------------------------------------------
\* What a pool gets, of which com is delegated to its own account.
Raised(l, x, q, com) == [l EXCEPT !.commonPool = @ - q, !.active[x].balance = @ + q - com]

IntoEscrow(l, x, q, com) ==
    LET l1 == Raised(l, x, q, com)
    IN  IF com = 0 THEN l1 ELSE DepositOwn(l1, x, com)

\* The shares of a pool change with what one account has of them.
MoreShares(l, m, x, a, e) ==
    \A y \in Addr : m.delegation[y][x] = l.delegation[y][x] + (IF y = a THEN e ELSE 0)

LEMMA SharesOne ==
    ASSUME StakingAssumption, NEW l, Typed(l), NEW m, Typed(m), NEW x \in Addr, NEW a \in Addr, NEW e \in Int,
           MoreShares(l, m, x, a, e)
    PROVE  SumFunctionOnSet(SharesIn(m, x), Addr) = SumFunctionOnSet(SharesIn(l, x), Addr) + e
<1>1. \A y \in Addr : l.delegation[y][x] \in Nat /\ m.delegation[y][x] \in Nat
  BY TypedFields
<1>2. TwoChange(SharesIn(l, x), SharesIn(m, x), Addr, a, a, e, 0)
  BY <1>1 DEF TwoChange, SharesIn, MoreShares
<1>3. IsFiniteSet(Addr)
  BY DEF StakingAssumption
<1>4. SumFunctionOnSet(SharesIn(m, x), Addr) = SumFunctionOnSet(SharesIn(l, x), Addr) + e + 0
  BY <1>2, <1>3, SumTwo
<1>5. SumFunctionOnSet(SharesIn(l, x), Addr) \in Nat
  <2>1. \A y \in Addr : SharesIn(l, x)[y] \in Nat
    BY <1>1 DEF SharesIn
  <2> QED
    BY <1>3, <2>1, SumNat
<1> QED
  BY <1>4, <1>5

LEMMA IntoEscrowFields ==
    ASSUME NEW l, Typed(l), NEW x \in Addr, NEW q \in Nat, NEW com \in 0..q, NEW m, m = IntoEscrow(l, x, q, com),
           NEW p, p = [balance |-> l.active[x].balance + q - com, shares |-> l.active[x].shares],
           NEW e, e = IF com = 0 THEN 0 ELSE SharesForStake(p, com)
    PROVE  /\ Shape(m)
           /\ m.active = [l.active EXCEPT ![x] = [balance |-> l.active[x].balance + q, shares |-> l.active[x].shares + e]]
           /\ m.delegation = [l.delegation EXCEPT ![x] = [l.delegation[x] EXCEPT ![x] = l.delegation[x][x] + e]]
           /\ m.commonPool = l.commonPool - q
           /\ m.general = l.general /\ m.debonding = l.debonding /\ m.debs = l.debs /\ m.allowance = l.allowance
           /\ m.total = l.total /\ m.lastFees = l.lastFees /\ m.deposits = l.deposits
<1>1. Shape(l) /\ l.active \in [Addr -> SharePool] /\ l.delegation \in [Addr -> [Addr -> Nat]]
  BY TypedFields
<1>2. l.active[x].balance \in Nat /\ l.active[x].shares \in Nat /\ DOMAIN l.active[x] = {"balance", "shares"}
  BY <1>1 DEF SharePool
<1>l. PICK l1 : l1 = Raised(l, x, q, com)
  OBVIOUS
<1>3. /\ Shape(l1) /\ l1.active = [l.active EXCEPT ![x].balance = @ + q - com]
      /\ l1.commonPool = l.commonPool - q /\ l1.delegation = l.delegation
      /\ l1.general = l.general /\ l1.debonding = l.debonding /\ l1.debs = l.debs /\ l1.allowance = l.allowance
      /\ l1.total = l.total /\ l1.lastFees = l.lastFees /\ l1.deposits = l.deposits
  <2>1. Shape(l)
    BY <1>1
  <2> QED
    BY <1>l, <2>1 DEF Shape, Raised
<1>4. m = IF com = 0 THEN l1 ELSE DepositOwn(l1, x, com)
  BY <1>l DEF IntoEscrow
<1>5. l1.active = [l.active EXCEPT ![x] = p] /\ l1.active[x] = p
  <2>1. [l.active[x] EXCEPT !.balance = @ + q - com] = p
    BY <1>1, <1>2 DEF SharePool
  <2> QED
    BY <1>1, <1>3, <2>1
<1>6. CASE com = 0
  <2>1. m = l1 /\ e = 0
    BY <1>4, <1>6
  <2>2. p = [balance |-> l.active[x].balance + q, shares |-> l.active[x].shares + e]
    BY <1>2, <1>6, <2>1
  <2>3. l.delegation[x][x] + e = l.delegation[x][x]
    BY <1>1, <2>1
  <2>4. l.delegation = [l.delegation EXCEPT ![x] = [l.delegation[x] EXCEPT ![x] = l.delegation[x][x] + e]]
    BY <1>1, <2>3
  <2> QED
    BY <1>3, <1>5, <2>1, <2>2, <2>4
<1>7. CASE com # 0
  <2>1. /\ Shape(m) /\ m.active = [l1.active EXCEPT ![x] = Deposit(l1.active[x], com)]
        /\ m.delegation = [l1.delegation EXCEPT ![x][x] = @ + SharesForStake(l1.active[x], com)]
        /\ m.commonPool = l1.commonPool
        /\ m.general = l1.general /\ m.debonding = l1.debonding /\ m.debs = l1.debs /\ m.allowance = l1.allowance
        /\ m.total = l1.total /\ m.lastFees = l1.lastFees /\ m.deposits = l1.deposits
    BY <1>3, <1>4, <1>7 DEF DepositOwn, Shape
  <2>2. Deposit(p, com) = [balance |-> l.active[x].balance + q, shares |-> l.active[x].shares + e]
    <3>1. p.balance + com = l.active[x].balance + q
      BY <1>2
    <3>2. p.shares + SharesForStake(p, com) = l.active[x].shares + e
      BY <1>7
    <3> QED
      BY <3>1, <3>2 DEF Deposit
  <2>3. m.active = [l.active EXCEPT ![x] = [balance |-> l.active[x].balance + q, shares |-> l.active[x].shares + e]]
    BY <1>1, <1>5, <2>1, <2>2
  <2>4. m.delegation = [l.delegation EXCEPT ![x] = [l.delegation[x] EXCEPT ![x] = l.delegation[x][x] + e]]
    <3>1. SharesForStake(l1.active[x], com) = e
      BY <1>5, <1>7
    <3> QED
      BY <1>1, <1>3, <2>1, <3>1
  <2> QED
    BY <1>3, <2>1, <2>3, <2>4
<1> QED
  BY <1>6, <1>7

\* A reward, or a payment out of slashed funds.
LEMMA IntoEscrowEffect ==
    ASSUME StakingAssumption, NEW l, Sound(l), NEW x \in Addr, NEW q \in Nat, q <= l.commonPool, NEW com \in 0..q,
           l.active[x].shares = 0 => com = q,
           com # 0 /\ l.active[x].shares # 0 => l.active[x].balance + q - com # 0,
           NEW m, m = IntoEscrow(l, x, q, com)
    PROVE  /\ Sound(m) /\ Worth(m) = Worth(l)
           /\ m.commonPool = l.commonPool - q
           /\ m.general = l.general /\ m.debonding = l.debonding /\ m.debs = l.debs
           /\ m.total = l.total /\ m.lastFees = l.lastFees /\ m.deposits = l.deposits
           /\ \A y \in Addr \ {x} : m.active[y] = l.active[y]
           /\ NotDiluted(l.active[x], m.active[x]) /\ m.active[x].shares >= l.active[x].shares
<1>0. Typed(l) /\ Backed(l)
  BY DEF Sound
<1> DEFINE b == l.active[x].balance
           n == l.active[x].shares
           p == [balance |-> b + q - com, shares |-> n]
           e == IF com = 0 THEN 0 ELSE SharesForStake(p, com)
<1>1. /\ l.active[x] \in SharePool /\ b \in Nat /\ n \in Nat /\ l.commonPool \in Nat
      /\ l.active \in [Addr -> SharePool] /\ l.delegation \in [Addr -> [Addr -> Nat]]
      /\ l.delegation[x] \in [Addr -> Nat] /\ l.delegation[x][x] \in Nat
  BY <1>0, TypedFields DEF SharePool
<1>2. p \in SharePool
  BY <1>1 DEF SharePool
<1>3. com # 0 => CanDeposit(p)
  BY <1>1 DEF CanDeposit
<1>4. e \in Nat
  BY <1>2, <1>3, SharesTyped
<1>5. /\ Shape(m)
      /\ m.active = [l.active EXCEPT ![x] = [balance |-> b + q, shares |-> n + e]]
      /\ m.delegation = [l.delegation EXCEPT ![x] = [l.delegation[x] EXCEPT ![x] = l.delegation[x][x] + e]]
      /\ m.commonPool = l.commonPool - q
      /\ m.general = l.general /\ m.debonding = l.debonding /\ m.debs = l.debs /\ m.allowance = l.allowance
      /\ m.total = l.total /\ m.lastFees = l.lastFees /\ m.deposits = l.deposits
  BY <1>0, IntoEscrowFields
<1>n. n = 0 => e = com
  BY DEF SharesForStake
<1>v. NotDiluted(l.active[x], [balance |-> b + q, shares |-> n + e])
  <2>1. NotDiluted(l.active[x], p)
    <3>1. b + q - com >= b
      BY <1>1
    <3>2. \A c, d, k \in Nat : c >= d => c * k >= d * k
      OBVIOUS
    <3>3. b + q - com \in Nat
      BY <1>1
    <3> HIDE DEF b, n
    <3>4. (b + q - com) * n >= b * n
      BY <1>1, <3>1, <3>2, <3>3
    <3> QED
      BY <3>4 DEF NotDiluted, b, n
  <2>2. CASE com = 0
    <3>1. [balance |-> b + q, shares |-> n + e] = p
      BY <1>1, <2>2
    <3> QED
      BY <2>1, <3>1
  <2>3. CASE com # 0
    <3>1. [balance |-> b + q, shares |-> n + e] = Deposit(p, com)
      <4>1. p.balance + com = b + q /\ p.shares + SharesForStake(p, com) = n + e
        BY <1>1, <2>3
      <4> QED
        BY <4>1 DEF Deposit
    <3>2. NotDiluted(p, Deposit(p, com)) /\ Deposit(p, com) \in SharePool
      BY <1>2, <1>3, <2>3, DepositKeepsValue, SharesTyped
    <3>3. p.shares = 0 => l.active[x].shares = 0
      OBVIOUS
    <3> HIDE DEF p, b, n, e
    <3> QED
      BY <1>1, <1>2, <2>1, <3>1, <3>2, <3>3, ValueTransitive
  <2> QED
    BY <2>2, <2>3
<1> HIDE DEF p, e
<1>6. m.active \in [Addr -> SharePool] /\ m.commonPool \in Nat /\ m.delegation \in [Addr -> [Addr -> Nat]]
  <2>1. [balance |-> b + q, shares |-> n + e] \in SharePool
    BY <1>1, <1>4 DEF SharePool
  <2>2. m.active \in [Addr -> SharePool]
    BY <1>1, <1>5, <2>1
  <2>3. m.delegation \in [Addr -> [Addr -> Nat]]
    <3>1. [l.delegation[x] EXCEPT ![x] = l.delegation[x][x] + e] \in [Addr -> Nat]
      BY <1>1, <1>4
    <3> QED
      BY <1>1, <1>5, <3>1
  <2> QED
    BY <1>1, <1>5, <2>2, <2>3
<1>7. Typed(m)
  BY <1>0, <1>5, <1>6, TypedFields, TypedIf
<1>8. /\ \A y \in Addr \ {x} : m.active[y] = l.active[y]
      /\ m.active[x] = [balance |-> b + q, shares |-> n + e]
  BY <1>1, <1>5
<1>9. \A y, z \in Addr : m.delegation[y][z] = l.delegation[y][z] + (IF y = x /\ z = x THEN e ELSE 0)
  BY <1>1, <1>4, <1>5
<1>10. Backed(m)
  <2> SUFFICES ASSUME NEW y \in Addr PROVE ActiveBacked(m, y) /\ DebondingBacked(m, y)
    BY DEF Backed
  <2>1. ActiveBacked(l, y) /\ DebondingBacked(l, y)
    BY <1>0 DEF Backed
  <2>2. DebondingBacked(m, y)
    BY <1>5, <2>1 DEF DebondingBacked, DebsOf
  <2>3. CASE y = x
    <3>1. MoreShares(l, m, x, x, e)
      BY <1>9 DEF MoreShares
    <3>2. SumFunctionOnSet(SharesIn(m, x), Addr) = SumFunctionOnSet(SharesIn(l, x), Addr) + e
      BY <1>0, <1>4, <1>7, <3>1, SharesOne
    <3>3. n = SumFunctionOnSet(SharesIn(l, x), Addr) /\ (n = 0 => b = 0)
      BY <2>1, <2>3 DEF ActiveBacked
    <3>4. m.active[x].balance = b + q /\ m.active[x].shares = n + e
      BY <1>8
    <3>5. m.active[x].shares = 0 => m.active[x].balance = 0
      <4>1. ASSUME n + e = 0 PROVE b + q = 0
        <5>1. n = 0 /\ e = 0
          BY <1>1, <1>4, <4>1
        <5>2. com = 0 /\ com = q /\ b = 0
          BY <1>n, <3>3, <5>1
        <5> QED
          BY <5>2
      <4> QED
        BY <3>4, <4>1
    <3> QED
      BY <2>2, <2>3, <3>2, <3>3, <3>4, <3>5 DEF ActiveBacked
  <2>4. CASE y # x
    <3>1. \A z \in Addr : m.delegation[z][y] = l.delegation[z][y]
      BY <1>1, <1>9, <2>4
    <3>2. m.active[y] = l.active[y]
      BY <1>8, <2>4
    <3>3. l.active[y].shares = 0 => m.active[y].balance = 0
      BY <2>1, <3>2 DEF ActiveBacked
    <3> QED
      BY <2>1, <2>2, <3>1, <3>2, <3>3, ActiveSame
  <2> QED
    BY <2>3, <2>4
<1>11. Worth(m) = Worth(l)
  <2>1. \A y \in Addr : Holdings(m)[y] = Holdings(l)[y] + (IF y = x THEN q ELSE 0)
    <3> SUFFICES ASSUME NEW y \in Addr PROVE Holdings(m)[y] = Holdings(l)[y] + (IF y = x THEN q ELSE 0)
      OBVIOUS
    <3>1. Holdings(m)[y] = m.general[y] + m.active[y].balance + m.debonding[y].balance /\ Holdings(l)[y] = l.general[y] + l.active[y].balance + l.debonding[y].balance
      BY DEF Holdings
    <3>2. l.general[y] \in Nat /\ l.active[y].balance \in Nat /\ l.debonding[y].balance \in Nat /\ m.general[y] = l.general[y] /\ m.debonding[y] = l.debonding[y]
      BY <1>0, <1>5, TypedFields DEF SharePool
    <3>3. m.active[y].balance = l.active[y].balance + (IF y = x THEN q ELSE 0)
      BY <1>8, <3>2
    <3> QED
      BY <3>1, <3>2, <3>3
  <2>2. Worth(m) = Worth(l) - l.commonPool - l.deposits + m.commonPool + m.deposits + q
    BY <1>0, <1>7, <2>1, WorthOne
  <2>3. l.commonPool \in Nat /\ l.deposits \in Nat /\ Worth(l) \in Nat
    BY <1>0, TypedFields, HoldingsNat
  <2> QED
    BY <1>5, <2>2, <2>3
<1> QED
  BY <1>1, <1>4, <1>5, <1>7, <1>8, <1>10, <1>11, <1>v DEF Sound

LEMMA BackedSame ==
    ASSUME NEW l, NEW m, Backed(l), m.active = l.active, m.debonding = l.debonding,
           m.delegation = l.delegation, m.debs = l.debs
    PROVE  Backed(m)
<1>1. \A x \in Addr : SharesIn(m, x) = SharesIn(l, x) /\ DebsOf(m, x) = DebsOf(l, x)
  BY DEF SharesIn, DebsOf
<1> QED
  BY <1>1 DEF Backed, ActiveBacked, DebondingBacked

LEMMA CommissionTyped ==
    ASSUME StakingAssumption, NEW x \in Addr, NEW q \in Nat
    PROVE  ComputeCommission(x, q) \in 0..q
<1>1. Rate[x] \in Nat /\ RateDenominator \in Nat \ {0} /\ Rate[x] <= RateDenominator
  BY DEF StakingAssumption
<1> QED
  BY <1>1, PartOf DEF ComputeCommission

\* The ledger m keeps what l has but for the active pool of x and the common
\* pool, and nobody else's shares lose value.
Rewarded(l, m, x) ==
    /\ Sound(m) /\ Worth(m) = Worth(l)
    /\ m.general = l.general /\ m.debonding = l.debonding /\ m.debs = l.debs
    /\ m.total = l.total /\ m.lastFees = l.lastFees /\ m.deposits = l.deposits
    /\ \A y \in Addr \ {x} : m.active[y] = l.active[y]
    /\ NotDiluted(l.active[x], m.active[x]) /\ m.active[x].shares >= l.active[x].shares

LEMMA ValueReflexive == ASSUME NEW p \in SharePool PROVE NotDiluted(p, p)
<1>1. p.balance * p.shares \in Nat
  BY MulNat DEF SharePool
<1> QED
  BY <1>1 DEF NotDiluted

LEMMA RewardEffect ==
    ASSUME StakingAssumption, NEW l, Sound(l), NEW x \in Addr, NEW num \in Nat, NEW den \in Nat \ {0},
           NEW m, m = AddReward(l, x, num, den)
    PROVE  Rewarded(l, m, x)
<1> DEFINE q == (l.active[x].balance * num) \div den
           com == ComputeCommission(x, q)
<1>0. Typed(l) /\ Backed(l)
  BY DEF Sound
<1>1. l.active[x] \in SharePool /\ l.active[x].balance \in Nat /\ l.active[x].shares \in Nat /\ l.commonPool \in Nat
  BY <1>0, TypedFields DEF SharePool
<1>2. q \in Nat
  BY <1>1, MulNat, DivNat
<1>3. com \in 0..q
  BY <1>2, CommissionTyped
<1>4. CASE q = 0 \/ q > l.commonPool
  <2>1. m = l
    BY <1>4 DEF AddReward
  <2>2. NotDiluted(l.active[x], l.active[x])
    BY <1>1, ValueReflexive
  <2> QED
    BY <1>1, <2>1, <2>2 DEF Rewarded
<1>5. CASE q # 0 /\ q <= l.commonPool
  <2>1. m = PayReward(l, x, q)
    BY <1>1, <1>2, <1>5 DEF AddReward
  <2>2. m = IntoEscrow(l, x, q, com)
    BY <2>1 DEF PayReward, IntoEscrow, Raised
  <2>3. l.active[x].balance # 0
    <3>1. l.active[x].balance = 0 => q = 0
      <4>1. 0 * num = 0 /\ 0 \div den = 0
        OBVIOUS
      <4> QED
        BY <4>1
    <3> QED
      BY <1>5, <3>1
  <2>4. l.active[x].shares # 0
    BY <1>0, <2>3 DEF Backed, ActiveBacked
  <2>5. l.active[x].balance + q - com # 0
    <3> HIDE DEF q, com
    <3> QED
      BY <1>1, <1>2, <1>3, <2>3
  <2> HIDE DEF q, com
  <2> QED
    BY <1>2, <1>3, <1>5, <2>2, <2>4, <2>5, IntoEscrowEffect DEF Rewarded
<1> QED
  BY <1>1, <1>2, <1>4, <1>5

LEMMA MinOfTwo ==
    ASSUME NEW a \in Nat, NEW b \in Nat, a <= b
    PROVE  Min({a, b}) = a
<1>1. \E x \in {a, b} : \A y \in {a, b} : x <= y
  OBVIOUS
<1> QED
  BY <1>1 DEF Min

LEMMA PayEffect ==
    ASSUME StakingAssumption, NEW l, Sound(l), NEW x \in Addr, NEW a \in Nat, a <= l.commonPool,
           ~CommonToEscrowFails(l, x, a), NEW m, m = CommonToEscrow(l, x, a)
    PROVE  Rewarded(l, m, x) /\ m.commonPool = l.commonPool - a
<1> DEFINE com == IF l.active[x].shares = 0 THEN a ELSE ComputeCommission(x, a)
<1>0. Typed(l) /\ Backed(l)
  BY DEF Sound
<1>1. l.active[x].balance \in Nat /\ l.active[x].shares \in Nat /\ l.commonPool \in Nat
  BY <1>0, TypedFields DEF SharePool
<1>2. Min({a, l.commonPool}) = a
  BY <1>1, MinOfTwo
<1>3. com \in 0..a
  BY CommissionTyped
<1>4. m = IntoEscrow(l, x, a, com)
  <2>1. CommonToEscrow(l, x, a) =
            IntoEscrow(l, x, Min({a, l.commonPool}),
                       IF l.active[x].shares = 0 THEN Min({a, l.commonPool})
                       ELSE ComputeCommission(x, Min({a, l.commonPool})))
    BY DEF CommonToEscrow, IntoEscrow, Raised
  <2> QED
    BY <1>2, <2>1
<1>5. l.active[x].shares = 0 => com = a
  OBVIOUS
<1>6. com # 0 /\ l.active[x].shares # 0 => l.active[x].balance + a - com # 0
  BY <1>2 DEF CommonToEscrowFails
<1> HIDE DEF com
<1> QED
  BY <1>3, <1>4, <1>5, <1>6, IntoEscrowEffect DEF Rewarded

LEMMA ToGeneralEffect ==
    ASSUME StakingAssumption, NEW l, Sound(l), NEW x \in Addr, NEW a \in Nat, a <= l.commonPool,
           NEW m, m = CommonToGeneral(l, x, a)
    PROVE  /\ Sound(m) /\ Worth(m) = Worth(l) /\ m.commonPool = l.commonPool - a
           /\ m.active = l.active /\ m.debonding = l.debonding /\ m.debs = l.debs
           /\ m.total = l.total /\ m.lastFees = l.lastFees /\ m.deposits = l.deposits
<1>0. Typed(l) /\ Backed(l)
  BY DEF Sound
<1>1. l.commonPool \in Nat /\ l.general \in [Addr -> Nat] /\ Shape(l)
  BY <1>0, TypedFields
<1>2. Min({a, l.commonPool}) = a
  BY <1>1, MinOfTwo
<1>3. /\ Shape(m) /\ m.general = [l.general EXCEPT ![x] = @ + a] /\ m.commonPool = l.commonPool - a
      /\ m.active = l.active /\ m.debonding = l.debonding /\ m.debs = l.debs /\ m.delegation = l.delegation
      /\ m.total = l.total /\ m.lastFees = l.lastFees /\ m.deposits = l.deposits /\ m.allowance = l.allowance
  BY <1>1, <1>2 DEF CommonToGeneral, Shape
<1>4. Typed(m)
  <2>1. m.general \in [Addr -> Nat] /\ m.commonPool \in Nat
    BY <1>1, <1>3
  <2> QED
    BY <1>0, <1>3, <2>1, TypedFields, TypedIf
<1>5. Backed(m)
  BY <1>0, <1>3, BackedSame
<1>6. \A y \in Addr : Holdings(m)[y] = Holdings(l)[y] + (IF y = x THEN a ELSE 0)
  BY <1>0, <1>1, <1>3, TypedFields DEF Holdings, SharePool
<1>7. Worth(m) = Worth(l) - l.commonPool - l.deposits + m.commonPool + m.deposits + a
  BY <1>0, <1>4, <1>6, WorthOne
<1>8. l.deposits \in Nat /\ Worth(l) \in Nat
  BY <1>0, TypedFields, HoldingsNat
<1>9. Worth(m) = Worth(l)
  BY <1>1, <1>3, <1>7, <1>8
<1> QED
  BY <1>3, <1>4, <1>5, <1>9 DEF Sound

-----------------------------------------------------------------------------
(***************************************************************************)
(* Folds, by induction over their traces.                                    *)
(***************************************************************************)

\* The elements that a fold over S has seen after i steps.
Done(S, i) == {SetToSeq(S)[j] : j \in 1..i}

LEMMA DoneSteps ==
    ASSUME NEW S, IsFiniteSet(S)
    PROVE  /\ Done(S, 0) = {} /\ Done(S, Cardinality(S)) = S
           /\ \A i \in Nat : i + 1 <= Cardinality(S) =>
                  /\ SetToSeq(S)[i + 1] \in S /\ SetToSeq(S)[i + 1] \notin Done(S, i)
                  /\ Done(S, i) \in SUBSET S
                  /\ Done(S, i + 1) = Done(S, i) \cup {SetToSeq(S)[i + 1]}
<1> DEFINE q == SetToSeq(S)
           k == Cardinality(S)
<1>1. /\ k \in Nat /\ q \in [1..k -> S]
      /\ \A i, j \in 1..k : q[i] = q[j] => i = j
      /\ \A x \in S : \E i \in 1..k : q[i] = x
  BY SeqOfSet
<1> HIDE DEF q, k
<1>2. {q[j] : j \in 1..0} = {} /\ {q[j] : j \in 1..k} = S
  BY <1>1
<1>3. ASSUME NEW i \in Nat, i + 1 <= k
      PROVE  /\ q[i + 1] \in S /\ q[i + 1] \notin {q[j] : j \in 1..i}
             /\ {q[j] : j \in 1..i} \in SUBSET S
             /\ {q[j] : j \in 1..i + 1} = {q[j] : j \in 1..i} \cup {q[i + 1]}
  <2>1. i + 1 \in 1..k /\ \A j \in 1..i : j \in 1..k /\ j # i + 1
    BY <1>1, <1>3
  <2>2. \A j : j \in 1..i + 1 <=> j \in 1..i \/ j = i + 1
    OBVIOUS
  <2>3. {q[j] : j \in 1..i + 1} = {q[j] : j \in 1..i} \cup {q[i + 1]}
    BY <2>2
  <2> QED
    BY <1>1, <2>1, <2>3
<1> QED
  BY <1>2, <1>3 DEF Done, q, k

\* The active pool of y has lost this much of its balance, and no shares.
ActiveSlashed(l, m, y, lost) ==
    /\ m.active[y].balance = l.active[y].balance - lost
    /\ m.active[y].shares = l.active[y].shares

LEMMA SlashAllEffect ==
    ASSUME StakingAssumption, NEW l, Sound(l), NEW xs \in SUBSET Addr, NEW a \in Nat,
           NEW m, m = SlashAll(l, xs, a)
    PROVE  /\ Sound(m) /\ Worth(m) = Worth(l)
           /\ m.commonPool = l.commonPool + SumFunctionOnSet(Slashed(l, a), xs)
           /\ m.general = l.general /\ m.debs = l.debs
           /\ m.total = l.total /\ m.lastFees = l.lastFees /\ m.deposits = l.deposits
           /\ \A y \in Addr : ActiveSlashed(l, m, y, IF y \in xs THEN SlashedOf(l, y, a).active ELSE 0)
<1> DEFINE k == Cardinality(xs)
           q == SetToSeq(xs)
<1>1. IsFiniteSet(xs) /\ k \in Nat
  BY FS_Subset, FS_CardinalityType DEF StakingAssumption
<1>2. PICK r : IsTrace("slash", a, l, q, k, r) /\ m = r[k]
  BY <1>1, SlashTrace
<1> DEFINE P(i) == /\ Sound(r[i]) /\ Worth(r[i]) = Worth(l)
                   /\ r[i].commonPool = l.commonPool + SumFunctionOnSet(Slashed(l, a), Done(xs, i))
                   /\ r[i].general = l.general /\ r[i].debs = l.debs
                   /\ r[i].total = l.total /\ r[i].lastFees = l.lastFees /\ r[i].deposits = l.deposits
                   /\ \A y \in Addr \ Done(xs, i) : r[i].active[y] = l.active[y] /\ r[i].debonding[y] = l.debonding[y]
                   /\ \A y \in Done(xs, i) : ActiveSlashed(l, r[i], y, SlashedOf(l, y, a).active)
           F == {i \in Nat : i <= k => P(i)}
<1>3. Typed(l) /\ l.commonPool \in Nat /\ \A y \in Addr : Slashed(l, a)[y] \in Nat
  <2>1. Typed(l)
    BY DEF Sound
  <2> QED
    BY <2>1, TypedFields, SlashedTyped
<1>4. 0 \in F
  <2>1. r[0] = l /\ Done(xs, 0) = {}
    BY <1>1, <1>2, DoneSteps DEF IsTrace
  <2>2. SumFunctionOnSet(Slashed(l, a), {}) = 0
    BY SumEmpty
  <2> QED
    BY <1>3, <2>1, <2>2
<1>5. ASSUME NEW i \in Nat, i \in F PROVE i + 1 \in F
  <2> SUFFICES ASSUME i + 1 <= k PROVE P(i + 1)
    OBVIOUS
  <2>1. P(i)
    BY <1>1, <1>5
  <2>2. PICK x : x = q[i + 1]
    OBVIOUS
  <2>3. x \in xs /\ x \in Addr /\ x \notin Done(xs, i) /\ Done(xs, i) \in SUBSET xs /\ Done(xs, i + 1) = Done(xs, i) \cup {x}
    BY <1>1, <2>2, DoneSteps
  <2>4. r[i + 1] = SlashEscrow(r[i], x, a)
    <3>1. i + 1 \in 1..k /\ (i + 1) - 1 = i
      BY <1>1
    <3>2. r[i + 1] = Step("slash", a, r[(i + 1) - 1], q[i + 1])
      BY <1>2, <3>1 DEF IsTrace
    <3> QED
      BY <2>2, <3>1, <3>2 DEF Step
  <2> DEFINE n == r[i]
             n1 == r[i + 1]
  <2>5. /\ Sound(n1) /\ Worth(n1) = Worth(n)
        /\ n1.commonPool = n.commonPool + Slashed(n, a)[x]
        /\ n1.general = n.general /\ n1.debs = n.debs
        /\ n1.total = n.total /\ n1.lastFees = n.lastFees /\ n1.deposits = n.deposits
        /\ \A y \in Addr \ {x} : n1.active[y] = n.active[y] /\ n1.debonding[y] = n.debonding[y]
        /\ ActiveSlashed(n, n1, x, SlashedOf(n, x, a).active)
    <3> HIDE DEF n, n1
    <3>1. Sound(n) /\ n1 = SlashEscrow(n, x, a)
      BY <2>1, <2>4 DEF n, n1
    <3>2. SlashedIn(n, n1, x, a)
      BY <2>3, <3>1, SlashEffect
    <3> QED
      BY <3>2 DEF SlashedIn, ActiveSlashed
  <2>6. /\ Slashed(n, a)[x] = Slashed(l, a)[x]
        /\ n.active[x] = l.active[x] /\ SlashedOf(n, x, a) = SlashedOf(l, x, a)
    <3>1. n.active[x] = l.active[x] /\ n.debonding[x] = l.debonding[x]
      BY <2>1, <2>3
    <3> HIDE DEF n
    <3> QED
      BY <2>3, <3>1 DEF Slashed, SlashedOf
  <2>7. SumFunctionOnSet(Slashed(l, a), Done(xs, i + 1)) = Slashed(l, a)[x] + SumFunctionOnSet(Slashed(l, a), Done(xs, i))
    <3> DEFINE D == Done(xs, i + 1)
    <3>1. D \ {x} = Done(xs, i) /\ x \in D /\ D \subseteq xs /\ D \subseteq Addr
      BY <2>3
    <3>2. IsFiniteSet(D) /\ \A y \in D : Slashed(l, a)[y] \in Int
      BY <1>1, <1>3, <3>1, FS_Subset
    <3> HIDE DEF D
    <3>3. SumFunctionOnSet(Slashed(l, a), D) = Slashed(l, a)[x] + SumFunctionOnSet(Slashed(l, a), D \ {x})
      BY <3>1, <3>2, SumRemove
    <3> QED
      BY <3>1, <3>3 DEF D
  <2>8. SumFunctionOnSet(Slashed(l, a), Done(xs, i)) \in Nat /\ Slashed(l, a)[x] \in Nat
    <3>1. IsFiniteSet(Done(xs, i)) /\ \A y \in Done(xs, i) : Slashed(l, a)[y] \in Nat
      BY <1>1, <1>3, <2>3, FS_Subset
    <3> QED
      BY <1>3, <2>3, <3>1, SumNat
  <2>9. n1.commonPool = l.commonPool + SumFunctionOnSet(Slashed(l, a), Done(xs, i + 1))
    <3>1. n.commonPool = l.commonPool + SumFunctionOnSet(Slashed(l, a), Done(xs, i))
      BY <2>1
    <3> HIDE DEF n, n1
    <3> QED
      BY <1>3, <2>5, <2>6, <2>7, <2>8, <3>1
  <2>10. ASSUME NEW y \in Done(xs, i + 1) PROVE ActiveSlashed(l, n1, y, SlashedOf(l, y, a).active)
    <3>1. CASE y = x
      BY <2>5, <2>6, <3>1 DEF ActiveSlashed
    <3>2. CASE y # x
      <4>1. y \in Done(xs, i) /\ y \in Addr
        BY <2>3, <3>2
      <4>2. ActiveSlashed(l, n, y, SlashedOf(l, y, a).active) /\ n1.active[y] = n.active[y]
        BY <2>1, <2>5, <3>2, <4>1
      <4> QED
        BY <4>2 DEF ActiveSlashed
    <3> QED
      BY <3>1, <3>2
  <2> QED
    BY <2>1, <2>3, <2>5, <2>9, <2>10
<1>6. \A i \in Nat : i \in F
  <2> HIDE DEF F
  <2> QED
    BY <1>4, <1>5, NatSetInduction
<1>7. P(k)
  BY <1>1, <1>6
<1>8. Done(xs, k) = xs
  BY <1>1, DoneSteps
<1>9. ASSUME NEW y \in Addr PROVE ActiveSlashed(l, m, y, IF y \in xs THEN SlashedOf(l, y, a).active ELSE 0)
  <2>1. CASE y \in xs
    BY <1>2, <1>7, <1>8, <2>1
  <2>2. CASE y \notin xs
    <3>1. m.active[y] = l.active[y]
      BY <1>2, <1>7, <1>8, <2>2
    <3>2. l.active[y].balance \in Nat
      BY <1>3, TypedFields DEF SharePool
    <3> QED
      BY <2>2, <3>1, <3>2 DEF ActiveSlashed
  <2> QED
    BY <2>1, <2>2
<1> QED
  BY <1>2, <1>7, <1>8, <1>9

LEMMA PayAllEffect ==
    ASSUME StakingAssumption, NEW l, Sound(l), NEW xs \in SUBSET Addr, NEW a \in Nat,
           a * Cardinality(xs) <= l.commonPool, \A x \in xs : ~CommonToEscrowFails(l, x, a),
           NEW m, m = CommonToEscrows(l, xs, a)
    PROVE  /\ Sound(m) /\ Worth(m) = Worth(l)
           /\ m.commonPool = l.commonPool - a * Cardinality(xs)
           /\ m.general = l.general /\ m.debs = l.debs
           /\ m.total = l.total /\ m.lastFees = l.lastFees /\ m.deposits = l.deposits
<1> DEFINE k == Cardinality(xs)
           q == SetToSeq(xs)
<1>1. IsFiniteSet(xs) /\ k \in Nat
  BY FS_Subset, FS_CardinalityType DEF StakingAssumption
<1>2. PICK r : IsTrace("pay", a, l, q, k, r) /\ m = r[k]
  BY <1>1, PayTrace
<1> DEFINE P(i) == /\ Sound(r[i]) /\ Worth(r[i]) = Worth(l)
                   /\ r[i].commonPool = l.commonPool - a * i
                   /\ r[i].general = l.general /\ r[i].debs = l.debs
                   /\ r[i].total = l.total /\ r[i].lastFees = l.lastFees /\ r[i].deposits = l.deposits
                   /\ \A y \in Addr \ Done(xs, i) : r[i].active[y] = l.active[y]
           F == {i \in Nat : i <= k => P(i)}
<1>3. l.commonPool \in Nat /\ a * k <= l.commonPool
  BY TypedFields DEF Sound
<1>4. 0 \in F
  <2>1. r[0] = l /\ Done(xs, 0) = {}
    BY <1>1, <1>2, DoneSteps DEF IsTrace
  <2>2. l.commonPool - a * 0 = l.commonPool
    BY <1>3
  <2> QED
    BY <2>1, <2>2
<1>5. ASSUME NEW i \in Nat, i \in F PROVE i + 1 \in F
  <2> SUFFICES ASSUME i + 1 <= k PROVE P(i + 1)
    OBVIOUS
  <2>1. P(i)
    BY <1>1, <1>5
  <2>2. PICK x : x = q[i + 1]
    OBVIOUS
  <2>3. x \in xs /\ x \in Addr /\ x \notin Done(xs, i) /\ Done(xs, i + 1) = Done(xs, i) \cup {x}
    BY <1>1, <2>2, DoneSteps, SMTT(30)
  <2>4. r[i + 1] = CommonToEscrow(r[i], x, a)
    <3>1. i + 1 \in 1..k /\ (i + 1) - 1 = i
      BY <1>1
    <3>2. r[i + 1] = Step("pay", a, r[(i + 1) - 1], q[i + 1])
      BY <1>2, <3>1 DEF IsTrace
    <3> QED
      BY <2>2, <3>1, <3>2 DEF Step
  <2> DEFINE n == r[i]
             n1 == r[i + 1]
  <2>5. a * i \in Nat /\ a * i + a = a * (i + 1) /\ a * (i + 1) <= a * k
    <3> HIDE DEF k
    <3> QED
      BY <1>1
  <2>6. n.commonPool \in Nat /\ a <= n.commonPool /\ a <= l.commonPool
    <3>1. n.commonPool = l.commonPool - a * i
      BY <2>1
    <3>2. a * (i + 1) \in Nat /\ a * k \in Nat
      BY <1>1, MulNat
    <3> HIDE DEF n, k
    <3> QED
      BY <1>3, <2>5, <3>1, <3>2
  <2>7. ~CommonToEscrowFails(n, x, a)
    <3>1. n.active[x] = l.active[x]
      BY <2>1, <2>3
    <3>2. Min({a, n.commonPool}) = a /\ Min({a, l.commonPool}) = a
      BY <1>3, <2>6, MinOfTwo
    <3>3. ~CommonToEscrowFails(l, x, a)
      BY <2>3
    <3> HIDE DEF n
    <3> QED
      BY <3>1, <3>2, <3>3 DEF CommonToEscrowFails
  <2>8. Rewarded(n, n1, x) /\ n1.commonPool = n.commonPool - a
    <3> HIDE DEF n, n1
    <3>1. Sound(n) /\ n1 = CommonToEscrow(n, x, a)
      BY <2>1, <2>4 DEF n, n1
    <3> QED
      BY <2>3, <2>6, <2>7, <3>1, PayEffect
  <2>9. n1.commonPool = l.commonPool - a * (i + 1)
    <3>1. n.commonPool = l.commonPool - a * i
      BY <2>1
    <3> HIDE DEF n, n1
    <3> QED
      BY <1>3, <2>5, <2>8, <3>1
  <2> QED
    BY <2>1, <2>3, <2>8, <2>9 DEF Rewarded
<1>6. \A i \in Nat : i \in F
  <2> HIDE DEF F
  <2> QED
    BY <1>4, <1>5, NatSetInduction
<1>7. P(k)
  BY <1>1, <1>6
<1> QED
  BY <1>2, <1>7

LEMMA RewardsEffect ==
    ASSUME StakingAssumption, NEW l, Sound(l), NEW xs \in SUBSET Addr,
           NEW m, m = AddRewards(l, xs)
    PROVE  /\ Sound(m) /\ Worth(m) = Worth(l)
           /\ m.general = l.general /\ m.debonding = l.debonding /\ m.debs = l.debs
           /\ m.total = l.total /\ m.lastFees = l.lastFees /\ m.deposits = l.deposits
           /\ \A y \in Addr : NotDiluted(l.active[y], m.active[y])
<1> DEFINE k == Cardinality(xs)
           q == SetToSeq(xs)
<1>1. IsFiniteSet(xs) /\ k \in Nat
  BY FS_Subset, FS_CardinalityType DEF StakingAssumption
<1>2. PICK r : IsTrace("reward", 0, l, q, k, r) /\ m = r[k]
  BY <1>1, RewardTrace
<1> DEFINE P(i) == /\ Sound(r[i]) /\ Worth(r[i]) = Worth(l)
                   /\ r[i].general = l.general /\ r[i].debonding = l.debonding /\ r[i].debs = l.debs
                   /\ r[i].total = l.total /\ r[i].lastFees = l.lastFees /\ r[i].deposits = l.deposits
                   /\ \A y \in Addr : NotDiluted(l.active[y], r[i].active[y])
                   /\ \A y \in Addr \ Done(xs, i) : r[i].active[y] = l.active[y]
           F == {i \in Nat : i <= k => P(i)}
<1>4. 0 \in F
  <2>1. r[0] = l /\ Done(xs, 0) = {}
    BY <1>1, <1>2, DoneSteps DEF IsTrace
  <2>2. \A y \in Addr : NotDiluted(l.active[y], l.active[y])
    BY TypedFields, ValueReflexive DEF Sound
  <2> QED
    BY <2>1, <2>2
<1>5. ASSUME NEW i \in Nat, i \in F PROVE i + 1 \in F
  <2> SUFFICES ASSUME i + 1 <= k PROVE P(i + 1)
    OBVIOUS
  <2>1. P(i)
    BY <1>1, <1>5
  <2>2. PICK x : x = q[i + 1]
    OBVIOUS
  <2>3. x \in Addr /\ x \notin Done(xs, i) /\ Done(xs, i + 1) = Done(xs, i) \cup {x}
    BY <1>1, <2>2, DoneSteps
  <2>4. r[i + 1] = AddReward(r[i], x, RewardFactor.num, RewardFactor.den)
    <3>1. i + 1 \in 1..k /\ (i + 1) - 1 = i
      BY <1>1
    <3>2. r[i + 1] = Step("reward", 0, r[(i + 1) - 1], q[i + 1])
      BY <1>2, <3>1 DEF IsTrace
    <3> QED
      BY <2>2, <3>1, <3>2 DEF Step
  <2> DEFINE n == r[i]
             n1 == r[i + 1]
  <2>5. Rewarded(n, n1, x)
    <3> HIDE DEF n, n1
    <3>1. Sound(n) /\ n1 = AddReward(n, x, RewardFactor.num, RewardFactor.den)
      BY <2>1, <2>4 DEF n, n1
    <3>2. RewardFactor.num \in Nat /\ RewardFactor.den \in Nat \ {0}
      BY DEF StakingAssumption
    <3> QED
      BY <2>3, <3>1, <3>2, RewardEffect
  <2>6. \A y \in Addr : NotDiluted(l.active[y], n1.active[y])
    <3>1. n.active[x] = l.active[x]
      BY <2>1, <2>3
    <3>2. NotDiluted(n.active[x], n1.active[x]) /\ \A y \in Addr \ {x} : n1.active[y] = n.active[y]
      BY <2>5 DEF Rewarded
    <3>3. \A y \in Addr : NotDiluted(l.active[y], n.active[y])
      BY <2>1
    <3> HIDE DEF n, n1
    <3> QED
      BY <3>1, <3>2, <3>3
  <2> QED
    BY <2>1, <2>3, <2>5, <2>6 DEF Rewarded
<1>6. \A i \in Nat : i \in F
  <2> HIDE DEF F
  <2> QED
    BY <1>4, <1>5, NatSetInduction
<1>7. P(k)
  BY <1>1, <1>6
<1> QED
  BY <1>2, <1>7

-----------------------------------------------------------------------------
(***************************************************************************)
(* Debonding delegations.                                                    *)
(***************************************************************************)
LEMMA KeysFinite ==
    ASSUME StakingAssumption, NEW l, Typed(l)
    PROVE  IsFiniteSet(DOMAIN l.debs) /\ \A x : IsFiniteSet(DebsOf(l, x))
<1>1. IsFiniteSet(Addr) /\ MaxEpoch + DebondingInterval \in Nat
  BY DEF StakingAssumption
<1>2. IsFiniteSet(1..MaxEpoch + DebondingInterval)
  BY <1>1, FS_Interval
<1> DEFINE E == 1..MaxEpoch + DebondingInterval
           X == {<<x, y, e>> : x \in Addr, y \in Addr, e \in E}
           g == [p \in (Addr \X Addr) \X E |-> <<p[1][1], p[1][2], p[2]>>]
<1>3. IsFiniteSet(Addr \X Addr) /\ IsFiniteSet((Addr \X Addr) \X E)
  BY <1>1, <1>2, FS_Product
<1>4. g \in Surjection((Addr \X Addr) \X E, DebondingKey)
  <2>1. g \in [(Addr \X Addr) \X E -> DebondingKey]
    BY DEF DebondingKey
  <2>2. ASSUME NEW k \in DebondingKey PROVE \E p \in (Addr \X Addr) \X E : g[p] = k
    <3>1. <<<<k[1], k[2]>>, k[3]>> \in (Addr \X Addr) \X E /\ k = <<k[1], k[2], k[3]>>
      BY DEF DebondingKey
    <3>2. g[<<<<k[1], k[2]>>, k[3]>>] = k
      BY <3>1
    <3> QED
      BY <3>1, <3>2
  <2> QED
    BY <2>1, <2>2 DEF Surjection
<1>5. IsFiniteSet(DebondingKey)
  BY <1>3, <1>4, FS_Surjection
<1>6. DOMAIN l.debs \subseteq DebondingKey
  BY TypedFields
<1>7. IsFiniteSet(DOMAIN l.debs)
  BY <1>5, <1>6, FS_Subset
<1> QED
  BY <1>7, FS_Subset DEF DebsOf

\* The ledger m is l after the debonding delegation of key was paid out.
Redeemed(l, m, key) ==
    /\ Sound(m) /\ Worth(m) = Worth(l)
    /\ m.active = l.active /\ m.debs = [k \in DOMAIN l.debs \ {key} |-> l.debs[k]]
    /\ m.total = l.total /\ m.lastFees = l.lastFees /\ m.deposits = l.deposits
    /\ \A y \in Addr : /\ NotDiluted(l.debonding[y], m.debonding[y])
                       /\ m.debonding[y].shares <= l.debonding[y].shares

LEMMA RedeemEffect ==
    ASSUME StakingAssumption, NEW l, Sound(l), NEW key \in DOMAIN l.debs, NEW m, m = Redeem(l, key)
    PROVE  Redeemed(l, m, key)
<1>0. Typed(l) /\ Backed(l)
  BY DEF Sound
<1>1. PICK x, z : x = key[1] /\ z = key[2]
  OBVIOUS
<1>2. x \in Addr /\ z \in Addr /\ key \in DebsOf(l, z)
  BY <1>0, <1>1, TypedFields DEF DebondingKey, DebsOf
<1> DEFINE pool == l.debonding[z]
           n == l.debs[key]
           v == StakeForShares(pool, n)
           w == Withdraw(pool, n)
<1>3. /\ Shape(l) /\ l.general \in [Addr -> Nat] /\ l.debonding \in [Addr -> SharePool]
      /\ l.debs \in [DOMAIN l.debs -> Nat] /\ DOMAIN l.debs \subseteq DebondingKey
      /\ pool \in SharePool /\ n \in Nat /\ l.commonPool \in Nat
  BY <1>0, <1>2, TypedFields
<1>4. /\ IsFiniteSet(DebsOf(l, z)) /\ \A k \in DebsOf(l, z) : l.debs[k] \in Nat
  BY <1>0, <1>3, KeysFinite DEF DebsOf
<1>5. pool.shares = SumFunctionOnSet(l.debs, DebsOf(l, z)) /\ (pool.shares = 0 => pool.balance = 0)
  BY <1>0, <1>2 DEF Backed, DebondingBacked
<1>6. n <= pool.shares /\ pool.shares \in Nat /\ pool.balance \in Nat
  BY <1>2, <1>3, <1>4, <1>5, SumNat DEF SharePool
<1>7. v \in 0..pool.balance /\ w \in SharePool /\ (n = pool.shares /\ n # 0 => v = pool.balance)
  BY <1>3, <1>6, StakeTyped
<1>8. NotDiluted(pool, w) /\ w.balance = pool.balance - v /\ w.shares = pool.shares - n
  <2>1. NotDiluted(pool, w)
    BY <1>3, <1>6, WithdrawKeepsValue
  <2> QED
    BY <2>1 DEF Withdraw
<1>9. /\ Shape(m) /\ m.general = [l.general EXCEPT ![x] = @ + v]
      /\ m.debonding = [l.debonding EXCEPT ![z] = w]
      /\ m.debs = [k \in DOMAIN l.debs \ {key} |-> l.debs[k]]
      /\ m.active = l.active /\ m.delegation = l.delegation /\ m.commonPool = l.commonPool
      /\ m.total = l.total /\ m.lastFees = l.lastFees /\ m.deposits = l.deposits /\ m.allowance = l.allowance
  BY <1>1, <1>3 DEF Redeem, Shape
<1> HIDE DEF v, w, n, pool
<1>10. Typed(m)
  <2>1. m.general \in [Addr -> Nat] /\ m.debonding \in [Addr -> SharePool]
    BY <1>2, <1>3, <1>6, <1>7, <1>9
  <2>2. DOMAIN m.debs \subseteq DebondingKey /\ m.debs \in [DOMAIN m.debs -> Nat]
    BY <1>3, <1>9
  <2> QED
    BY <1>0, <1>9, <2>1, <2>2, TypedFields, TypedIf
<1>11. m.debonding[z] = w /\ \A y \in Addr \ {z} : m.debonding[y] = l.debonding[y]
  BY <1>2, <1>3, <1>9
<1>12. Backed(m)
  <2> SUFFICES ASSUME NEW y \in Addr PROVE ActiveBacked(m, y) /\ DebondingBacked(m, y)
    BY DEF Backed
  <2>1. ActiveBacked(l, y) /\ DebondingBacked(l, y)
    BY <1>0 DEF Backed
  <2>2. ActiveBacked(m, y)
    BY <1>9, <2>1, ActiveSame DEF ActiveBacked
  <2>3. DebsOf(m, y) = DebsOf(l, y) \ {key} /\ IsFiniteSet(DebsOf(m, y))
    <3>1. IsFiniteSet(DebsOf(m, y))
      BY <1>10, KeysFinite
    <3>2. DOMAIN m.debs = DOMAIN l.debs \ {key}
      BY <1>9
    <3> QED
      BY <3>1, <3>2 DEF DebsOf
  <2>4. \A k \in DebsOf(m, y) : m.debs[k] = l.debs[k]
    BY <1>9 DEF DebsOf
  <2>5. SumFunctionOnSet(m.debs, DebsOf(m, y)) = SumFunctionOnSet(l.debs, DebsOf(m, y))
    BY <2>3, <2>4, SumSame
  <2>6. CASE y = z
    <3>1. SumFunctionOnSet(l.debs, DebsOf(l, z)) = n + SumFunctionOnSet(l.debs, DebsOf(l, z) \ {key})
      BY <1>2, <1>4, SumRemove DEF n
    <3>2. SumFunctionOnSet(l.debs, DebsOf(l, z) \ {key}) \in Int
      <4>1. \A k \in DebsOf(l, z) \ {key} : l.debs[k] \in Int
        BY <1>4
      <4>2. IsFiniteSet(DebsOf(l, z) \ {key})
        BY <1>4, FS_Subset
      <4> QED
        BY <4>1, <4>2, SumInt
    <3>3. w.shares = SumFunctionOnSet(m.debs, DebsOf(m, z))
      <4>1. SumFunctionOnSet(m.debs, DebsOf(m, z)) = SumFunctionOnSet(l.debs, DebsOf(l, z) \ {key})
        BY <2>3, <2>5, <2>6
      <4> QED
        BY <1>3, <1>5, <1>6, <1>8, <3>1, <3>2, <4>1
    <3>4. w.shares = 0 => w.balance = 0
      <4>1. ASSUME pool.shares - n = 0 PROVE pool.balance - v = 0
        <5>1. n = pool.shares
          BY <1>3, <1>6, <4>1
        <5>2. CASE n = 0
          BY <1>5, <1>7, <5>1, <5>2
        <5>3. CASE n # 0
          BY <1>6, <1>7, <5>1, <5>3
        <5> QED
          BY <5>2, <5>3
      <4> QED
        BY <1>8, <4>1
    <3> QED
      BY <1>11, <2>2, <2>6, <3>3, <3>4 DEF DebondingBacked
  <2>7. CASE y # z
    <3>1. key \notin DebsOf(l, y)
      BY <1>1, <2>7 DEF DebsOf
    <3>2. DebsOf(m, y) = DebsOf(l, y)
      BY <2>3, <3>1
    <3>3. m.debonding[y] = l.debonding[y]
      BY <1>11, <2>7
    <3> QED
      BY <2>1, <2>2, <2>5, <3>2, <3>3 DEF DebondingBacked
  <2> QED
    BY <2>6, <2>7
<1>13. Worth(m) = Worth(l)
  <2>1. v \in Nat /\ -v \in Int
    BY <1>6, <1>7
  <2>2. \A y \in Addr : Holdings(m)[y] = Holdings(l)[y] + (IF y = x THEN v ELSE 0) + (IF y = z THEN -v ELSE 0)
    <3> SUFFICES ASSUME NEW y \in Addr
                 PROVE  Holdings(m)[y] = Holdings(l)[y] + (IF y = x THEN v ELSE 0) + (IF y = z THEN -v ELSE 0)
      OBVIOUS
    <3>1. Holdings(m)[y] = m.general[y] + m.active[y].balance + m.debonding[y].balance /\ Holdings(l)[y] = l.general[y] + l.active[y].balance + l.debonding[y].balance
      BY DEF Holdings
    <3>2. l.general[y] \in Nat /\ l.active[y].balance \in Nat /\ l.debonding[y].balance \in Nat /\ m.active[y] = l.active[y]
      BY <1>0, <1>9, TypedFields DEF SharePool
    <3>3. m.general[y] = l.general[y] + (IF y = x THEN v ELSE 0)
      BY <1>3, <1>9, <2>1
    <3>4. m.debonding[y].balance = l.debonding[y].balance + (IF y = z THEN -v ELSE 0)
      <4>1. CASE y = z
        BY <1>6, <1>8, <1>11, <2>1, <4>1 DEF pool
      <4>2. CASE y # z
        BY <1>11, <3>2, <4>2
      <4> QED
        BY <4>1, <4>2
    <3> QED
      BY <2>1, <3>1, <3>2, <3>3, <3>4
  <2>3. Worth(m) = Worth(l) - l.commonPool - l.deposits + m.commonPool + m.deposits + v + (-v)
    <3>1. Moved(l, m, x, z, v, -v)
      BY <2>2 DEF Moved
    <3> QED
      BY <1>0, <1>2, <1>10, <2>1, <3>1, WorthTwo
  <2>4. l.commonPool \in Nat /\ l.deposits \in Nat /\ Worth(l) \in Nat
    BY <1>0, TypedFields, HoldingsNat
  <2> QED
    BY <1>9, <2>1, <2>3, <2>4
<1>14. \A y \in Addr : /\ NotDiluted(l.debonding[y], m.debonding[y])
                       /\ m.debonding[y].shares <= l.debonding[y].shares
  <2>1. w.shares <= pool.shares
    BY <1>3, <1>6, <1>8
  <2>2. \A y \in Addr : NotDiluted(l.debonding[y], l.debonding[y]) /\ l.debonding[y].shares <= l.debonding[y].shares
    BY <1>3, ValueReflexive DEF SharePool
  <2> QED
    BY <1>8, <1>11, <2>1, <2>2 DEF pool
<1> QED
  BY <1>9, <1>10, <1>12, <1>13, <1>14 DEF Sound, Redeemed

LEMMA RedeemAllEffect ==
    ASSUME StakingAssumption, NEW l, Sound(l), NEW K \in SUBSET DOMAIN l.debs, NEW m, m = RedeemAll(l, K)
    PROVE  /\ Sound(m) /\ Worth(m) = Worth(l) /\ m.active = l.active
           /\ m.debs = [k \in DOMAIN l.debs \ K |-> l.debs[k]]
           /\ m.total = l.total /\ m.lastFees = l.lastFees /\ m.deposits = l.deposits
           /\ \A y \in Addr : NotDiluted(l.debonding[y], m.debonding[y])
<1> DEFINE k == Cardinality(K)
           q == SetToSeq(K)
<1>0. Typed(l)
  BY DEF Sound
<1>1. IsFiniteSet(K) /\ k \in Nat
  BY <1>0, KeysFinite, FS_Subset, FS_CardinalityType
<1>2. PICK r : IsTrace("redeem", 0, l, q, k, r) /\ m = r[k]
  BY <1>1, RedeemTrace
<1> DEFINE P(i) == /\ Sound(r[i]) /\ Worth(r[i]) = Worth(l) /\ r[i].active = l.active
                   /\ r[i].debs = [j \in DOMAIN l.debs \ Done(K, i) |-> l.debs[j]]
                   /\ r[i].total = l.total /\ r[i].lastFees = l.lastFees /\ r[i].deposits = l.deposits
                   /\ \A y \in Addr : NotDiluted(l.debonding[y], r[i].debonding[y])
           F == {i \in Nat : i <= k => P(i)}
<1>4. 0 \in F
  <2>1. r[0] = l /\ Done(K, 0) = {}
    BY <1>1, <1>2, DoneSteps DEF IsTrace
  <2>2. \A y \in Addr : NotDiluted(l.debonding[y], l.debonding[y])
    BY TypedFields, ValueReflexive DEF Sound
  <2>3. l.debs = [j \in DOMAIN l.debs |-> l.debs[j]]
    BY <1>0, TypedFields
  <2> QED
    BY <2>1, <2>2, <2>3
<1>5. ASSUME NEW i \in Nat, i \in F PROVE i + 1 \in F
  <2> SUFFICES ASSUME i + 1 <= k PROVE P(i + 1)
    OBVIOUS
  <2>1. P(i)
    BY <1>1, <1>5
  <2>2. PICK x : x = q[i + 1]
    OBVIOUS
  <2>3. x \in DOMAIN l.debs /\ x \notin Done(K, i) /\ Done(K, i + 1) = Done(K, i) \cup {x}
    BY <1>1, <2>2, DoneSteps
  <2>4. r[i + 1] = Redeem(r[i], x)
    <3>1. i + 1 \in 1..k /\ (i + 1) - 1 = i
      BY <1>1
    <3>2. r[i + 1] = Step("redeem", 0, r[(i + 1) - 1], q[i + 1])
      BY <1>2, <3>1 DEF IsTrace
    <3> QED
      BY <2>2, <3>1, <3>2 DEF Step
  <2> DEFINE n == r[i]
             n1 == r[i + 1]
  <2>5. Redeemed(n, n1, x) /\ Typed(n) /\ Typed(n1)
    <3> HIDE DEF n, n1
    <3>1. Sound(n) /\ n1 = Redeem(n, x) /\ x \in DOMAIN n.debs
      BY <2>1, <2>3, <2>4 DEF n, n1
    <3>2. Redeemed(n, n1, x)
      BY <3>1, RedeemEffect
    <3> QED
      BY <3>1, <3>2 DEF Sound, Redeemed
  <2>6. ASSUME NEW y \in Addr PROVE NotDiluted(l.debonding[y], n1.debonding[y])
    <3>1. NotDiluted(l.debonding[y], n.debonding[y])
      BY <2>1
    <3>2. NotDiluted(n.debonding[y], n1.debonding[y]) /\ n1.debonding[y].shares <= n.debonding[y].shares
      BY <2>5 DEF Redeemed
    <3>3. l.debonding[y] \in SharePool /\ n.debonding[y] \in SharePool /\ n1.debonding[y] \in SharePool
      BY <1>0, <2>5, TypedFields
    <3>4. n.debonding[y].shares = 0 => n1.debonding[y].shares = 0
      BY <3>2, <3>3 DEF SharePool
    <3> HIDE DEF n, n1
    <3> QED
      BY <3>1, <3>2, <3>3, <3>4, ValueTransitive
  <2>7. n1.debs = [j \in DOMAIN l.debs \ Done(K, i + 1) |-> l.debs[j]]
    <3>1. n.debs = [j \in DOMAIN l.debs \ Done(K, i) |-> l.debs[j]]
      BY <2>1
    <3>2. n1.debs = [j \in DOMAIN n.debs \ {x} |-> n.debs[j]]
      BY <2>5 DEF Redeemed
    <3> HIDE DEF n, n1
    <3>3. DOMAIN n.debs \ {x} = DOMAIN l.debs \ Done(K, i + 1)
      BY <2>3, <3>1
    <3>4. \A j \in DOMAIN l.debs \ Done(K, i + 1) : n.debs[j] = l.debs[j]
      BY <2>3, <3>1
    <3> QED
      BY <3>2, <3>3, <3>4
  <2> QED
    BY <2>1, <2>5, <2>6, <2>7 DEF Redeemed
<1>6. \A i \in Nat : i \in F
  <2> HIDE DEF F
  <2> QED
    BY <1>4, <1>5, NatSetInduction
<1>7. P(k)
  BY <1>1, <1>6
<1>8. Done(K, k) = K
  BY <1>1, DoneSteps
<1> QED
  BY <1>2, <1>7, <1>8

\* A change of epoch.
EpochDone(l, m, now) ==
    /\ Sound(m) /\ Worth(m) = Worth(l)
    /\ m.debs = [k \in DOMAIN l.debs \ ExpiredDebondingQueue(l, now) |-> l.debs[k]]
    /\ m.total = l.total /\ m.lastFees = l.lastFees /\ m.deposits = l.deposits
    /\ \A y \in Addr : /\ NotDiluted(l.active[y], m.active[y])
                       /\ NotDiluted(l.debonding[y], m.debonding[y])

LEMMA EpochEffect ==
    ASSUME StakingAssumption, NEW l, Sound(l), NEW now, NEW m, m = OnEpochChange(l, now)
    PROVE  EpochDone(l, m, now)
<1> DEFINE K == ExpiredDebondingQueue(l, now)
<1>1. K \in SUBSET DOMAIN l.debs
  BY DEF ExpiredDebondingQueue
<1>2. PICK n : n = RedeemAll(l, K)
  OBVIOUS
<1>3. /\ Sound(n) /\ Worth(n) = Worth(l) /\ n.active = l.active
      /\ n.debs = [k \in DOMAIN l.debs \ K |-> l.debs[k]]
      /\ n.total = l.total /\ n.lastFees = l.lastFees /\ n.deposits = l.deposits
      /\ \A y \in Addr : NotDiluted(l.debonding[y], n.debonding[y])
  <2> HIDE DEF K
  <2> QED
    BY <1>1, <1>2, RedeemAllEffect
<1>4. \A y \in Addr : NotDiluted(n.active[y], n.active[y])
  BY <1>3, TypedFields, ValueReflexive DEF Sound
<1>5. CASE m = n
  BY <1>3, <1>4, <1>5 DEF EpochDone
<1>6. CASE m = AddRewards(n, EligibleEntities)
  <2>1. EligibleEntities \in SUBSET Addr
    BY DEF EligibleEntities
  <2>2. PICK xs : xs = EligibleEntities
    OBVIOUS
  <2>3. /\ Sound(m) /\ Worth(m) = Worth(n)
        /\ m.general = n.general /\ m.debonding = n.debonding /\ m.debs = n.debs
        /\ m.total = n.total /\ m.lastFees = n.lastFees /\ m.deposits = n.deposits
        /\ \A y \in Addr : NotDiluted(n.active[y], m.active[y])
    BY <1>3, <1>6, <2>1, <2>2, RewardsEffect
  <2> QED
    BY <1>3, <2>3 DEF EpochDone
<1> QED
  BY <1>2, <1>5, <1>6 DEF OnEpochChange

-----------------------------------------------------------------------------
(***************************************************************************)
(* Slashed funds and fees.                                                   *)
(***************************************************************************)

\* What is paid out of slashed funds is at most what was slashed.
LEMMA DistributeEffect ==
    ASSUME StakingAssumption, NEW l, Sound(l), NEW slashed \in Nat, slashed <= l.commonPool,
           NEW R \in SUBSET Addr, ~DistributionFails(l, slashed, R),
           NEW m, m = DistributeSlashedFunds(l, slashed, R)
    PROVE  /\ Sound(m) /\ Worth(m) = Worth(l) /\ m.debs = l.debs
           /\ m.total = l.total /\ m.lastFees = l.lastFees /\ m.deposits = l.deposits
           /\ m.commonPool >= l.commonPool - slashed
<1> DEFINE mine == (slashed * RuntimePercent) \div 100
           n == Cardinality(R)
           other == IF n = 0 THEN 0 ELSE (slashed - mine) \div n
<1>1. RuntimePercent \in Nat /\ RuntimePercent <= 100 /\ RuntimeAddr \in Addr /\ IsFiniteSet(R) /\ n \in Nat /\ l.commonPool \in Nat
  BY FS_Subset, FS_CardinalityType, TypedFields DEF StakingAssumption, Sound
<1>2. mine \in 0..slashed
  BY <1>1, PartOf
<1>3. other \in Nat /\ other * n \in Nat /\ other * n <= slashed - mine
  <2> HIDE DEF mine, n
  <2>1. slashed - mine \in Nat
    BY <1>2
  <2>2. CASE n = 0
    BY <2>1, <2>2
  <2>3. CASE n # 0
    <3>1. other \in Nat /\ n * other <= slashed - mine
      BY <1>1, <2>1, <2>3, DivNat
    <3>2. other * n = n * other /\ other * n \in Nat
      <4> HIDE DEF other
      <4> QED
        BY <1>1, <3>1
    <3> QED
      BY <3>1, <3>2
  <2> QED
    BY <2>2, <2>3
<1>4. PICK l1 : l1 = CommonToGeneral(l, RuntimeAddr, mine)
  OBVIOUS
<1>5. m = CommonToEscrows(l1, R, other)
  BY <1>4 DEF DistributeSlashedFunds
<1>6. ASSUME NEW x \in R PROVE n # 0 /\ other <= other * n /\ ~CommonToEscrowFails(l, x, other)
  <2>1. n # 0
    BY <1>1, FS_EmptySet
  <2>2. ~CommonToEscrowFails(l, x, other)
    BY <2>1 DEF DistributionFails
  <2>3. other <= other * n
    <3> HIDE DEF n, other
    <3> QED
      BY <1>1, <1>3, <2>1
  <2> QED
    BY <2>1, <2>2, <2>3
<1> HIDE DEF mine, n, other
<1>7. /\ Sound(l1) /\ Worth(l1) = Worth(l) /\ l1.commonPool = l.commonPool - mine
      /\ l1.active = l.active /\ l1.debs = l.debs
      /\ l1.total = l.total /\ l1.lastFees = l.lastFees /\ l1.deposits = l.deposits
  <2>1. mine \in Nat /\ mine <= l.commonPool
    BY <1>1, <1>2
  <2> QED
    BY <1>1, <1>4, <2>1, ToGeneralEffect
<1>8. other * n <= l1.commonPool /\ l1.commonPool \in Nat
  BY <1>1, <1>2, <1>3, <1>7
<1>9. ASSUME NEW x \in R PROVE ~CommonToEscrowFails(l1, x, other)
  <2>1. other <= l1.commonPool /\ other <= l.commonPool
    BY <1>1, <1>2, <1>3, <1>6, <1>7, <1>8
  <2>2. Min({other, l1.commonPool}) = other /\ Min({other, l.commonPool}) = other
    BY <1>1, <1>3, <1>8, <2>1, MinOfTwo
  <2> QED
    BY <1>6, <1>7, <2>2 DEF CommonToEscrowFails
<1>10. /\ Sound(m) /\ Worth(m) = Worth(l1) /\ m.commonPool = l1.commonPool - other * n /\ m.debs = l1.debs
       /\ m.total = l1.total /\ m.lastFees = l1.lastFees /\ m.deposits = l1.deposits
  BY <1>3, <1>5, <1>7, <1>8, <1>9, PayAllEffect DEF n
<1> QED
  BY <1>1, <1>2, <1>3, <1>7, <1>10

\* The fees of a block.
LEMMA FeesPEffect ==
    ASSUME StakingAssumption, weights \in Weights, NEW l, Sound(l), NEW fees \in Nat,
           NEW p \in Addr \cup {Nobody}, NEW m, m = DisburseFeesP(l, fees, p)
    PROVE  /\ Sound(m) /\ Worth(m) + m.lastFees = Worth(l) + fees
           /\ m.active = l.active /\ m.debonding = l.debonding /\ m.debs = l.debs
           /\ m.total = l.total /\ m.deposits = l.deposits
           /\ weights.vote + weights.next = 0 => m.lastFees = 0
<1> DEFINE keep == (fees * (weights.vote + weights.next)) \div (weights.propose + weights.vote + weights.next)
<1>0. Typed(l) /\ Backed(l)
  BY DEF Sound
<1>1. keep \in 0..fees
  <2>1. weights.propose \in Nat /\ weights.vote \in Nat /\ weights.next \in Nat /\ weights.propose + weights.vote + weights.next > 0
    BY DEF StakingAssumption
  <2>2. weights.vote + weights.next \in Nat /\ weights.propose + weights.vote + weights.next \in Nat \ {0}
        /\ weights.vote + weights.next <= weights.propose + weights.vote + weights.next
    BY <2>1
  <2> QED
    BY <2>2, PartOf
<1>k. weights.vote + weights.next = 0 => keep = 0
  <2>1. weights.propose \in Nat /\ weights.vote \in Nat /\ weights.next \in Nat /\ weights.propose + weights.vote + weights.next > 0
    BY DEF StakingAssumption
  <2>2. PICK t : t = weights.propose + weights.vote + weights.next
    OBVIOUS
  <2>3. t \in Nat \ {0}
    BY <2>1, <2>2
  <2>4. fees * 0 = 0 /\ 0 \div t = 0
    BY <2>3
  <2> QED
    BY <2>2, <2>4
<1>2. /\ Shape(l) /\ l.general \in [Addr -> Nat] /\ l.commonPool \in Nat /\ l.deposits \in Nat /\ Worth(l) \in Nat
  BY <1>0, TypedFields, HoldingsNat
<1>3. CASE p = Nobody
  <2>1. m = [l EXCEPT !.lastFees = keep, !.commonPool = @ + fees - keep]
    BY <1>3 DEF DisburseFeesP
  <2> HIDE DEF keep
  <2>2. /\ Shape(m) /\ m.lastFees = keep /\ m.commonPool = l.commonPool + fees - keep /\ m.general = l.general
        /\ m.active = l.active /\ m.debonding = l.debonding /\ m.debs = l.debs /\ m.delegation = l.delegation
        /\ m.total = l.total /\ m.deposits = l.deposits /\ m.allowance = l.allowance
    BY <1>2, <2>1 DEF Shape
  <2>3. keep \in Nat /\ m.commonPool \in Nat
    BY <1>1, <1>2, <2>2
  <2>4. Typed(m)
    BY <1>0, <2>2, <2>3, TypedFields, TypedIf
  <2>5. Backed(m)
    BY <1>0, <2>2, BackedSame
  <2>6. Holdings(m) = Holdings(l)
    BY <2>2 DEF Holdings
  <2>7. Worth(m) + m.lastFees = Worth(l) + fees
    <3>1. SumFunctionOnSet(Holdings(l), Addr) \in Nat
      BY <1>0, HoldingsNat
    <3> QED
      BY <1>1, <1>2, <2>2, <2>3, <2>6, <3>1 DEF Worth
  <2> QED
    BY <1>k, <2>2, <2>4, <2>5, <2>7 DEF Sound
<1>4. CASE p \in Addr /\ p # Nobody
  <2>1. m = [l EXCEPT !.lastFees = keep, !.general[p] = @ + fees - keep]
    BY <1>4 DEF DisburseFeesP
  <2> HIDE DEF keep
  <2>2. /\ Shape(m) /\ m.lastFees = keep /\ m.commonPool = l.commonPool
        /\ m.general = [l.general EXCEPT ![p] = @ + fees - keep]
        /\ m.active = l.active /\ m.debonding = l.debonding /\ m.debs = l.debs /\ m.delegation = l.delegation
        /\ m.total = l.total /\ m.deposits = l.deposits /\ m.allowance = l.allowance
    BY <1>2, <2>1 DEF Shape
  <2>3. keep \in Nat /\ m.general \in [Addr -> Nat] /\ fees - keep \in Nat
    BY <1>1, <1>2, <1>4, <2>2
  <2>4. Typed(m)
    BY <1>0, <2>2, <2>3, TypedFields, TypedIf
  <2>5. Backed(m)
    BY <1>0, <2>2, BackedSame
  <2>6. \A y \in Addr : Holdings(m)[y] = Holdings(l)[y] + (IF y = p THEN fees - keep ELSE 0)
    <3> SUFFICES ASSUME NEW y \in Addr PROVE Holdings(m)[y] = Holdings(l)[y] + (IF y = p THEN fees - keep ELSE 0)
      OBVIOUS
    <3>1. Holdings(m)[y] = m.general[y] + m.active[y].balance + m.debonding[y].balance /\ Holdings(l)[y] = l.general[y] + l.active[y].balance + l.debonding[y].balance
      BY DEF Holdings
    <3>2. l.general[y] \in Nat /\ l.active[y].balance \in Nat /\ l.debonding[y].balance \in Nat /\ m.active[y] = l.active[y] /\ m.debonding[y] = l.debonding[y]
      BY <1>0, <2>2, TypedFields DEF SharePool
    <3>3. m.general[y] = l.general[y] + (IF y = p THEN fees - keep ELSE 0)
      BY <1>1, <1>2, <2>2, <2>3
    <3> QED
      BY <2>3, <3>1, <3>2, <3>3
  <2>7. Worth(m) = Worth(l) - l.commonPool - l.deposits + m.commonPool + m.deposits + (fees - keep)
    <3>1. fees - keep \in Int
      BY <2>3
    <3> DEFINE d == fees - keep
    <3>2. \A y \in Addr : Holdings(m)[y] = Holdings(l)[y] + (IF y = p THEN d ELSE 0)
      BY <2>6
    <3> HIDE DEF d
    <3>3. Worth(m) = Worth(l) - l.commonPool - l.deposits + m.commonPool + m.deposits + d
      BY <1>0, <1>4, <2>4, <3>1, <3>2, WorthOne DEF d
    <3> QED
      BY <3>3 DEF d
  <2>8. Worth(m) + m.lastFees = Worth(l) + fees
    BY <1>2, <2>2, <2>3, <2>7
  <2> QED
    BY <1>k, <2>2, <2>4, <2>5, <2>8 DEF Sound
<1> QED
  BY <1>3, <1>4 DEF StakingAssumption

\* The fees kept from the last block.  Rounding never pays out more than there
\* is.
LEMMA FeesVQEffect ==
    ASSUME StakingAssumption, weights \in Weights, NEW l, Sound(l), ~DisburseFeesVQFails(l),
           NEW p \in Addr \cup {Nobody}, NEW V \in SUBSET Addr,
           NEW m, m = DisburseFeesVQ(l, p, Cardinality(Addr), V)
    PROVE  /\ Sound(m) /\ Worth(m) = Worth(l) + l.lastFees
           /\ m.active = l.active /\ m.debonding = l.debonding /\ m.debs = l.debs
           /\ m.total = l.total /\ m.deposits = l.deposits
<1>0. Typed(l) /\ Backed(l) /\ Worth(l) \in Nat /\ l.lastFees \in Nat
  BY HoldingsNat, TypedFields DEF Sound
<1>1. CASE l.lastFees = 0
  BY <1>0, <1>1 DEF DisburseFeesVQ
<1>2. CASE l.lastFees # 0
  <2> DEFINE f == l.lastFees
             n == Cardinality(Addr)
             c == Cardinality(V)
             per == f \div n
             next == (per * weights.next) \div (weights.vote + weights.next)
             vote == per - next
             nt == IF p = Nobody THEN 0 ELSE next * c
  <2>1. IsFiniteSet(Addr) /\ IsFiniteSet(V) /\ n \in Nat \ {0} /\ c \in Nat /\ c <= n /\ Nobody \notin Addr
    <3>1. IsFiniteSet(Addr) /\ Addr # {} /\ Nobody \notin Addr
      BY DEF StakingAssumption
    <3> QED
      BY <3>1, FS_Subset, FS_CardinalityType, FS_EmptySet
  <2>2. weights.vote \in Nat /\ weights.next \in Nat /\ weights.vote + weights.next # 0
    BY <1>2 DEF StakingAssumption, DisburseFeesVQFails
  <2>3. per \in Nat /\ n * per <= f /\ f \in Nat
    BY <1>0, <2>1, DivNat
  <2>4. next \in 0..per
    <3> HIDE DEF per
    <3>1. weights.vote + weights.next \in Nat \ {0} /\ weights.next <= weights.vote + weights.next
      BY <2>2
    <3> QED
      BY <2>2, <2>3, <3>1, PartOf
  <2>5. m = [l EXCEPT
                !.general = [x \in Addr |-> @[x] + (IF x = p THEN nt ELSE 0)
                                                 + (IF x \in V THEN vote ELSE 0)],
                !.commonPool = @ + f - nt - vote * c]
    BY <1>2 DEF DisburseFeesVQ
  <2> HIDE DEF n, per, next
  <2>6. vote \in Nat /\ nt \in Nat /\ vote * c \in Nat /\ next * c \in Nat /\ nt <= next * c
    <3>1. vote \in Nat /\ next \in Nat
      BY <2>3, <2>4
    <3> HIDE DEF vote, c
    <3> QED
      BY <2>1, <3>1, MulNat
  <2>7. nt + vote * c <= f
    <3>1. vote + next = per /\ vote \in Nat /\ next \in Nat
      BY <2>3, <2>4
    <3> HIDE DEF vote, c, nt, f
    <3>2. vote * c + next * c = (vote + next) * c
      BY <2>1, <3>1
    <3>3. per * c <= n * per /\ per * c \in Nat /\ n * per \in Nat
      BY <2>1, <2>3
    <3> QED
      BY <2>3, <2>6, <3>1, <3>2, <3>3
  <2> HIDE DEF vote, c, nt, f
  <2>8. /\ Shape(m)
        /\ m.general = [x \in Addr |-> l.general[x] + (IF x = p THEN nt ELSE 0) + (IF x \in V THEN vote ELSE 0)]
        /\ m.commonPool = l.commonPool + f - nt - vote * c
        /\ m.active = l.active /\ m.debonding = l.debonding /\ m.debs = l.debs /\ m.delegation = l.delegation
        /\ m.total = l.total /\ m.deposits = l.deposits /\ m.allowance = l.allowance /\ m.lastFees = l.lastFees
    <3>1. Shape(l)
      BY <1>0, TypedFields
    <3> QED
      BY <2>5, <3>1 DEF Shape
  <2>9. l.general \in [Addr -> Nat] /\ l.commonPool \in Nat /\ l.deposits \in Nat
    BY <1>0, TypedFields
  <2>10. m.general \in [Addr -> Nat] /\ m.commonPool \in Nat
    <3>1. m.commonPool \in Nat
      BY <2>3, <2>6, <2>7, <2>8, <2>9
    <3> QED
      BY <2>6, <2>8, <2>9, <3>1
  <2>11. Typed(m)
    BY <1>0, <2>8, <2>10, TypedFields, TypedIf
  <2>12. Backed(m)
    BY <1>0, <2>8, BackedSame
  <2> DEFINE A == [x \in Addr |-> IF x \in {p} \cap Addr THEN nt ELSE 0]
             B == [x \in Addr |-> IF x \in V THEN vote ELSE 0]
             C == [x \in Addr |-> A[x] + B[x]]
  <2>13. SumFunctionOnSet(A, Addr) = nt
    <3> DEFINE W == {p} \cap Addr
    <3>1. \A x \in Addr : A[x] = IF x \in W THEN nt ELSE 0
      OBVIOUS
    <3>2. W \in SUBSET Addr /\ nt \in Int
      BY <2>6
    <3> HIDE DEF A, W
    <3>3. SumFunctionOnSet(A, Addr) = nt * Cardinality(W)
      BY <2>1, <3>1, <3>2, SumEach
    <3>4. CASE p = Nobody
      <4>1. nt = 0 /\ W = {}
        BY <2>1, <3>4 DEF W, nt
      <4>2. Cardinality(W) = 0
        BY <4>1, FS_EmptySet
      <4> QED
        BY <3>3, <4>1, <4>2
    <3>5. CASE p \in Addr
      <4>1. W = {p}
        BY <3>5 DEF W
      <4>2. Cardinality(W) = 1
        BY <4>1, FS_Singleton
      <4> QED
        BY <2>6, <3>3, <4>2
    <3> QED
      BY <3>4, <3>5
  <2>14. SumFunctionOnSet(B, Addr) = vote * c
    <3>1. \A x \in Addr : B[x] = IF x \in V THEN vote ELSE 0
      OBVIOUS
    <3>2. vote \in Int
      BY <2>6
    <3> HIDE DEF B
    <3> QED
      BY <2>1, <3>1, <3>2, SumEach DEF c
  <2>15. \A x \in Addr : A[x] \in Int /\ B[x] \in Int /\ C[x] = A[x] + B[x] /\ C[x] \in Int
    BY <2>6
  <2>16. \A x \in Addr : Holdings(l)[x] \in Int /\ Holdings(m)[x] = Holdings(l)[x] + C[x]
    <3> SUFFICES ASSUME NEW x \in Addr PROVE Holdings(l)[x] \in Int /\ Holdings(m)[x] = Holdings(l)[x] + C[x]
      OBVIOUS
    <3>1. Holdings(m)[x] = m.general[x] + m.active[x].balance + m.debonding[x].balance /\ Holdings(l)[x] = l.general[x] + l.active[x].balance + l.debonding[x].balance
      BY DEF Holdings
    <3>2. l.general[x] \in Nat /\ l.active[x].balance \in Nat /\ l.debonding[x].balance \in Nat /\ m.active[x] = l.active[x] /\ m.debonding[x] = l.debonding[x]
      BY <1>0, <2>8, TypedFields DEF SharePool
    <3>3. m.general[x] = l.general[x] + A[x] + B[x] /\ A[x] \in Int /\ B[x] \in Int
      BY <2>6, <2>8
    <3>4. C[x] = A[x] + B[x]
      OBVIOUS
    <3> HIDE DEF A, B, C
    <3> QED
      BY <3>1, <3>2, <3>3, <3>4
  <2> HIDE DEF A, B, C
  <2>17. SumFunctionOnSet(C, Addr) = nt + vote * c
    BY <2>1, <2>13, <2>14, <2>15, SumPlus
  <2>18. SumFunctionOnSet(Holdings(m), Addr) = SumFunctionOnSet(Holdings(l), Addr) + SumFunctionOnSet(C, Addr)
    BY <2>1, <2>15, <2>16, SumPlus
  <2>19. SumFunctionOnSet(Holdings(l), Addr) \in Nat
    BY <1>0, HoldingsNat
  <2>20. Worth(m) = Worth(l) + f
    BY <2>3, <2>6, <2>8, <2>9, <2>17, <2>18, <2>19 DEF Worth
  <2> QED
    BY <2>8, <2>11, <2>12, <2>20 DEF Sound, f
<1> QED
  BY <1>1, <1>2

-----------------------------------------------------------------------------
(***************************************************************************)
(* Transactions.                                                             *)
(***************************************************************************)

\* Two general balances change, by u and v.
GeneralMoved(l, m, a, b, u, v) ==
    \A y \in Addr : m.general[y] = l.general[y] + (IF y = a THEN u ELSE 0) + (IF y = b THEN v ELSE 0)

LEMMA GeneralEffect ==
    ASSUME StakingAssumption, NEW l, Sound(l), NEW m, Shape(m), m.general \in [Addr -> Nat],
           m.allowance \in [Addr -> [Addr -> Nat]], m.active = l.active, m.debonding = l.debonding,
           m.delegation = l.delegation, m.debs = l.debs, m.commonPool \in Nat, m.lastFees \in Nat,
           m.deposits \in Nat, m.total \in Nat,
           NEW a \in Addr, NEW b \in Addr, NEW u \in Int, NEW v \in Int, GeneralMoved(l, m, a, b, u, v)
    PROVE  /\ Sound(m)
           /\ Worth(m) = Worth(l) - l.commonPool - l.deposits + m.commonPool + m.deposits + u + v
<1>0. Typed(l) /\ Backed(l)
  BY DEF Sound
<1>1. Typed(m)
  BY <1>0, TypedFields, TypedIf
<1>2. Backed(m)
  BY <1>0, BackedSame
<1>3. Moved(l, m, a, b, u, v)
  <2> SUFFICES ASSUME NEW y \in Addr
               PROVE  Holdings(m)[y] = Holdings(l)[y] + (IF y = a THEN u ELSE 0) + (IF y = b THEN v ELSE 0)
    BY DEF Moved
  <2>1. Holdings(m)[y] = m.general[y] + m.active[y].balance + m.debonding[y].balance /\ Holdings(l)[y] = l.general[y] + l.active[y].balance + l.debonding[y].balance
    BY DEF Holdings
  <2>2. l.general[y] \in Nat /\ l.active[y].balance \in Nat /\ l.debonding[y].balance \in Nat /\ m.active[y] = l.active[y] /\ m.debonding[y] = l.debonding[y]
    BY <1>0, TypedFields DEF SharePool
  <2>3. m.general[y] = l.general[y] + (IF y = a THEN u ELSE 0) + (IF y = b THEN v ELSE 0)
    BY DEF GeneralMoved
  <2> QED
    BY <2>1, <2>2, <2>3
<1>4. Worth(m) = Worth(l) - l.commonPool - l.deposits + m.commonPool + m.deposits + u + v
  BY <1>0, <1>1, <1>3, WorthTwo
<1> QED
  BY <1>1, <1>2, <1>4 DEF Sound

\* Fees leave the account that pays them.
LEMMA PayFeesEffect ==
    ASSUME StakingAssumption, Sound(ledger), NEW x \in Addr, NEW fee \in Nat, CanPay(x, fee),
           NEW l, l = PayFees(x, fee)
    PROVE  /\ Sound(l) /\ Worth(l) = Worth(ledger) - fee
           /\ l.active = ledger.active /\ l.debonding = ledger.debonding /\ l.debs = ledger.debs
           /\ l.total = ledger.total /\ l.lastFees = ledger.lastFees
           /\ l.deposits = ledger.deposits /\ l.commonPool = ledger.commonPool
<1>0. Typed(ledger)
  BY DEF Sound
<1>1. /\ Shape(ledger) /\ ledger.general \in [Addr -> Nat] /\ MinTransactBalance \in Nat
      /\ ledger.allowance \in [Addr -> [Addr -> Nat]] /\ ledger.commonPool \in Nat
      /\ ledger.lastFees \in Nat /\ ledger.deposits \in Nat /\ ledger.total \in Nat
  BY <1>0, TypedFields DEF StakingAssumption
<1>2. /\ Shape(l) /\ l.general = [ledger.general EXCEPT ![x] = @ - fee]
      /\ l.active = ledger.active /\ l.debonding = ledger.debonding /\ l.debs = ledger.debs
      /\ l.delegation = ledger.delegation /\ l.allowance = ledger.allowance
      /\ l.total = ledger.total /\ l.lastFees = ledger.lastFees
      /\ l.deposits = ledger.deposits /\ l.commonPool = ledger.commonPool
  BY <1>1 DEF PayFees, Shape
<1>3. ledger.general[x] >= fee
  BY <1>1 DEF CanPay
<1>4. l.general \in [Addr -> Nat] /\ GeneralMoved(ledger, l, x, x, -fee, 0)
  BY <1>1, <1>2, <1>3 DEF GeneralMoved
<1>5. Sound(l) /\ Worth(l) = Worth(ledger) - ledger.commonPool - ledger.deposits + l.commonPool + l.deposits + (-fee) + 0
  <2>1. -fee \in Int /\ 0 \in Int
    OBVIOUS
  <2> QED
    BY <1>1, <1>2, <1>4, <2>1, GeneralEffect
<1>6. Worth(ledger) \in Nat
  BY <1>0, HoldingsNat
<1>7. Worth(l) = Worth(ledger) - fee
  BY <1>1, <1>2, <1>5, <1>6
<1> QED
  BY <1>2, <1>5, <1>7

LEMMA TransferEffect ==
    ASSUME StakingAssumption, NEW l, Sound(l), NEW x \in Addr, NEW y \in Addr, NEW a \in Nat,
           a <= l.general[x], NEW m, m = Transfer(l, x, y, a)
    PROVE  /\ Sound(m) /\ Worth(m) = Worth(l)
           /\ m.active = l.active /\ m.debonding = l.debonding /\ m.debs = l.debs /\ m.total = l.total
<1>0. Typed(l)
  BY DEF Sound
<1>1. CASE x = y
  BY <1>1 DEF Transfer
<1>2. CASE x # y
  <2>1. /\ Shape(l) /\ l.general \in [Addr -> Nat]
        /\ l.allowance \in [Addr -> [Addr -> Nat]] /\ l.commonPool \in Nat
        /\ l.lastFees \in Nat /\ l.deposits \in Nat /\ l.total \in Nat
    BY <1>0, TypedFields
  <2>2. m = [l EXCEPT !.general = [l.general EXCEPT ![x] = @ - a, ![y] = @ + a]]
    BY <1>2 DEF Transfer
  <2>3. /\ Shape(m) /\ m.general = [l.general EXCEPT ![x] = @ - a, ![y] = @ + a]
        /\ m.active = l.active /\ m.debonding = l.debonding /\ m.debs = l.debs
        /\ m.delegation = l.delegation /\ m.allowance = l.allowance /\ m.commonPool = l.commonPool
        /\ m.total = l.total /\ m.lastFees = l.lastFees /\ m.deposits = l.deposits
    <3>1. PICK g : g = [l.general EXCEPT ![x] = @ - a, ![y] = @ + a]
      OBVIOUS
    <3>2. m = [l EXCEPT !.general = g]
      BY <2>2, <3>1
    <3>3. /\ Shape(m) /\ m.general = g
          /\ m.active = l.active /\ m.debonding = l.debonding /\ m.debs = l.debs
          /\ m.delegation = l.delegation /\ m.allowance = l.allowance /\ m.commonPool = l.commonPool
          /\ m.total = l.total /\ m.lastFees = l.lastFees /\ m.deposits = l.deposits
      BY <2>1, <3>2 DEF Shape
    <3> QED
      BY <3>1, <3>3
  <2>4. m.general \in [Addr -> Nat] /\ GeneralMoved(l, m, x, y, -a, a)
    BY <1>2, <2>1, <2>3 DEF GeneralMoved
  <2>5. Sound(m) /\ Worth(m) = Worth(l) - l.commonPool - l.deposits + m.commonPool + m.deposits + (-a) + a
    <3>1. -a \in Int /\ a \in Int
      OBVIOUS
    <3> QED
      BY <2>1, <2>3, <2>4, <3>1, GeneralEffect, SMTT(30)
  <2>6. Worth(l) \in Nat
    BY <1>0, HoldingsNat
  <2>7. Worth(m) = Worth(l)
    BY <2>1, <2>3, <2>5, <2>6
  <2> QED
    BY <2>3, <2>5, <2>7
<1> QED
  BY <1>1, <1>2

\* What AddEscrow makes of the ledger.
Escrowed(l, x, z, a) ==
    [l EXCEPT !.general[x] = @ - a,
              !.delegation[x][z] = @ + SharesForStake(l.active[z], a),
              !.active[z] = Deposit(@, a)]

LEMMA EscrowEffect ==
    ASSUME StakingAssumption, NEW l, Sound(l), NEW x \in Addr, NEW z \in Addr, NEW a \in Nat,
           a <= l.general[x], CanDeposit(l.active[z]),
           NEW m, m = Escrowed(l, x, z, a)
    PROVE  /\ Sound(m) /\ Worth(m) = Worth(l) /\ m.debonding = l.debonding
           /\ m.debs = l.debs /\ m.total = l.total
           /\ \A y \in Addr : NotDiluted(l.active[y], m.active[y])
<1>0. Typed(l) /\ Backed(l)
  BY DEF Sound
<1> DEFINE p == l.active[z]
           e == SharesForStake(p, a)
           w == Deposit(p, a)
<1>1. /\ Shape(l) /\ l.general \in [Addr -> Nat] /\ l.active \in [Addr -> SharePool]
      /\ l.delegation \in [Addr -> [Addr -> Nat]] /\ l.delegation[x] \in [Addr -> Nat] /\ l.delegation[x][z] \in Nat
      /\ p \in SharePool /\ l.general[x] \in Nat
  BY <1>0, TypedFields
<1>2. e \in Nat /\ w \in SharePool /\ w.balance = p.balance + a /\ w.shares = p.shares + e /\ NotDiluted(p, w)
  BY <1>1, SharesTyped, DepositKeepsValue DEF Deposit
<1>3. p.shares = 0 => e = a
  BY DEF SharesForStake
<1>4. /\ Shape(m) /\ m.general = [l.general EXCEPT ![x] = @ - a]
      /\ m.delegation = [l.delegation EXCEPT ![x][z] = @ + e] /\ m.active = [l.active EXCEPT ![z] = w]
      /\ m.debonding = l.debonding /\ m.debs = l.debs /\ m.allowance = l.allowance /\ m.commonPool = l.commonPool
      /\ m.total = l.total /\ m.lastFees = l.lastFees /\ m.deposits = l.deposits
  <2> HIDE DEF e
  <2>1. m = [l EXCEPT !.general[x] = @ - a, !.delegation[x][z] = @ + e, !.active[z] = Deposit(@, a)]
    BY DEF e, p, Escrowed
  <2> QED
    BY <1>1, <2>1 DEF Shape, p, w
<1> HIDE DEF p, e, w
<1>5. Typed(m)
  <2>1. m.general \in [Addr -> Nat]
    BY <1>1, <1>4
  <2>2. m.active \in [Addr -> SharePool]
    BY <1>1, <1>2, <1>4
  <2>3. m.delegation \in [Addr -> [Addr -> Nat]]
    BY <1>1, <1>2, <1>4
  <2> QED
    BY <1>0, <1>4, <2>1, <2>2, <2>3, TypedFields, TypedIf
<1>6. m.active[z] = w /\ \A y \in Addr \ {z} : m.active[y] = l.active[y]
  BY <1>1, <1>4
<1>7. \A y, t \in Addr : m.delegation[y][t] = l.delegation[y][t] + (IF y = x /\ t = z THEN e ELSE 0)
  BY <1>1, <1>2, <1>4
<1>8. Backed(m)
  <2> SUFFICES ASSUME NEW y \in Addr PROVE ActiveBacked(m, y) /\ DebondingBacked(m, y)
    BY DEF Backed
  <2>1. ActiveBacked(l, y) /\ DebondingBacked(l, y)
    BY <1>0 DEF Backed
  <2>2. DebondingBacked(m, y)
    BY <1>4, <2>1 DEF DebondingBacked, DebsOf
  <2>3. CASE y = z
    <3>1. MoreShares(l, m, z, x, e)
      BY <1>7 DEF MoreShares
    <3>2. SumFunctionOnSet(SharesIn(m, z), Addr) = SumFunctionOnSet(SharesIn(l, z), Addr) + e
      BY <1>0, <1>2, <1>5, <3>1, SharesOne
    <3>3. p.shares = SumFunctionOnSet(SharesIn(l, z), Addr) /\ (p.shares = 0 => p.balance = 0)
      BY <2>1, <2>3 DEF ActiveBacked, p
    <3>4. w.shares = 0 => w.balance = 0
      BY <1>1, <1>2, <1>3, <3>3 DEF SharePool
    <3> QED
      BY <1>2, <1>6, <2>2, <2>3, <3>2, <3>3, <3>4 DEF ActiveBacked
  <2>4. CASE y # z
    <3>1. \A t \in Addr : m.delegation[t][y] = l.delegation[t][y]
      BY <1>1, <1>7, <2>4
    <3>2. m.active[y] = l.active[y]
      BY <1>6, <2>4
    <3>3. l.active[y].shares = 0 => m.active[y].balance = 0
      BY <2>1, <3>2 DEF ActiveBacked
    <3>4. ActiveBacked(m, y)
      <4> HIDE DEF ActiveBacked
      <4> QED
        BY <2>1, <3>1, <3>2, <3>3, ActiveSame
    <3> QED
      BY <2>2, <3>4
  <2> QED
    BY <2>3, <2>4
<1>9. Moved(l, m, x, z, -a, a)
  <2> SUFFICES ASSUME NEW y \in Addr
               PROVE  Holdings(m)[y] = Holdings(l)[y] + (IF y = x THEN -a ELSE 0) + (IF y = z THEN a ELSE 0)
    BY DEF Moved
  <2>1. Holdings(m)[y] = m.general[y] + m.active[y].balance + m.debonding[y].balance /\ Holdings(l)[y] = l.general[y] + l.active[y].balance + l.debonding[y].balance
    BY DEF Holdings
  <2>2. l.general[y] \in Nat /\ l.active[y].balance \in Nat /\ l.debonding[y].balance \in Nat /\ m.debonding[y] = l.debonding[y]
    BY <1>0, <1>4, TypedFields DEF SharePool
  <2>3. m.general[y] = l.general[y] + (IF y = x THEN -a ELSE 0)
    BY <1>1, <1>4
  <2>4. m.active[y].balance = l.active[y].balance + (IF y = z THEN a ELSE 0)
    BY <1>2, <1>6, <2>2 DEF p
  <2> QED
    BY <2>1, <2>2, <2>3, <2>4
<1>10. Worth(m) = Worth(l)
  <2>1. -a \in Int /\ a \in Int
    OBVIOUS
  <2>2. Worth(m) = Worth(l) - l.commonPool - l.deposits + m.commonPool + m.deposits + (-a) + a
    <3>1. PICK u \in Int : u = -a
      BY <2>1
    <3>2. Moved(l, m, x, z, u, a)
      BY <1>9, <3>1
    <3>3. Worth(m) = Worth(l) - l.commonPool - l.deposits + m.commonPool + m.deposits + u + a
      BY <1>0, <1>5, <2>1, <3>2, WorthTwo
    <3> QED
      BY <3>1, <3>3
  <2>3. l.commonPool \in Nat /\ l.deposits \in Nat /\ Worth(l) \in Nat
    BY <1>0, TypedFields, HoldingsNat
  <2> QED
    BY <1>4, <2>2, <2>3
<1>11. \A y \in Addr : NotDiluted(l.active[y], m.active[y])
  <2>1. \A y \in Addr : NotDiluted(l.active[y], l.active[y])
    BY <1>1, ValueReflexive
  <2> QED
    BY <1>2, <1>6, <2>1 DEF p
<1> QED
  BY <1>4, <1>5, <1>8, <1>10, <1>11 DEF Sound

\* The function g is f with e more at key, which f may not have.
Merged(f, g, S, key, e) ==
    \A k \in S \cup {key} : g[k] = (IF k \in S THEN f[k] ELSE 0) + (IF k = key THEN e ELSE 0)

LEMMA SumMerge ==
    ASSUME NEW S, IsFiniteSet(S), NEW f, NEW g, NEW key, NEW e \in Nat,
           \A k \in S : f[k] \in Nat, Merged(f, g, S, key, e)
    PROVE  SumFunctionOnSet(g, S \cup {key}) = SumFunctionOnSet(f, S) + e
<1>1. SumFunctionOnSet(f, S) \in Int
  BY SumInt
<1>2. CASE key \in S
  <2>1. S \cup {key} = S
    BY <1>2
  <2>2. \A k \in S : f[k] \in Int /\ g[k] \in Int
    BY DEF Merged
  <2>3. \A k \in S \ {key} : g[k] = f[k]
    BY DEF Merged
  <2>4. g[key] = f[key] + e /\ f[key] \in Nat
    BY <1>2 DEF Merged
  <2>5. SumFunctionOnSet(g, S) = SumFunctionOnSet(f, S) - f[key] + g[key]
    BY <1>2, <2>2, <2>3, SumChange
  <2>6. SumFunctionOnSet(g, S) = SumFunctionOnSet(f, S) + e
    BY <1>1, <2>4, <2>5
  <2> QED
    BY <2>1, <2>6
<1>3. CASE key \notin S
  <2> DEFINE T == S \cup {key}
  <2>1. IsFiniteSet(T)
    BY FS_AddElement
  <2>2. \A k \in T : g[k] \in Int
    BY DEF Merged
  <2>3. T \ {key} = S /\ key \in T
    BY <1>3
  <2>4. SumFunctionOnSet(g, T) = g[key] + SumFunctionOnSet(g, T \ {key})
    <3> HIDE DEF T
    <3> QED
      BY <2>1, <2>2, <2>3, SumRemove
  <2>5. g[key] = e
    BY <1>3 DEF Merged
  <2>6. \A k \in S : g[k] = f[k]
    BY <1>3 DEF Merged
  <2>7. SumFunctionOnSet(g, S) = SumFunctionOnSet(f, S)
    BY <2>6, SumSame
  <2>8. SumFunctionOnSet(g, T) = e + SumFunctionOnSet(f, S)
    BY <2>3, <2>4, <2>5, <2>7
  <2> QED
    BY <1>1, <2>8
<1> QED
  BY <1>2, <1>3

\* What ReclaimEscrow makes of the ledger before the debonding delegation.
Unbonded(l, x, z, n) ==
    [l EXCEPT !.active[z] = Withdraw(@, n),
              !.delegation[x][z] = @ - n,
              !.debonding[z] = Deposit(@, StakeForShares(l.active[z], n))]

Reclaimed(l, x, z, n, key) ==
    SetDebondingDelegation(Unbonded(l, x, z, n), key,
                           SharesForStake(l.debonding[z], StakeForShares(l.active[z], n)))

ReclaimedIn(l, m, x, z, n, key, v, e) ==
    /\ Shape(m) /\ m.active = [l.active EXCEPT ![z] = Withdraw(@, n)]
    /\ m.delegation = [l.delegation EXCEPT ![x][z] = @ - n]
    /\ m.debonding = [l.debonding EXCEPT ![z] = Deposit(@, v)]
    /\ m.debs = [k \in DOMAIN l.debs \cup {key} |->
                     (IF k \in DOMAIN l.debs THEN l.debs[k] ELSE 0) + (IF k = key THEN e ELSE 0)]
    /\ m.general = l.general /\ m.allowance = l.allowance /\ m.commonPool = l.commonPool
    /\ m.total = l.total /\ m.lastFees = l.lastFees /\ m.deposits = l.deposits

LEMMA ReclaimFields ==
    ASSUME NEW l, Shape(l), NEW x, NEW z, NEW n, NEW key, NEW m, m = Reclaimed(l, x, z, n, key),
           NEW v, v = StakeForShares(l.active[z], n), NEW e, e = SharesForStake(l.debonding[z], v)
    PROVE  ReclaimedIn(l, m, x, z, n, key, v, e)
<1>1. PICK u : u = Unbonded(l, x, z, n)
  OBVIOUS
<1>2. u = [l EXCEPT !.active[z] = Withdraw(@, n), !.delegation[x][z] = @ - n, !.debonding[z] = Deposit(@, v)]
  BY <1>1 DEF Unbonded
<1>3. /\ Shape(u) /\ u.active = [l.active EXCEPT ![z] = Withdraw(@, n)]
      /\ u.delegation = [l.delegation EXCEPT ![x][z] = @ - n]
      /\ u.debonding = [l.debonding EXCEPT ![z] = Deposit(@, v)] /\ u.debs = l.debs
      /\ u.general = l.general /\ u.allowance = l.allowance /\ u.commonPool = l.commonPool
      /\ u.total = l.total /\ u.lastFees = l.lastFees /\ u.deposits = l.deposits
  BY <1>2 DEF Shape
<1>4. m = SetDebondingDelegation(u, key, e)
  BY <1>1 DEF Reclaimed
<1>5. /\ Shape(m) /\ m.active = u.active /\ m.delegation = u.delegation /\ m.debonding = u.debonding
      /\ m.debs = [k \in DOMAIN u.debs \cup {key} |->
                            (IF k \in DOMAIN u.debs THEN u.debs[k] ELSE 0) + (IF k = key THEN e ELSE 0)]
      /\ m.general = u.general /\ m.allowance = u.allowance /\ m.commonPool = u.commonPool
      /\ m.total = u.total /\ m.lastFees = u.lastFees /\ m.deposits = u.deposits
  <2>1. PICK d : d = [k \in DOMAIN u.debs \cup {key} |->
                            (IF k \in DOMAIN u.debs THEN u.debs[k] ELSE 0) + (IF k = key THEN e ELSE 0)]
    OBVIOUS
  <2>2. m = [u EXCEPT !.debs = d]
    BY <1>4, <2>1 DEF SetDebondingDelegation
  <2>3. /\ Shape(m) /\ m.active = u.active /\ m.delegation = u.delegation /\ m.debonding = u.debonding
        /\ m.debs = d
        /\ m.general = u.general /\ m.allowance = u.allowance /\ m.commonPool = u.commonPool
        /\ m.total = u.total /\ m.lastFees = u.lastFees /\ m.deposits = u.deposits
    BY <1>3, <2>2 DEF Shape
  <2> QED
    BY <2>1, <2>3
<1> QED
  BY <1>3, <1>5 DEF ReclaimedIn

LEMMA ReclaimEffect ==
    ASSUME StakingAssumption, NEW l, Sound(l), NEW x \in Addr, NEW z \in Addr, NEW n \in Nat,
           n <= l.delegation[x][z], CanDeposit(l.debonding[z]), NEW key \in DebondingKey, key[2] = z,
           NEW m, m = Reclaimed(l, x, z, n, key)
    PROVE  /\ Sound(m) /\ Worth(m) = Worth(l) /\ m.total = l.total /\ m.lastFees = l.lastFees
           /\ m.deposits = l.deposits /\ m.commonPool = l.commonPool
           /\ DOMAIN m.debs = DOMAIN l.debs \cup {key} /\ \A k \in DOMAIN l.debs : m.debs[k] >= l.debs[k]
           /\ \A y \in Addr : /\ NotDiluted(l.active[y], m.active[y])
                              /\ NotDiluted(l.debonding[y], m.debonding[y])
<1>0. Typed(l) /\ Backed(l)
  BY DEF Sound
<1>1. PICK p, q : p = l.active[z] /\ q = l.debonding[z]
  OBVIOUS
<1>2. PICK v : v = StakeForShares(p, n)
  OBVIOUS
<1>3. PICK e, pw, qw : e = SharesForStake(q, v) /\ pw = Withdraw(p, n) /\ qw = Deposit(q, v)
  OBVIOUS
<1>4. /\ Shape(l) /\ l.active \in [Addr -> SharePool] /\ l.debonding \in [Addr -> SharePool]
      /\ l.delegation \in [Addr -> [Addr -> Nat]] /\ l.delegation[x] \in [Addr -> Nat] /\ l.delegation[x][z] \in Nat
      /\ l.debs \in [DOMAIN l.debs -> Nat] /\ DOMAIN l.debs \subseteq DebondingKey
      /\ p \in SharePool /\ q \in SharePool
  BY <1>0, <1>1, TypedFields
<1>5. /\ p.balance \in Nat /\ p.shares \in Nat /\ q.balance \in Nat /\ q.shares \in Nat
  BY <1>4 DEF SharePool
<1>6. /\ p.shares = SumFunctionOnSet(SharesIn(l, z), Addr) /\ (p.shares = 0 => p.balance = 0)
      /\ q.shares = SumFunctionOnSet(l.debs, DebsOf(l, z)) /\ (q.shares = 0 => q.balance = 0)
  BY <1>0, <1>1 DEF Backed, ActiveBacked, DebondingBacked
<1>7. n <= p.shares
  <2>1. SharesIn(l, z)[x] = l.delegation[x][z] /\ \A y \in Addr : SharesIn(l, z)[y] \in Nat
    BY <1>4 DEF SharesIn
  <2>2. SharesIn(l, z)[x] <= SumFunctionOnSet(SharesIn(l, z), Addr)
    BY <2>1, SumNat DEF StakingAssumption
  <2> QED
    BY <1>4, <1>5, <1>6, <2>1, <2>2
<1>8. /\ v \in 0..p.balance /\ pw \in SharePool /\ (n = p.shares /\ n # 0 => v = p.balance)
      /\ NotDiluted(p, pw) /\ pw.balance = p.balance - v /\ pw.shares = p.shares - n
  <2>1. NotDiluted(p, pw)
    BY <1>3, <1>4, <1>7, WithdrawKeepsValue
  <2>2. pw.balance = p.balance - v /\ pw.shares = p.shares - n
    BY <1>2, <1>3 DEF Withdraw
  <2> QED
    BY <1>2, <1>3, <1>4, <1>7, <2>1, <2>2, StakeTyped
<1>9. v \in Nat /\ -v \in Int /\ -n \in Int
  BY <1>5, <1>8
<1>10. /\ e \in Nat /\ qw \in SharePool /\ NotDiluted(q, qw) /\ (q.shares = 0 => e = v)
       /\ qw.balance = q.balance + v /\ qw.shares = q.shares + e
  <2>1. CanDeposit(q)
    BY <1>1
  <2>2. qw.balance = q.balance + v /\ qw.shares = q.shares + e
    BY <1>3 DEF Deposit
  <2>3. q.shares = 0 => e = v
    BY <1>3 DEF SharesForStake
  <2> QED
    BY <1>3, <1>4, <1>9, <2>1, <2>2, <2>3, SharesTyped, DepositKeepsValue
<1>11. /\ Shape(m) /\ m.active = [l.active EXCEPT ![z] = pw]
       /\ m.delegation = [l.delegation EXCEPT ![x][z] = @ - n] /\ m.debonding = [l.debonding EXCEPT ![z] = qw]
       /\ m.debs = [k \in DOMAIN l.debs \cup {key} |->
                            (IF k \in DOMAIN l.debs THEN l.debs[k] ELSE 0) + (IF k = key THEN e ELSE 0)]
       /\ m.general = l.general /\ m.allowance = l.allowance /\ m.commonPool = l.commonPool
       /\ m.total = l.total /\ m.lastFees = l.lastFees /\ m.deposits = l.deposits
  <2>1. v = StakeForShares(l.active[z], n) /\ e = SharesForStake(l.debonding[z], v)
    BY <1>1, <1>2, <1>3
  <2>2. ReclaimedIn(l, m, x, z, n, key, v, e)
    BY <1>4, <2>1, ReclaimFields
  <2> QED
    BY <1>1, <1>3, <2>2 DEF ReclaimedIn
<1>12. /\ m.active[z] = pw /\ m.debonding[z] = qw
       /\ \A y \in Addr \ {z} : m.active[y] = l.active[y] /\ m.debonding[y] = l.debonding[y]
  BY <1>4, <1>11
<1>13. \A y, t \in Addr : m.delegation[y][t] = l.delegation[y][t] + (IF y = x /\ t = z THEN -n ELSE 0)
  BY <1>4, <1>11
<1>14. /\ DOMAIN m.debs = DOMAIN l.debs \cup {key} /\ \A k \in DOMAIN l.debs : l.debs[k] \in Nat
       /\ \A k \in DOMAIN m.debs : m.debs[k] = (IF k \in DOMAIN l.debs THEN l.debs[k] ELSE 0) + (IF k = key THEN e ELSE 0)
  BY <1>4, <1>11
<1>15. Typed(m)
  <2>1. m.active \in [Addr -> SharePool] /\ m.debonding \in [Addr -> SharePool]
    BY <1>4, <1>8, <1>10, <1>11
  <2>2. m.delegation \in [Addr -> [Addr -> Nat]]
    BY <1>4, <1>11
  <2>3. DOMAIN m.debs \subseteq DebondingKey
    BY <1>4, <1>14
  <2>4. m.debs \in [DOMAIN m.debs -> Nat]
    <3>1. \A k \in DOMAIN m.debs : m.debs[k] \in Nat
      BY <1>10, <1>14
    <3>2. m.debs = [k \in DOMAIN m.debs |-> m.debs[k]]
      BY <1>11, Zenon
    <3> QED
      BY <3>1, <3>2
  <2> QED
    BY <1>0, <1>11, <2>1, <2>2, <2>3, <2>4, TypedFields, TypedIf
<1>16. Backed(m)
  <2> SUFFICES ASSUME NEW y \in Addr PROVE ActiveBacked(m, y) /\ DebondingBacked(m, y)
    BY DEF Backed
  <2>1. ActiveBacked(l, y) /\ DebondingBacked(l, y)
    BY <1>0 DEF Backed
  <2>2. CASE y = z
    <3>1. MoreShares(l, m, z, x, -n)
      BY <1>13 DEF MoreShares
    <3>2. SumFunctionOnSet(SharesIn(m, z), Addr) = SumFunctionOnSet(SharesIn(l, z), Addr) + (-n)
      BY <1>0, <1>9, <1>15, <3>1, SharesOne
    <3>3. pw.shares = SumFunctionOnSet(SharesIn(m, z), Addr)
      BY <1>5, <1>6, <1>8, <3>2
    <3>4. ASSUME pw.shares = 0 PROVE pw.balance = 0
      <4>1. n = p.shares
        BY <1>5, <1>8, <3>4
      <4>2. CASE n = 0
        BY <1>5, <1>6, <1>8, <4>1, <4>2
      <4>3. CASE n # 0
        BY <1>5, <1>8, <4>1, <4>3
      <4> QED
        BY <4>2, <4>3
    <3>5. DebsOf(m, z) = DebsOf(l, z) \cup {key}
      BY <1>14 DEF DebsOf
    <3>6. Merged(l.debs, m.debs, DebsOf(l, z), key, e)
      BY <1>14 DEF Merged, DebsOf
    <3>7. IsFiniteSet(DebsOf(l, z)) /\ \A k \in DebsOf(l, z) : l.debs[k] \in Nat
      <4>1. IsFiniteSet(DebsOf(l, z))
        BY <1>0, KeysFinite
      <4> QED
        BY <1>14, <4>1 DEF DebsOf
    <3>8. SumFunctionOnSet(m.debs, DebsOf(l, z) \cup {key}) = SumFunctionOnSet(l.debs, DebsOf(l, z)) + e
      BY <1>10, <3>6, <3>7, SumMerge
    <3>9. qw.shares = SumFunctionOnSet(m.debs, DebsOf(m, z))
      BY <1>6, <1>10, <3>5, <3>8
    <3>10. qw.shares = 0 => qw.balance = 0
      BY <1>5, <1>6, <1>9, <1>10
    <3>11. ActiveBacked(m, z)
      BY <1>12, <3>3, <3>4 DEF ActiveBacked
    <3>12. DebondingBacked(m, z)
      BY <1>12, <3>9, <3>10 DEF DebondingBacked
    <3> QED
      BY <2>2, <3>11, <3>12
  <2>3. CASE y # z
    <3>1. \A t \in Addr : m.delegation[t][y] = l.delegation[t][y]
      BY <1>4, <1>13, <2>3
    <3>2. m.active[y] = l.active[y] /\ m.debonding[y] = l.debonding[y]
      BY <1>12, <2>3
    <3>3. l.active[y].shares = 0 => m.active[y].balance = 0
      BY <2>1, <3>2 DEF ActiveBacked
    <3>4. ActiveBacked(m, y)
      BY <2>1, <3>1, <3>2, <3>3, ActiveSame
    <3>5. DebsOf(m, y) = DebsOf(l, y)
      BY <1>14, <2>3 DEF DebsOf
    <3>6. IsFiniteSet(DebsOf(l, y)) /\ \A k \in DebsOf(l, y) : m.debs[k] = l.debs[k]
      <4>1. IsFiniteSet(DebsOf(l, y))
        BY <1>0, KeysFinite
      <4>2. ASSUME NEW k \in DebsOf(l, y) PROVE m.debs[k] = l.debs[k]
        <5>1. k \in DOMAIN l.debs /\ k # key /\ k \in DOMAIN m.debs
          BY <1>14, <2>3 DEF DebsOf
        <5> QED
          BY <1>14, <5>1
      <4> QED
        BY <4>1, <4>2
    <3>7. SumFunctionOnSet(m.debs, DebsOf(m, y)) = SumFunctionOnSet(l.debs, DebsOf(l, y))
      BY <3>5, <3>6, SumSame
    <3>8. DebondingBacked(m, y)
      BY <2>1, <3>2, <3>7 DEF DebondingBacked
    <3> QED
      BY <3>4, <3>8
  <2> QED
    BY <2>2, <2>3
<1>17. Worth(m) = Worth(l)
  <2>1. \A y \in Addr : Holdings(m)[y] = Holdings(l)[y] + (IF y = z THEN 0 ELSE 0)
    <3> SUFFICES ASSUME NEW y \in Addr
                 PROVE  Holdings(m)[y] = Holdings(l)[y]
      BY <1>0, HoldingsNat
    <3>1. Holdings(m)[y] = m.general[y] + m.active[y].balance + m.debonding[y].balance /\ Holdings(l)[y] = l.general[y] + l.active[y].balance + l.debonding[y].balance
      BY DEF Holdings
    <3>2. l.general[y] \in Nat /\ l.active[y].balance \in Nat /\ l.debonding[y].balance \in Nat /\ m.general[y] = l.general[y]
      BY <1>0, <1>11, TypedFields DEF SharePool
    <3>3. m.active[y].balance + m.debonding[y].balance = l.active[y].balance + l.debonding[y].balance
      <4>1. CASE y = z
        BY <1>1, <1>5, <1>8, <1>9, <1>10, <1>12, <4>1
      <4>2. CASE y # z
        BY <1>12, <4>2
      <4> QED
        BY <4>1, <4>2
    <3>4. m.active[y].balance \in Nat /\ m.debonding[y].balance \in Nat
      BY <1>15, TypedFields DEF SharePool
    <3> QED
      BY <3>1, <3>2, <3>3, <3>4
  <2>2. Worth(m) = Worth(l) - l.commonPool - l.deposits + m.commonPool + m.deposits + 0
    BY <1>0, <1>15, <2>1, WorthOne
  <2>3. l.commonPool \in Nat /\ l.deposits \in Nat /\ Worth(l) \in Nat
    BY <1>0, TypedFields, HoldingsNat
  <2> QED
    BY <1>11, <2>2, <2>3
<1>18. \A y \in Addr : NotDiluted(l.active[y], m.active[y]) /\ NotDiluted(l.debonding[y], m.debonding[y])
  <2>1. \A y \in Addr : NotDiluted(l.active[y], l.active[y]) /\ NotDiluted(l.debonding[y], l.debonding[y])
    BY <1>4, ValueReflexive
  <2> QED
    BY <1>1, <1>8, <1>10, <1>12, <2>1
<1>19. \A k \in DOMAIN l.debs : m.debs[k] >= l.debs[k]
  <2> SUFFICES ASSUME NEW k \in DOMAIN l.debs PROVE m.debs[k] >= l.debs[k]
    OBVIOUS
  <2>1. m.debs[k] = l.debs[k] + (IF k = key THEN e ELSE 0) /\ l.debs[k] \in Nat
    BY <1>14
  <2> QED
    BY <1>10, <2>1
<1> QED
  BY <1>11, <1>14, <1>15, <1>16, <1>17, <1>18, <1>19 DEF Sound

\* Small changes of the ledger: an allowance, a burn, and governance deposits.
SetAllowance(l, x, y, c) == [l EXCEPT !.allowance[x][y] = c]
Burnt(l, x, a) == [l EXCEPT !.general[x] = @ - a, !.total = @ - a]
Deposited(l, x, a) == [l EXCEPT !.general[x] = @ - a, !.deposits = @ + a]
Returned(l, x, a) == [l EXCEPT !.deposits = @ - a, !.general[x] = @ + a]
Discarded(l, a) == [l EXCEPT !.deposits = @ - a, !.commonPool = @ + a]

\* The pools, the delegations and the debonding delegations stay as they are.
PoolsSame(l, m) ==
    m.active = l.active /\ m.debonding = l.debonding /\ m.delegation = l.delegation /\ m.debs = l.debs

LEMMA GeneralOfWorth ==
    ASSUME StakingAssumption, NEW l, Typed(l), NEW x \in Addr
    PROVE  l.general[x] <= Worth(l)
<1>1. IsFiniteSet(Addr) /\ \A y \in Addr : Holdings(l)[y] \in Nat
  BY HoldingsNat DEF StakingAssumption
<1>2. Holdings(l)[x] <= SumFunctionOnSet(Holdings(l), Addr) /\ SumFunctionOnSet(Holdings(l), Addr) \in Nat
  BY <1>1, SumNat
<1>3. /\ Holdings(l)[x] = l.general[x] + l.active[x].balance + l.debonding[x].balance
      /\ l.general[x] \in Nat /\ l.active[x].balance \in Nat /\ l.debonding[x].balance \in Nat
  BY TypedFields DEF Holdings, SharePool
<1>4. l.commonPool \in Nat /\ l.deposits \in Nat
  BY TypedFields
<1> QED
  BY <1>2, <1>3, <1>4 DEF Worth

LEMMA AllowanceEffect ==
    ASSUME StakingAssumption, NEW l, Sound(l), NEW x \in Addr, NEW y \in Addr, NEW c \in Nat,
           NEW m, m = SetAllowance(l, x, y, c)
    PROVE  /\ Sound(m) /\ Worth(m) = Worth(l) /\ PoolsSame(l, m) /\ m.total = l.total /\ m.general = l.general
<1>0. Typed(l)
  BY DEF Sound
<1>1. /\ Shape(l) /\ l.general \in [Addr -> Nat] /\ l.allowance \in [Addr -> [Addr -> Nat]]
      /\ l.commonPool \in Nat /\ l.lastFees \in Nat /\ l.deposits \in Nat /\ l.total \in Nat
  BY <1>0, TypedFields
<1>2. /\ Shape(m) /\ m.allowance = [l.allowance EXCEPT ![x][y] = c] /\ m.general = l.general
      /\ PoolsSame(l, m) /\ m.commonPool = l.commonPool
      /\ m.total = l.total /\ m.lastFees = l.lastFees /\ m.deposits = l.deposits
  BY <1>1 DEF SetAllowance, Shape, PoolsSame
<1>3. m.allowance \in [Addr -> [Addr -> Nat]]
  BY <1>1, <1>2
<1>4. GeneralMoved(l, m, x, x, 0, 0)
  BY <1>1, <1>2 DEF GeneralMoved
<1>5. Sound(m) /\ Worth(m) = Worth(l) - l.commonPool - l.deposits + m.commonPool + m.deposits + 0 + 0
  <2>1. /\ Shape(m) /\ m.general \in [Addr -> Nat] /\ PoolsSame(l, m) /\ m.commonPool \in Nat
        /\ m.lastFees \in Nat /\ m.deposits \in Nat /\ m.total \in Nat
    BY <1>1, <1>2
  <2> QED
    BY <1>3, <1>4, <2>1, GeneralEffect DEF PoolsSame
<1>6. Worth(l) \in Nat
  BY <1>0, HoldingsNat
<1>7. Worth(m) = Worth(l)
  BY <1>1, <1>2, <1>5, <1>6
<1> QED
  BY <1>2, <1>5, <1>7

LEMMA BurnEffect ==
    ASSUME StakingAssumption, NEW l, Sound(l), NEW x \in Addr, NEW a \in Nat, a <= l.general[x],
           a <= l.total, NEW m, m = Burnt(l, x, a)
    PROVE  Sound(m) /\ Worth(m) = Worth(l) - a /\ PoolsSame(l, m) /\ m.total = l.total - a
<1>0. Typed(l)
  BY DEF Sound
<1>1. /\ Shape(l) /\ l.general \in [Addr -> Nat] /\ l.allowance \in [Addr -> [Addr -> Nat]]
      /\ l.commonPool \in Nat /\ l.lastFees \in Nat /\ l.deposits \in Nat /\ l.total \in Nat
  BY <1>0, TypedFields
<1>2. /\ Shape(m) /\ m.allowance = l.allowance /\ m.general = [l.general EXCEPT ![x] = @ - a]
      /\ PoolsSame(l, m) /\ m.commonPool = l.commonPool
      /\ m.total = l.total - a /\ m.lastFees = l.lastFees /\ m.deposits = l.deposits
  BY <1>1 DEF Burnt, Shape, PoolsSame
<1>3. PICK u \in Int : u = -a
  OBVIOUS
<1>4. m.general \in [Addr -> Nat] /\ m.total \in Nat /\ GeneralMoved(l, m, x, x, u, 0)
  BY <1>1, <1>2, <1>3 DEF GeneralMoved
<1>5. Sound(m) /\ Worth(m) = Worth(l) - l.commonPool - l.deposits + m.commonPool + m.deposits + u + 0
  BY <1>1, <1>2, <1>4, GeneralEffect DEF PoolsSame
<1>6. Worth(l) \in Nat
  BY <1>0, HoldingsNat
<1>7. Worth(m) = Worth(l) - a
  BY <1>1, <1>2, <1>3, <1>5, <1>6
<1> QED
  BY <1>2, <1>5, <1>7

LEMMA DepositEffect ==
    ASSUME StakingAssumption, NEW l, Sound(l), NEW x \in Addr, NEW a \in Nat, a <= l.general[x],
           NEW m, m = Deposited(l, x, a)
    PROVE  Sound(m) /\ Worth(m) = Worth(l) /\ PoolsSame(l, m) /\ m.total = l.total
<1>0. Typed(l)
  BY DEF Sound
<1>1. /\ Shape(l) /\ l.general \in [Addr -> Nat] /\ l.allowance \in [Addr -> [Addr -> Nat]]
      /\ l.commonPool \in Nat /\ l.lastFees \in Nat /\ l.deposits \in Nat /\ l.total \in Nat
  BY <1>0, TypedFields
<1>2. /\ Shape(m) /\ m.allowance = l.allowance /\ m.general = [l.general EXCEPT ![x] = @ - a]
      /\ PoolsSame(l, m) /\ m.commonPool = l.commonPool
      /\ m.total = l.total /\ m.lastFees = l.lastFees /\ m.deposits = l.deposits + a
  BY <1>1 DEF Deposited, Shape, PoolsSame
<1>3. PICK u \in Int : u = -a
  OBVIOUS
<1>4. m.general \in [Addr -> Nat] /\ m.deposits \in Nat /\ GeneralMoved(l, m, x, x, u, 0)
  BY <1>1, <1>2, <1>3 DEF GeneralMoved
<1>5. Sound(m) /\ Worth(m) = Worth(l) - l.commonPool - l.deposits + m.commonPool + m.deposits + u + 0
  BY <1>1, <1>2, <1>4, GeneralEffect DEF PoolsSame
<1>6. Worth(l) \in Nat
  BY <1>0, HoldingsNat
<1>7. Worth(m) = Worth(l)
  BY <1>1, <1>2, <1>3, <1>5, <1>6
<1> QED
  BY <1>2, <1>5, <1>7

LEMMA ReturnEffect ==
    ASSUME StakingAssumption, NEW l, Sound(l), NEW x \in Addr, NEW a \in Nat, a <= l.deposits,
           NEW m, m = Returned(l, x, a)
    PROVE  /\ Sound(m) /\ Worth(m) = Worth(l) /\ PoolsSame(l, m) /\ m.total = l.total
           /\ m.lastFees = l.lastFees /\ m.commonPool = l.commonPool
<1>0. Typed(l)
  BY DEF Sound
<1>1. /\ Shape(l) /\ l.general \in [Addr -> Nat] /\ l.allowance \in [Addr -> [Addr -> Nat]]
      /\ l.commonPool \in Nat /\ l.lastFees \in Nat /\ l.deposits \in Nat /\ l.total \in Nat
  BY <1>0, TypedFields
<1>2. /\ Shape(m) /\ m.allowance = l.allowance /\ m.general = [l.general EXCEPT ![x] = @ + a]
      /\ PoolsSame(l, m) /\ m.commonPool = l.commonPool
      /\ m.total = l.total /\ m.lastFees = l.lastFees /\ m.deposits = l.deposits - a
  BY <1>1 DEF Returned, Shape, PoolsSame
<1>4. m.general \in [Addr -> Nat] /\ m.deposits \in Nat /\ GeneralMoved(l, m, x, x, a, 0)
  BY <1>1, <1>2 DEF GeneralMoved
<1>5. Sound(m) /\ Worth(m) = Worth(l) - l.commonPool - l.deposits + m.commonPool + m.deposits + a + 0
  BY <1>1, <1>2, <1>4, GeneralEffect DEF PoolsSame
<1>6. Worth(l) \in Nat
  BY <1>0, HoldingsNat
<1>7. Worth(m) = Worth(l)
  BY <1>1, <1>2, <1>5, <1>6
<1> QED
  BY <1>2, <1>5, <1>7

LEMMA DiscardEffect ==
    ASSUME StakingAssumption, NEW l, Sound(l), NEW a \in Nat, a <= l.deposits, NEW m, m = Discarded(l, a)
    PROVE  /\ Sound(m) /\ Worth(m) = Worth(l) /\ PoolsSame(l, m) /\ m.total = l.total
           /\ m.lastFees = l.lastFees /\ m.commonPool = l.commonPool + a
<1>0. Typed(l)
  BY DEF Sound
<1>1. /\ Shape(l) /\ l.general \in [Addr -> Nat] /\ l.allowance \in [Addr -> [Addr -> Nat]]
      /\ l.commonPool \in Nat /\ l.lastFees \in Nat /\ l.deposits \in Nat /\ l.total \in Nat
  BY <1>0, TypedFields
<1>2. /\ Shape(m) /\ m.allowance = l.allowance /\ m.general = l.general
      /\ PoolsSame(l, m) /\ m.commonPool = l.commonPool + a
      /\ m.total = l.total /\ m.lastFees = l.lastFees /\ m.deposits = l.deposits - a
  BY <1>1 DEF Discarded, Shape, PoolsSame
<1>3. RuntimeAddr \in Addr
  BY DEF StakingAssumption
<1>4. m.deposits \in Nat /\ m.commonPool \in Nat /\ GeneralMoved(l, m, RuntimeAddr, RuntimeAddr, 0, 0)
  BY <1>1, <1>2 DEF GeneralMoved
<1>5. Sound(m) /\ Worth(m) = Worth(l) - l.commonPool - l.deposits + m.commonPool + m.deposits + 0 + 0
  BY <1>1, <1>2, <1>3, <1>4, GeneralEffect DEF PoolsSame
<1>6. Worth(l) \in Nat
  BY <1>0, HoldingsNat
<1>7. Worth(m) = Worth(l)
  BY <1>1, <1>2, <1>5, <1>6
<1> QED
  BY <1>2, <1>5, <1>7

-----------------------------------------------------------------------------
(***************************************************************************)
(* The invariant of the staking application.  The fees of a block are in the *)
(* block context between BeginBlock and EndBlock only, and no debonding      *)
(* delegation outlives its end.                                              *)
(***************************************************************************)
ContextTyped ==
    /\ weights \in Weights /\ split \in Weights /\ epoch \in 0 .. MaxEpoch /\ failed \in BOOLEAN
    /\ phase \in {"begin", "deliver", "end"}
    /\ block \in [proposer : Addr \cup {Nobody}, fees : Nat, txs : 0 .. MaxTxs, height : 0 .. MaxBlocks]
    /\ signing \in [total : Nat, by : [Addr -> Nat]]

Accounted(l, fees, held) == l.total = Worth(l) + fees + held

NotExpired(l, now) == \A k \in DOMAIN l.debs : k[3] > now

\* Fees are kept by weights that give them to somebody.
FeesSplit == (phase # "deliver" \/ failed) /\ ledger.lastFees # 0 => split.vote + split.next > 0

StakingInv ==
    /\ ContextTyped /\ Sound(ledger)
    /\ phase # "deliver" => block.fees = 0
    /\ Accounted(ledger, block.fees, FeesHeld)
    /\ NotExpired(ledger, epoch)
    /\ FeesSplit

\* What a transaction that pays fee makes of the ledger.
TxDone(l, m, fee) ==
    /\ Sound(m) /\ Worth(m) + fee + l.total = Worth(l) + m.total
    /\ \A k \in DOMAIN l.debs : k \in DOMAIN m.debs /\ m.debs[k] >= l.debs[k]
    /\ \A k \in DOMAIN m.debs : k \in DOMAIN l.debs \/ k[3] > epoch

ValueKept(l, m) ==
    \A y \in Addr : /\ NotDiluted(l.active[y], m.active[y])
                    /\ NotDiluted(l.debonding[y], m.debonding[y])

LEMMA ValueSame ==
    ASSUME NEW l, Typed(l), NEW m, m.active = l.active, m.debonding = l.debonding
    PROVE  ValueKept(l, m)
<1>1. \A y \in Addr : l.active[y] \in SharePool /\ l.debonding[y] \in SharePool
  BY TypedFields
<1> QED
  BY <1>1, ValueReflexive DEF ValueKept

\* A change that leaves the debonding delegations alone.
LEMMA TxSame ==
    ASSUME StakingAssumption, NEW l, Sound(l), NEW u, Sound(u), u.total = l.total, NEW fee \in Nat,
           Worth(u) = Worth(l) - fee, u.debs = l.debs,
           NEW m, Sound(m), Worth(m) + u.total = Worth(u) + m.total, m.debs = u.debs
    PROVE  TxDone(l, m, fee)
<1>1. Typed(l) /\ Typed(m)
  BY DEF Sound
<1>2. /\ Worth(l) \in Nat /\ Worth(m) \in Nat /\ l.total \in Nat /\ m.total \in Nat
      /\ \A k \in DOMAIN l.debs : l.debs[k] \in Nat
  BY <1>1, HoldingsNat, TypedFields
<1>3. Worth(m) + fee + l.total = Worth(l) + m.total
  BY <1>2
<1> QED
  BY <1>2, <1>3 DEF TxDone

LEMMA FailedTxEffect ==
    ASSUME StakingAssumption, StakingInv, NEW x \in Addr, NEW fee \in Nat, FailedTx(x, fee),
           NEW m, m = ledger'
    PROVE  TxDone(ledger, m, fee) /\ ValueKept(ledger, m)
<1>0. Sound(ledger) /\ Typed(ledger)
  BY DEF StakingInv, Sound
<1>1. m = PayFees(x, fee) /\ CanPay(x, fee)
  BY DEF FailedTx, Transaction
<1>2. /\ Sound(m) /\ Worth(m) = Worth(ledger) - fee /\ m.debs = ledger.debs /\ m.total = ledger.total
      /\ m.active = ledger.active /\ m.debonding = ledger.debonding
  BY <1>0, <1>1, PayFeesEffect
<1> QED
  BY <1>0, <1>2, TxSame, ValueSame

LEMMA TransferTxEffect ==
    ASSUME StakingAssumption, StakingInv, NEW x \in Addr, NEW fee \in Nat, NEW y \in Addr, NEW a \in Nat,
           TransferTx(x, fee, y, a), NEW m, m = ledger'
    PROVE  TxDone(ledger, m, fee) /\ ValueKept(ledger, m)
<1>0. Sound(ledger) /\ Typed(ledger)
  BY DEF StakingInv, Sound
<1>1. PICK l : l = PayFees(x, fee)
  OBVIOUS
<1>2. m = Transfer(l, x, y, a) /\ CanPay(x, fee) /\ a <= l.general[x]
  <2>1. m = Transfer(l, x, y, a) /\ CanPay(x, fee) /\ CanTransfer(l, x, y, a)
    BY <1>1 DEF TransferTx, Transaction
  <2> QED
    BY <2>1 DEF CanTransfer
<1>3. /\ Sound(l) /\ Worth(l) = Worth(ledger) - fee /\ l.debs = ledger.debs /\ l.total = ledger.total
      /\ l.active = ledger.active /\ l.debonding = ledger.debonding
  BY <1>0, <1>1, <1>2, PayFeesEffect
<1>4. /\ Sound(m) /\ Worth(m) = Worth(l) /\ m.active = l.active /\ m.debonding = l.debonding
      /\ m.debs = l.debs /\ m.total = l.total
  BY <1>2, <1>3, TransferEffect
<1> QED
  BY <1>0, <1>3, <1>4, TxSame, ValueSame

LEMMA BurnTxEffect ==
    ASSUME StakingAssumption, StakingInv, NEW x \in Addr, NEW fee \in Nat, NEW a \in Nat,
           Burn(x, fee, a), NEW m, m = ledger'
    PROVE  TxDone(ledger, m, fee) /\ ValueKept(ledger, m)
<1>0. Sound(ledger) /\ Typed(ledger) /\ MinTransactBalance \in Nat
  BY DEF StakingInv, Sound, StakingAssumption
<1>1. PICK l : l = PayFees(x, fee)
  OBVIOUS
<1>2. m = Burnt(l, x, a) /\ CanPay(x, fee) /\ l.general[x] - a >= MinTransactBalance
  BY <1>1 DEF Burn, Transaction, Burnt
<1>3. /\ Sound(l) /\ Worth(l) = Worth(ledger) - fee /\ l.debs = ledger.debs /\ l.total = ledger.total
      /\ l.active = ledger.active /\ l.debonding = ledger.debonding
  BY <1>0, <1>1, <1>2, PayFeesEffect
<1>4. a <= l.general[x] /\ a <= l.total
  <2>1. Typed(l) /\ l.general[x] \in Nat
    BY <1>3, TypedFields DEF Sound
  <2>2. Worth(l) \in Nat /\ Worth(ledger) \in Nat /\ l.general[x] <= Worth(l)
    BY <1>0, <2>1, HoldingsNat, GeneralOfWorth
  <2>3. ledger.total = Worth(ledger) + block.fees + FeesHeld /\ block.fees \in Nat
    BY DEF StakingInv, Accounted, ContextTyped
  <2>4. FeesHeld \in Nat
    BY <1>0, TypedFields DEF FeesHeld
  <2>5. a <= l.general[x]
    BY <1>0, <1>2, <2>1
  <2> QED
    BY <1>3, <2>1, <2>2, <2>3, <2>4, <2>5
<1>5. Sound(m) /\ Worth(m) = Worth(l) - a /\ PoolsSame(l, m) /\ m.total = l.total - a
  BY <1>2, <1>3, <1>4, BurnEffect
<1>6. Worth(m) + l.total = Worth(l) + m.total
  <2>1. Worth(l) \in Nat /\ l.total \in Nat
    BY <1>3, HoldingsNat, TypedFields DEF Sound
  <2> QED
    BY <1>5, <2>1
<1> QED
  BY <1>0, <1>3, <1>5, <1>6, TxSame, ValueSame DEF PoolsSame

LEMMA AddEscrowEffect ==
    ASSUME StakingAssumption, StakingInv, NEW x \in Addr, NEW fee \in Nat, NEW y \in Addr, NEW a \in Nat,
           AddEscrow(x, fee, y, a), NEW m, m = ledger'
    PROVE  TxDone(ledger, m, fee) /\ ValueKept(ledger, m)
<1>0. Sound(ledger) /\ Typed(ledger) /\ MinTransactBalance \in Nat
  BY DEF StakingInv, Sound, StakingAssumption
<1>1. PICK l : l = PayFees(x, fee)
  OBVIOUS
<1>2. /\ m = Escrowed(l, x, y, a) /\ CanPay(x, fee) /\ l.general[x] - a >= MinTransactBalance
      /\ CanDeposit(l.active[y])
  BY <1>1 DEF AddEscrow, Transaction, Escrowed
<1>3. /\ Sound(l) /\ Worth(l) = Worth(ledger) - fee /\ l.debs = ledger.debs /\ l.total = ledger.total
      /\ l.active = ledger.active /\ l.debonding = ledger.debonding
  BY <1>0, <1>1, <1>2, PayFeesEffect
<1>4. a <= l.general[x]
  <2>1. l.general[x] \in Nat
    BY <1>3, TypedFields DEF Sound
  <2> QED
    BY <1>0, <1>2, <2>1
<1>5. /\ Sound(m) /\ Worth(m) = Worth(l) /\ m.debonding = l.debonding
      /\ m.debs = l.debs /\ m.total = l.total
      /\ \A t \in Addr : NotDiluted(l.active[t], m.active[t])
  BY <1>2, <1>3, <1>4, EscrowEffect
<1>6. ValueKept(ledger, m)
  <2>1. \A t \in Addr : ledger.debonding[t] \in SharePool
    BY <1>0, TypedFields
  <2> QED
    BY <1>3, <1>5, <2>1, ValueReflexive DEF ValueKept
<1> QED
  BY <1>0, <1>3, <1>5, <1>6, TxSame

LEMMA ReclaimEscrowEffect ==
    ASSUME StakingAssumption, StakingInv, NEW x \in Addr, NEW fee \in Nat, NEW y \in Addr, NEW a \in Nat,
           ReclaimEscrow(x, fee, y, a), NEW m, m = ledger'
    PROVE  TxDone(ledger, m, fee) /\ ValueKept(ledger, m)
<1>0. Sound(ledger) /\ Typed(ledger) /\ epoch \in 0 .. MaxEpoch /\ MaxEpoch \in Nat /\ DebondingInterval \in Nat \ {0}
  BY DEF StakingInv, Sound, StakingAssumption, ContextTyped
<1>1. PICK l, e, key : l = PayFees(x, fee) /\ e = epoch + DebondingInterval /\ key = <<x, y, e>>
  OBVIOUS
<1>2. /\ m = Reclaimed(l, x, y, a, key) /\ CanPay(x, fee) /\ a <= l.delegation[x][y]
      /\ CanDeposit(l.debonding[y])
  BY <1>1 DEF ReclaimEscrow, Transaction, Reclaimed, Unbonded
<1>3. /\ Sound(l) /\ Worth(l) = Worth(ledger) - fee /\ l.debs = ledger.debs /\ l.total = ledger.total
      /\ l.active = ledger.active /\ l.debonding = ledger.debonding
  BY <1>0, <1>1, <1>2, PayFeesEffect
<1>4. e \in 1 .. MaxEpoch + DebondingInterval /\ e > epoch
  BY <1>0, <1>1
<1>5. key \in DebondingKey /\ key[2] = y /\ key[3] > epoch
  BY <1>1, <1>4 DEF DebondingKey
<1>6. /\ Sound(m) /\ Worth(m) = Worth(l) /\ m.total = l.total
      /\ DOMAIN m.debs = DOMAIN l.debs \cup {key} /\ \A k \in DOMAIN l.debs : m.debs[k] >= l.debs[k]
      /\ ValueKept(l, m)
  BY <1>2, <1>3, <1>5, ReclaimEffect DEF ValueKept
<1>7. Worth(m) + fee + ledger.total = Worth(ledger) + m.total
  <2>1. Worth(ledger) \in Nat /\ ledger.total \in Nat
    BY <1>0, HoldingsNat, TypedFields
  <2> QED
    BY <1>3, <1>6, <2>1
<1>8. \A k \in DOMAIN m.debs : k \in DOMAIN ledger.debs \/ k[3] > epoch
  BY <1>3, <1>5, <1>6
<1>9. \A k \in DOMAIN ledger.debs : k \in DOMAIN m.debs /\ m.debs[k] >= ledger.debs[k]
  BY <1>3, <1>6
<1> QED
  BY <1>3, <1>6, <1>7, <1>8, <1>9 DEF TxDone, ValueKept

LEMMA AllowTxEffect ==
    ASSUME StakingAssumption, StakingInv, NEW x \in Addr, NEW fee \in Nat, NEW y \in Addr, NEW a \in Nat,
           NEW n \in BOOLEAN, Allow(x, fee, y, a, n), NEW m, m = ledger'
    PROVE  TxDone(ledger, m, fee) /\ ValueKept(ledger, m)
<1>0. Sound(ledger) /\ Typed(ledger)
  BY DEF StakingInv, Sound
<1>1. PICK l : l = PayFees(x, fee)
  OBVIOUS
<1>2. PICK old : old = l.allowance[x][y]
  OBVIOUS
<1>3. PICK c : c = IF n THEN (IF a > old THEN 0 ELSE old - a) ELSE old + a
  OBVIOUS
<1>4. m = SetAllowance(l, x, y, c) /\ CanPay(x, fee)
  BY <1>1, <1>2, <1>3 DEF Allow, Transaction, SetAllowance
<1>5. /\ Sound(l) /\ Worth(l) = Worth(ledger) - fee /\ l.debs = ledger.debs /\ l.total = ledger.total
      /\ l.active = ledger.active /\ l.debonding = ledger.debonding
  BY <1>0, <1>1, <1>4, PayFeesEffect
<1>6. c \in Nat
  <2>1. old \in Nat
    BY <1>2, <1>5, TypedFields DEF Sound
  <2> QED
    BY <1>3, <2>1
<1>7. Sound(m) /\ Worth(m) = Worth(l) /\ PoolsSame(l, m) /\ m.total = l.total
  BY <1>4, <1>5, <1>6, AllowanceEffect
<1> QED
  BY <1>0, <1>5, <1>7, TxSame, ValueSame DEF PoolsSame

LEMMA WithdrawTxEffect ==
    ASSUME StakingAssumption, StakingInv, NEW x \in Addr, NEW fee \in Nat, NEW y \in Addr, NEW a \in Nat,
           WithdrawTx(x, fee, y, a), NEW m, m = ledger'
    PROVE  TxDone(ledger, m, fee) /\ ValueKept(ledger, m)
<1>0. Sound(ledger) /\ Typed(ledger)
  BY DEF StakingInv, Sound
<1>1. PICK l, c : l = PayFees(x, fee) /\ c = l.allowance[y][x] - a
  OBVIOUS
<1>2. PICK u : u = SetAllowance(l, y, x, c)
  OBVIOUS
<1>3. m = Transfer(u, y, x, a) /\ CanPay(x, fee) /\ a <= l.general[y] /\ l.allowance[y][x] >= a
  <2>1. /\ m = Transfer([l EXCEPT !.allowance[y][x] = @ - a], y, x, a) /\ CanPay(x, fee)
        /\ CanTransfer(l, y, x, a) /\ l.allowance[y][x] >= a
    BY <1>1 DEF WithdrawTx, Transaction
  <2>2. [l EXCEPT !.allowance[y][x] = @ - a] = u
    BY <1>1, <1>2 DEF SetAllowance
  <2>3. m = Transfer(u, y, x, a)
    BY <2>1, <2>2
  <2> QED
    BY <2>1, <2>3 DEF CanTransfer
<1>4. /\ Sound(l) /\ Worth(l) = Worth(ledger) - fee /\ l.debs = ledger.debs /\ l.total = ledger.total
      /\ l.active = ledger.active /\ l.debonding = ledger.debonding
  BY <1>0, <1>1, <1>3, PayFeesEffect
<1>5. c \in Nat
  <2>1. l.allowance[y][x] \in Nat
    BY <1>4, TypedFields DEF Sound
  <2> QED
    BY <1>1, <1>3, <2>1
<1>6. Sound(u) /\ Worth(u) = Worth(l) /\ PoolsSame(l, u) /\ u.total = l.total /\ u.general = l.general
  BY <1>2, <1>4, <1>5, AllowanceEffect
<1>7. /\ Sound(m) /\ Worth(m) = Worth(u) /\ m.active = u.active /\ m.debonding = u.debonding
      /\ m.debs = u.debs /\ m.total = u.total
  BY <1>3, <1>6, TransferEffect
<1> QED
  BY <1>0, <1>4, <1>6, <1>7, TxSame, ValueSame DEF PoolsSame

LEMMA DepositTxEffect ==
    ASSUME StakingAssumption, StakingInv, NEW x \in Addr, NEW fee \in Nat, NEW a \in Nat,
           TransferToGovernanceDeposits(x, fee, a), NEW m, m = ledger'
    PROVE  TxDone(ledger, m, fee) /\ ValueKept(ledger, m)
<1>0. Sound(ledger) /\ Typed(ledger)
  BY DEF StakingInv, Sound
<1>1. PICK l : l = PayFees(x, fee)
  OBVIOUS
<1>2. m = Deposited(l, x, a) /\ CanPay(x, fee) /\ l.general[x] >= a
  BY <1>1 DEF TransferToGovernanceDeposits, Transaction, Deposited
<1>3. /\ Sound(l) /\ Worth(l) = Worth(ledger) - fee /\ l.debs = ledger.debs /\ l.total = ledger.total
      /\ l.active = ledger.active /\ l.debonding = ledger.debonding
  BY <1>0, <1>1, <1>2, PayFeesEffect
<1>4. Sound(m) /\ Worth(m) = Worth(l) /\ PoolsSame(l, m) /\ m.total = l.total
  BY <1>2, <1>3, DepositEffect
<1> QED
  BY <1>0, <1>3, <1>4, TxSame, ValueSame DEF PoolsSame

LEMMA EquivocationEffect ==
    ASSUME StakingAssumption, StakingInv, NEW x \in Addr, NEW fee \in Nat, NEW y \in Addr, NEW q \in Nat,
           NEW z \in Addr, OnRuntimeEquivocation(x, fee, y, q, z), NEW m, m = ledger'
    PROVE  TxDone(ledger, m, fee)
<1>0. Sound(ledger) /\ Typed(ledger)
  BY DEF StakingInv, Sound
<1>1. PICK l : l = PayFees(x, fee)
  OBVIOUS
<1>2. PICK slashed, l1 : /\ slashed = SlashedOf(l, y, q).active + SlashedOf(l, y, q).debonding
                         /\ l1 = SlashEscrow(l, y, q)
  OBVIOUS
<1>3. /\ slashed # 0 => ~DistributionFails(l1, slashed, {z})
      /\ m = IF slashed = 0 THEN l1 ELSE DistributeSlashedFunds(l1, slashed, {z})
      /\ CanPay(x, fee)
  BY <1>1, <1>2 DEF OnRuntimeEquivocation, Transaction
<1>4. /\ Sound(l) /\ Worth(l) = Worth(ledger) - fee /\ l.debs = ledger.debs /\ l.total = ledger.total
  BY <1>0, <1>1, <1>3, PayFeesEffect
<1>5. SlashedIn(l, l1, y, q)
  BY <1>2, <1>4, SlashEffect
<1>6. Sound(l1) /\ Worth(l1) = Worth(l) /\ l1.debs = l.debs /\ l1.total = l.total /\ l1.commonPool = l.commonPool + Slashed(l, q)[y]
  BY <1>5 DEF SlashedIn
<1>7. slashed \in Nat /\ slashed <= l1.commonPool
  <2>1. Typed(l) /\ l.commonPool \in Nat
    BY <1>4, TypedFields DEF Sound
  <2>2. Slashed(l, q)[y] = slashed /\ Slashed(l, q)[y] \in Nat
    BY <1>2, <2>1, SlashedTyped
  <2> QED
    BY <1>6, <2>1, <2>2
<1>8. Sound(m) /\ Worth(m) = Worth(l1) /\ m.debs = l1.debs /\ m.total = l1.total
  <2>1. CASE slashed = 0
    BY <1>3, <1>6, <2>1
  <2>2. CASE slashed # 0
    <3>1. {z} \in SUBSET Addr
      OBVIOUS
    <3>2. PICK R \in SUBSET Addr : R = {z}
      BY <3>1
    <3>3. m = DistributeSlashedFunds(l1, slashed, R) /\ ~DistributionFails(l1, slashed, R)
      BY <1>3, <2>2, <3>2
    <3> QED
      BY <1>6, <1>7, <3>3, DistributeEffect
  <2> QED
    BY <2>1, <2>2
<1> QED
  BY <1>0, <1>4, <1>6, <1>8, TxSame

\* A transaction preserves the invariant.
LEMMA TxPreserves ==
    ASSUME StakingAssumption, StakingInv, NEW x, NEW fee \in Nat, NEW m, Transaction(x, fee, m),
           TxDone(ledger, m, fee)
    PROVE  StakingInv'
<1>0. /\ ContextTyped /\ Sound(ledger) /\ Accounted(ledger, block.fees, FeesHeld) /\ NotExpired(ledger, epoch)
  BY DEF StakingInv
<1>1. /\ phase = "deliver" /\ ~failed /\ block.txs < MaxTxs
      /\ ledger' = m /\ block' = [block EXCEPT !.fees = @ + fee, !.txs = @ + 1]
      /\ UNCHANGED <<weights, epoch, phase, signing, failed, split>>
  BY DEF Transaction
<1>2. /\ block.fees \in Nat /\ block.txs \in 0 .. MaxTxs /\ MaxTxs \in Nat
      /\ block \in [proposer : Addr \cup {Nobody}, fees : Nat, txs : 0 .. MaxTxs, height : 0 .. MaxBlocks]
  BY <1>0 DEF ContextTyped, StakingAssumption
<1>3. /\ block' \in [proposer : Addr \cup {Nobody}, fees : Nat, txs : 0 .. MaxTxs, height : 0 .. MaxBlocks]
      /\ block'.fees = block.fees + fee
  <2>1. PICK u, v : u = block.fees + fee /\ v = block.txs + 1
    OBVIOUS
  <2>2. u \in Nat /\ v \in 0 .. MaxTxs
    BY <1>1, <1>2, <2>1
  <2>3. block' = [block EXCEPT !.fees = u, !.txs = v]
    BY <1>1, <2>1
  <2> QED
    BY <1>2, <2>1, <2>2, <2>3
<1>4. ContextTyped'
  BY <1>0, <1>1, <1>3 DEF ContextTyped
<1>5. Sound(ledger')
  BY <1>1 DEF TxDone
<1>6. FeesHeld = 0 /\ FeesHeld' = 0
  BY <1>1 DEF FeesHeld
<1>7. Accounted(ledger', block'.fees, FeesHeld')
  <2>1. Worth(m) + fee + ledger.total = Worth(ledger) + m.total
    BY DEF TxDone
  <2>2. Worth(m) \in Nat /\ Worth(ledger) \in Nat /\ ledger.total \in Nat /\ m.total \in Nat
    BY <1>0, <1>1, <1>5, HoldingsNat, TypedFields DEF Sound
  <2>3. ledger.total = Worth(ledger) + block.fees + 0
    BY <1>0, <1>6 DEF Accounted
  <2>4. m.total = Worth(m) + (block.fees + fee) + 0
    BY <1>2, <2>1, <2>2, <2>3
  <2> QED
    BY <1>1, <1>3, <1>6, <2>4 DEF Accounted
<1>8. NotExpired(ledger', epoch')
  BY <1>0, <1>1 DEF NotExpired, TxDone
<1>9. FeesSplit'
  BY <1>1 DEF FeesSplit
<1> QED
  BY <1>1, <1>4, <1>5, <1>7, <1>8, <1>9 DEF StakingInv

\* Every transaction of UserTx keeps the invariant, the value of all shares and
\* the debonding delegations.
LEMMA UserTxStep ==
    ASSUME StakingAssumption, StakingInv, UserTx
    PROVE  /\ StakingInv' /\ ValueKept(ledger, ledger') /\ epoch' = epoch /\ phase = "deliver" /\ ~failed /\ failed' = failed
           /\ \E fee \in Nat : TxDone(ledger, ledger', fee)
<1>0. Fees \subseteq Nat /\ Amount \subseteq Nat
  BY DEF StakingAssumption
<1>1. PICK m : m = ledger'
  OBVIOUS
<1>2. \E x \in Addr, f \in Nat : Transaction(x, f, m) /\ TxDone(ledger, m, f) /\ ValueKept(ledger, m)
  <2>1. PICK x \in Addr, f \in Fees :
            \/ FailedTx(x, f)
            \/ \E y \in Addr, a \in Amount :
                  \/ TransferTx(x, f, y, a) \/ AddEscrow(x, f, y, a) \/ ReclaimEscrow(x, f, y, a)
                  \/ WithdrawTx(x, f, y, a) \/ \E n \in BOOLEAN : Allow(x, f, y, a, n)
            \/ \E a \in Amount : Burn(x, f, a) \/ TransferToGovernanceDeposits(x, f, a)
    BY DEF UserTx
  <2>2. f \in Nat
    BY <1>0
  <2>3. CASE FailedTx(x, f)
    <3>1. TxDone(ledger, m, f) /\ ValueKept(ledger, m)
      BY <1>1, <2>2, <2>3, FailedTxEffect
    <3>2. Transaction(x, f, m)
      BY <1>1, <2>3 DEF FailedTx, Transaction
    <3> QED
      BY <2>2, <3>1, <3>2
  <2>4. CASE \E y \in Addr, a \in Amount :
                  \/ TransferTx(x, f, y, a) \/ AddEscrow(x, f, y, a) \/ ReclaimEscrow(x, f, y, a)
                  \/ WithdrawTx(x, f, y, a) \/ \E n \in BOOLEAN : Allow(x, f, y, a, n)
    <3>1. PICK y \in Addr, a \in Amount :
                  \/ TransferTx(x, f, y, a) \/ AddEscrow(x, f, y, a) \/ ReclaimEscrow(x, f, y, a)
                  \/ WithdrawTx(x, f, y, a) \/ \E n \in BOOLEAN : Allow(x, f, y, a, n)
      BY <2>4
    <3>2. a \in Nat
      BY <1>0
    <3>3. TxDone(ledger, m, f) /\ ValueKept(ledger, m)
      BY <1>1, <2>2, <3>1, <3>2, TransferTxEffect, AddEscrowEffect, ReclaimEscrowEffect, WithdrawTxEffect, AllowTxEffect
    <3>4. Transaction(x, f, m)
      BY <1>1, <3>1 DEF TransferTx, AddEscrow, ReclaimEscrow, WithdrawTx, Allow, Transaction
    <3> QED
      BY <2>2, <3>3, <3>4
  <2>5. CASE \E a \in Amount : Burn(x, f, a) \/ TransferToGovernanceDeposits(x, f, a)
    <3>1. PICK a \in Amount : Burn(x, f, a) \/ TransferToGovernanceDeposits(x, f, a)
      BY <2>5
    <3>2. a \in Nat
      BY <1>0
    <3>3. TxDone(ledger, m, f) /\ ValueKept(ledger, m)
      BY <1>1, <2>2, <3>1, <3>2, BurnTxEffect, DepositTxEffect
    <3>4. Transaction(x, f, m)
      BY <1>1, <3>1 DEF Burn, TransferToGovernanceDeposits, Transaction
    <3> QED
      BY <2>2, <3>3, <3>4
  <2> QED
    BY <2>1, <2>3, <2>4, <2>5
<1>3. PICK x \in Addr, f \in Nat : Transaction(x, f, m) /\ TxDone(ledger, m, f) /\ ValueKept(ledger, m)
  BY <1>2
<1>4. StakingInv'
  BY <1>3, TxPreserves
<1>5. epoch' = epoch /\ phase = "deliver" /\ ~failed /\ failed' = failed
  BY <1>3 DEF Transaction
<1> QED
  BY <1>1, <1>3, <1>4, <1>5

LEMMA EquivocationStep ==
    ASSUME StakingAssumption, StakingInv, NEW x \in Addr, NEW f \in Fees, NEW y \in Addr, NEW q \in Penalties,
           NEW z \in Addr, OnRuntimeEquivocation(x, f, y, q, z)
    PROVE  /\ StakingInv' /\ epoch' = epoch /\ phase = "deliver"
           /\ \E fee \in Nat : TxDone(ledger, ledger', fee)
<1>0. f \in Nat /\ q \in Nat
  BY DEF StakingAssumption
<1>1. PICK m : m = ledger'
  OBVIOUS
<1>2. TxDone(ledger, m, f)
  BY <1>0, <1>1, EquivocationEffect
<1>3. Transaction(x, f, m)
  BY <1>1 DEF OnRuntimeEquivocation, Transaction
<1>4. StakingInv'
  BY <1>0, <1>2, <1>3, TxPreserves
<1>5. epoch' = epoch /\ phase = "deliver"
  BY <1>3 DEF Transaction
<1> QED
  BY <1>0, <1>1, <1>2, <1>4, <1>5

LEMMA BeginBlockStep ==
    ASSUME StakingAssumption, StakingInv, NEW p \in Proposers, NEW V \in VoterSets, NEW bad \in SUBSET Addr,
           NEW q \in Penalties, BeginBlock(p, V, bad, q)
    PROVE  StakingInv' /\ epoch' = epoch /\ phase = "begin" /\ ledger'.debs = ledger.debs
<1>0. /\ ContextTyped /\ Sound(ledger) /\ Accounted(ledger, block.fees, FeesHeld) /\ NotExpired(ledger, epoch)
      /\ (phase # "deliver" => block.fees = 0)
  BY DEF StakingInv
<1>1. /\ p \in Addr \cup {Nobody} /\ V \in SUBSET Addr /\ q \in Nat /\ MaxBlocks \in Nat /\ MaxTxs \in Nat
      /\ IsFiniteSet(Addr)
  BY DEF StakingAssumption
<1>2. /\ phase = "begin" /\ ~failed /\ block.height < MaxBlocks /\ phase' = "deliver"
      /\ block' = [proposer |-> p, fees |-> 0, txs |-> 0, height |-> block.height + 1]
      /\ failed' = DisburseFeesVQFails(ledger) /\ UNCHANGED <<weights, epoch, split>>
  BY DEF BeginBlock
<1>3. /\ block.height \in 0 .. MaxBlocks /\ signing \in [total : Nat, by : [Addr -> Nat]] /\ weights \in Weights
  BY <1>0 DEF ContextTyped
<1>4. block.height + 1 \in 0 .. MaxBlocks
  BY <1>1, <1>2, <1>3
<1>5. block' \in [proposer : Addr \cup {Nobody}, fees : Nat, txs : 0 .. MaxTxs, height : 0 .. MaxBlocks] /\ block'.fees = 0
  BY <1>1, <1>2, <1>4
<1>6. ledger.total = Worth(ledger) + ledger.lastFees /\ Worth(ledger) \in Nat /\ ledger.lastFees \in Nat
  <2>1. block.fees = 0 /\ FeesHeld = ledger.lastFees
    BY <1>0, <1>2 DEF FeesHeld
  <2>2. Worth(ledger) \in Nat /\ ledger.lastFees \in Nat
    BY <1>0, HoldingsNat, TypedFields DEF Sound
  <2> QED
    BY <1>0, <2>1, <2>2 DEF Accounted
<1>7. CASE failed'
  <2>1. ledger' = ledger /\ signing' = signing
    BY <1>7 DEF BeginBlock
  <2>2. FeesHeld' = ledger.lastFees
    BY <1>7, <2>1 DEF FeesHeld
  <2>3. Accounted(ledger', block'.fees, FeesHeld')
    BY <1>5, <1>6, <2>1, <2>2 DEF Accounted
  <2>4. ContextTyped'
    BY <1>0, <1>2, <1>5, <1>7, <2>1 DEF ContextTyped
  <2>5. NotExpired(ledger', epoch') /\ Sound(ledger')
    BY <1>0, <1>2, <2>1
  <2>6. FeesSplit'
    BY <1>2, <2>1 DEF FeesSplit, StakingInv
  <2> QED
    BY <1>2, <2>1, <2>3, <2>4, <2>5, <2>6 DEF StakingInv
<1>8. CASE ~failed'
  <2>1. PICK n, l1, l2, m : /\ n = Cardinality(Addr) /\ l1 = DisburseFeesVQ(ledger, p, n, V)
                            /\ l2 = IF p = Nobody THEN l1 ELSE AddRewardSingleAttenuated(l1, p, Cardinality(V), n)
                            /\ m = SlashAll(l2, bad, q)
    OBVIOUS
  <2>2. ledger' = m /\ signing' = UpdateSigning(V)
    BY <1>8, <2>1 DEF BeginBlock
  <2>3. ~DisburseFeesVQFails(ledger)
    BY <1>2, <1>8
  <2>4. Sound(l1) /\ Worth(l1) = Worth(ledger) + ledger.lastFees /\ l1.debs = ledger.debs /\ l1.total = ledger.total
    BY <1>0, <1>1, <1>3, <2>1, <2>3, FeesVQEffect
  <2>5. Sound(l2) /\ Worth(l2) = Worth(l1) /\ l2.debs = l1.debs /\ l2.total = l1.total
    <3>1. CASE p = Nobody
      BY <2>1, <2>4, <3>1
    <3>2. CASE p # Nobody
      <4>1. PICK c, d : c = RewardFactor.num * Cardinality(V) /\ d = RewardFactor.den * n
        OBVIOUS
      <4>2. p \in Addr
        BY <1>1, <3>2
      <4>3. c \in Nat /\ d \in Nat \ {0}
        <5>1. RewardFactor.num \in Nat /\ RewardFactor.den \in Nat \ {0}
          BY DEF StakingAssumption
        <5>2. Cardinality(V) \in Nat
          BY <1>1, FS_Subset, FS_CardinalityType
        <5>3. n \in Nat /\ n # 0
          BY <1>1, <2>1, <4>2, FS_CardinalityType, FS_EmptySet
        <5>4. c \in Nat
          BY <4>1, <5>1, <5>2, MulNat
        <5>5. \A i, j \in Nat \ {0} : i * j \in Nat \ {0}
          OBVIOUS
        <5> QED
          BY <4>1, <5>1, <5>3, <5>4, <5>5
      <4>4. l2 = AddReward(l1, p, c, d)
        BY <2>1, <3>2, <4>1 DEF AddRewardSingleAttenuated
      <4>5. Rewarded(l1, l2, p)
        BY <2>4, <4>2, <4>3, <4>4, RewardEffect
      <4> QED
        BY <4>5 DEF Rewarded
    <3> QED
      BY <3>1, <3>2
  <2>6. Sound(m) /\ Worth(m) = Worth(l2) /\ m.debs = l2.debs /\ m.total = l2.total
    BY <1>1, <2>1, <2>5, SlashAllEffect
  <2>7. signing' \in [total : Nat, by : [Addr -> Nat]]
    BY <1>3, <2>2 DEF UpdateSigning
  <2>8. FeesHeld' = 0
    BY <1>2, <1>8 DEF FeesHeld
  <2>9. Accounted(ledger', block'.fees, FeesHeld')
    <3>1. m.total = Worth(m) + 0 + 0
      BY <1>6, <2>4, <2>5, <2>6
    <3> QED
      BY <1>5, <2>2, <2>8, <3>1 DEF Accounted
  <2>10. ContextTyped'
    <3>1. failed' \in BOOLEAN
      BY <1>2 DEF DisburseFeesVQFails
    <3> QED
      BY <1>0, <1>2, <1>5, <2>7, <3>1 DEF ContextTyped
  <2>11. ledger'.debs = ledger.debs
    BY <2>2, <2>4, <2>5, <2>6
  <2>12. NotExpired(ledger', epoch')
    BY <1>0, <1>2, <2>11 DEF NotExpired
  <2>13. FeesSplit'
    BY <1>2, <1>8 DEF FeesSplit
  <2> QED
    BY <1>2, <2>2, <2>6, <2>9, <2>10, <2>11, <2>12, <2>13 DEF StakingInv
<1> QED
  BY <1>2, <1>7, <1>8

LEMMA EndBlockStep ==
    ASSUME StakingAssumption, StakingInv, NEW to, EndBlock(to)
    PROVE  /\ StakingInv' /\ phase = "deliver" /\ ValueKept(ledger, ledger')
           /\ \A k \in DOMAIN ledger.debs :
                 \/ k \in DOMAIN ledger'.debs /\ ledger'.debs[k] >= ledger.debs[k]
                 \/ epoch < k[3] /\ epoch' >= k[3]
<1>0. /\ ContextTyped /\ Sound(ledger) /\ Typed(ledger) /\ Accounted(ledger, block.fees, FeesHeld) /\ NotExpired(ledger, epoch)
  BY DEF StakingInv, Sound
<1>1. /\ phase = "deliver" /\ ~failed /\ to \in epoch .. MaxEpoch /\ phase' = "end" /\ epoch' = to
      /\ block' = [block EXCEPT !.fees = 0] /\ split' = weights /\ UNCHANGED <<weights, failed>>
  BY DEF EndBlock
<1>2. PICK l, m : l = DisburseFeesP(ledger, block.fees, block.proposer) /\ m = ledger'
  OBVIOUS
<1>3. /\ block.fees \in Nat /\ block.proposer \in Addr \cup {Nobody} /\ weights \in Weights
      /\ epoch \in 0 .. MaxEpoch /\ MaxEpoch \in Nat /\ signing \in [total : Nat, by : [Addr -> Nat]]
      /\ block \in [proposer : Addr \cup {Nobody}, fees : Nat, txs : 0 .. MaxTxs, height : 0 .. MaxBlocks]
  BY <1>0 DEF ContextTyped, StakingAssumption
<1>4. /\ Sound(l) /\ Worth(l) + l.lastFees = Worth(ledger) + block.fees
      /\ l.active = ledger.active /\ l.debonding = ledger.debonding /\ l.debs = ledger.debs
      /\ l.total = ledger.total
      /\ weights.vote + weights.next = 0 => l.lastFees = 0
  <2>1. PICK f \in Nat, p \in Addr \cup {Nobody} : f = block.fees /\ p = block.proposer
    BY <1>3
  <2>2. l = DisburseFeesP(ledger, f, p)
    BY <1>2, <2>1
  <2>3. /\ Sound(l) /\ Worth(l) + l.lastFees = Worth(ledger) + f
        /\ l.active = ledger.active /\ l.debonding = ledger.debonding /\ l.debs = ledger.debs
        /\ l.total = ledger.total
        /\ weights.vote + weights.next = 0 => l.lastFees = 0
    <3>1. weights \in Weights /\ Sound(ledger)
      BY <1>0, <1>3
    <3> QED
      BY <2>2, <3>1, FeesPEffect
  <2> QED
    BY <2>1, <2>3
<1>5. /\ Sound(m) /\ Worth(m) = Worth(l) /\ m.total = l.total /\ m.lastFees = l.lastFees /\ ValueKept(l, m)
      /\ NotExpired(m, to)
      /\ signing' \in [total : Nat, by : [Addr -> Nat]]
      /\ \A k \in DOMAIN l.debs : (k \in DOMAIN m.debs /\ m.debs[k] = l.debs[k]) \/ to >= k[3]
  <2>1. CASE to = epoch
    <3>1. m = l /\ signing' = signing
      BY <1>2, <2>1 DEF EndBlock
    <3>2. ValueKept(l, m)
      BY <1>4, <3>1, ValueSame DEF Sound
    <3>3. NotExpired(m, to)
      BY <1>0, <1>4, <2>1, <3>1 DEF NotExpired
    <3> QED
      BY <1>3, <1>4, <3>1, <3>2, <3>3
  <2>2. CASE to # epoch
    <3>1. m = OnEpochChange(l, to) /\ signing' = [total |-> 0, by |-> [x \in Addr |-> 0]]
      BY <1>2, <2>2 DEF EndBlock
    <3>2. /\ Sound(m) /\ Worth(m) = Worth(l)
          /\ m.debs = [k \in DOMAIN l.debs \ ExpiredDebondingQueue(l, to) |-> l.debs[k]]
          /\ m.total = l.total /\ m.lastFees = l.lastFees /\ ValueKept(l, m)
      <4>1. Sound(l) /\ m = OnEpochChange(l, to)
        BY <1>4, <3>1
      <4>2. EpochDone(l, m, to)
        BY <4>1, EpochEffect
      <4> QED
        BY <4>2 DEF ValueKept, EpochDone
    <3>3. DOMAIN m.debs = DOMAIN l.debs \ ExpiredDebondingQueue(l, to)
      BY <3>2
    <3>4. \A k \in DOMAIN l.debs : k[3] \in Int
      BY <1>4, TypedFields DEF Sound, DebondingKey
    <3>5. to \in Int
      BY <1>1, <1>3
    <3>6. NotExpired(m, to)
      BY <3>3, <3>4, <3>5 DEF NotExpired, ExpiredDebondingQueue
    <3>7. \A k \in DOMAIN l.debs : (k \in DOMAIN m.debs /\ m.debs[k] = l.debs[k]) \/ to >= k[3]
      BY <3>2, <3>3, <3>4, <3>5 DEF ExpiredDebondingQueue
    <3>8. signing' \in [total : Nat, by : [Addr -> Nat]]
      BY <3>1
    <3> QED
      BY <3>2, <3>6, <3>7, <3>8
  <2> QED
    BY <2>1, <2>2
<1>6. FeesHeld = 0 /\ FeesHeld' = m.lastFees
  BY <1>1, <1>2 DEF FeesHeld
<1>7. /\ block' \in [proposer : Addr \cup {Nobody}, fees : Nat, txs : 0 .. MaxTxs, height : 0 .. MaxBlocks]
      /\ block'.fees = 0
  BY <1>1, <1>3
<1>8. Accounted(ledger', block'.fees, FeesHeld')
  <2>1. Worth(m) \in Nat /\ Worth(l) \in Nat /\ Worth(ledger) \in Nat /\ m.lastFees \in Nat
    BY <1>0, <1>4, <1>5, HoldingsNat, TypedFields DEF Sound
  <2>2. ledger.total = Worth(ledger) + block.fees + 0
    BY <1>0, <1>6 DEF Accounted
  <2>3. m.total = Worth(m) + 0 + m.lastFees
    BY <1>3, <1>4, <1>5, <2>1, <2>2
  <2> QED
    BY <1>2, <1>6, <1>7, <2>3 DEF Accounted
<1>9. ContextTyped'
  <2>1. to \in 0 .. MaxEpoch
    BY <1>1, <1>3
  <2> QED
    BY <1>0, <1>1, <1>5, <1>7, <2>1 DEF ContextTyped
<1>10. NotExpired(ledger', epoch') /\ Sound(ledger')
  BY <1>1, <1>2, <1>5
<1>s. FeesSplit'
  <2>1. weights.vote \in Nat /\ weights.next \in Nat
    BY <1>3 DEF StakingAssumption
  <2>2. ledger'.lastFees # 0 => weights.vote + weights.next # 0
    BY <1>2, <1>4, <1>5
  <2> QED
    BY <1>1, <2>1, <2>2 DEF FeesSplit
<1>11. StakingInv'
  BY <1>7, <1>8, <1>9, <1>10, <1>s DEF StakingInv
<1>12. ValueKept(ledger, ledger')
  BY <1>2, <1>4, <1>5 DEF ValueKept
<1>13. ASSUME NEW k \in DOMAIN ledger.debs
       PROVE  \/ k \in DOMAIN ledger'.debs /\ ledger'.debs[k] >= ledger.debs[k]
              \/ epoch < k[3] /\ epoch' >= k[3]
  <2>1. ledger.debs[k] \in Nat /\ k[3] \in Int
    BY <1>0, TypedFields DEF DebondingKey
  <2>2. epoch < k[3]
    BY <1>0, <1>3, <2>1 DEF NotExpired
  <2>3. k \in DOMAIN l.debs /\ l.debs[k] = ledger.debs[k]
    BY <1>4
  <2>4. CASE to >= k[3]
    BY <1>1, <2>2, <2>4
  <2>5. CASE k \in DOMAIN m.debs /\ m.debs[k] = l.debs[k]
    BY <1>2, <2>1, <2>3, <2>5
  <2> QED
    BY <1>5, <2>3, <2>4, <2>5
<1> QED
  BY <1>1, <1>11, <1>12, <1>13

\* After EndBlock: the ledger changes, its worth does not.
LEMMA EndedPreserves ==
    ASSUME StakingAssumption, StakingInv, phase = "end", NEW m, ledger' = m, Sound(m), Worth(m) = Worth(ledger),
           m.total = ledger.total, m.lastFees = ledger.lastFees, m.debs = ledger.debs, failed' \in BOOLEAN,
           weights' \in Weights, UNCHANGED <<epoch, phase, block, signing, split>>
    PROVE  StakingInv'
<1>0. /\ ContextTyped /\ Accounted(ledger, block.fees, FeesHeld) /\ NotExpired(ledger, epoch) /\ block.fees = 0
  BY DEF StakingInv
<1>1. FeesHeld = ledger.lastFees /\ FeesHeld' = m.lastFees
  BY DEF FeesHeld
<1>2. ContextTyped'
  BY <1>0 DEF ContextTyped
<1>3. Accounted(ledger', block'.fees, FeesHeld') /\ NotExpired(ledger', epoch')
  BY <1>0, <1>1 DEF Accounted, NotExpired
<1>4. FeesSplit'
  BY DEF FeesSplit, StakingInv
<1> QED
  BY <1>0, <1>2, <1>3, <1>4 DEF StakingInv

LEMMA ReturnStep ==
    ASSUME StakingAssumption, StakingInv, NEW x \in Addr, NEW a, TransferFromGovernanceDeposits(x, a)
    PROVE  StakingInv' /\ ledger'.commonPool = ledger.commonPool /\ ledger'.debs = ledger.debs /\ epoch' = epoch
<1>0. ContextTyped /\ Sound(ledger)
  BY DEF StakingInv
<1>1. PICK m : m = ledger'
  OBVIOUS
<1>2. /\ phase = "end" /\ a \in 1 .. ledger.deposits /\ m = Returned(ledger, x, a)
      /\ UNCHANGED <<weights, epoch, phase, block, signing, failed, split>>
  BY <1>1 DEF TransferFromGovernanceDeposits, Returned
<1>3. a \in Nat /\ a <= ledger.deposits
  <2>1. ledger.deposits \in Nat
    BY <1>0, TypedFields DEF Sound
  <2> QED
    BY <1>2, <2>1
<1>4. /\ Sound(m) /\ Worth(m) = Worth(ledger) /\ PoolsSame(ledger, m) /\ m.total = ledger.total
      /\ m.lastFees = ledger.lastFees /\ m.commonPool = ledger.commonPool
  BY <1>0, <1>2, <1>3, ReturnEffect
<1>5. failed' \in BOOLEAN /\ weights' \in Weights
  BY <1>0, <1>2 DEF ContextTyped
<1>6. StakingInv'
  BY <1>1, <1>2, <1>4, <1>5, EndedPreserves DEF PoolsSame
<1> QED
  BY <1>1, <1>2, <1>4, <1>6 DEF PoolsSame

LEMMA DiscardStep ==
    ASSUME StakingAssumption, StakingInv, NEW a, DiscardGovernanceDeposit(a)
    PROVE  StakingInv' /\ ledger'.commonPool >= ledger.commonPool /\ ledger'.debs = ledger.debs /\ epoch' = epoch
<1>0. ContextTyped /\ Sound(ledger)
  BY DEF StakingInv
<1>1. PICK m : m = ledger'
  OBVIOUS
<1>2. /\ phase = "end" /\ a \in 1 .. ledger.deposits /\ m = Discarded(ledger, a)
      /\ UNCHANGED <<weights, epoch, phase, block, signing, failed, split>>
  BY <1>1 DEF DiscardGovernanceDeposit, Discarded
<1>3. a \in Nat /\ a <= ledger.deposits /\ ledger.commonPool \in Nat
  <2>1. ledger.deposits \in Nat /\ ledger.commonPool \in Nat
    BY <1>0, TypedFields DEF Sound
  <2> QED
    BY <1>2, <2>1
<1>4. /\ Sound(m) /\ Worth(m) = Worth(ledger) /\ PoolsSame(ledger, m) /\ m.total = ledger.total
      /\ m.lastFees = ledger.lastFees /\ m.commonPool = ledger.commonPool + a
  BY <1>0, <1>2, <1>3, DiscardEffect
<1>5. failed' \in BOOLEAN /\ weights' \in Weights
  BY <1>0, <1>2 DEF ContextTyped
<1>6. StakingInv'
  BY <1>1, <1>2, <1>4, <1>5, EndedPreserves DEF PoolsSame
<1>7. m.commonPool >= ledger.commonPool
  BY <1>3, <1>4
<1> QED
  BY <1>1, <1>2, <1>4, <1>6, <1>7 DEF PoolsSame

LEMMA IncorrectStep ==
    ASSUME StakingAssumption, StakingInv, NEW cs \in SUBSET Addr, NEW rs \in SUBSET Addr, NEW q \in Penalties,
           OnRuntimeIncorrectResults(cs, rs, q)
    PROVE  StakingInv' /\ ledger'.commonPool >= ledger.commonPool /\ ledger'.debs = ledger.debs /\ epoch' = epoch
<1>0. ContextTyped /\ Sound(ledger) /\ Typed(ledger) /\ q \in Nat /\ IsFiniteSet(cs)
  BY FS_Subset DEF StakingInv, Sound, StakingAssumption
<1>1. PICK m, slashed, l : m = ledger' /\ slashed = SumFunctionOnSet(Slashed(ledger, q), cs) /\ l = SlashAll(ledger, cs, q)
  OBVIOUS
<1>2. /\ phase = "end" /\ failed' = (slashed # 0 /\ DistributionFails(l, slashed, rs))
      /\ m = IF failed' THEN ledger ELSE IF slashed = 0 THEN l ELSE DistributeSlashedFunds(l, slashed, rs)
      /\ UNCHANGED <<weights, epoch, phase, block, signing, split>>
  BY <1>1 DEF OnRuntimeIncorrectResults
<1>3. slashed \in Nat /\ ledger.commonPool \in Nat
  <2>1. \A x \in cs : Slashed(ledger, q)[x] \in Nat
    BY <1>0, SlashedTyped
  <2>2. SumFunctionOnSet(Slashed(ledger, q), cs) \in Nat
    BY <1>0, <2>1, SumNat
  <2> QED
    BY <1>0, <1>1, <2>2, TypedFields
<1>4. /\ Sound(l) /\ Worth(l) = Worth(ledger) /\ l.commonPool = ledger.commonPool + slashed
      /\ l.debs = ledger.debs /\ l.total = ledger.total /\ l.lastFees = ledger.lastFees
  BY <1>0, <1>1, SlashAllEffect
<1>5. /\ Sound(m) /\ Worth(m) = Worth(ledger) /\ m.commonPool >= ledger.commonPool
      /\ m.debs = ledger.debs /\ m.total = ledger.total /\ m.lastFees = ledger.lastFees
  <2>1. CASE failed'
    <3>1. m = ledger
      BY <1>2, <2>1
    <3> QED
      BY <1>0, <1>3, <3>1
  <2>2. CASE ~failed' /\ slashed = 0
    <3>1. m = l
      BY <1>2, <2>2
    <3>2. l.commonPool >= ledger.commonPool
      BY <1>3, <1>4
    <3> QED
      BY <1>4, <3>1, <3>2
  <2>3. CASE ~failed' /\ slashed # 0
    <3>1. m = DistributeSlashedFunds(l, slashed, rs) /\ ~DistributionFails(l, slashed, rs)
      BY <1>2, <2>3
    <3>2. slashed <= l.commonPool
      BY <1>3, <1>4
    <3>3. /\ Sound(m) /\ Worth(m) = Worth(l) /\ m.debs = l.debs
          /\ m.total = l.total /\ m.lastFees = l.lastFees /\ m.commonPool >= l.commonPool - slashed
      BY <1>3, <1>4, <3>1, <3>2, DistributeEffect
    <3>4. m.commonPool >= ledger.commonPool
      BY <1>3, <1>4, <3>3
    <3> QED
      BY <1>4, <3>3, <3>4
  <2> QED
    BY <2>1, <2>2, <2>3
<1>6. failed' \in BOOLEAN /\ weights' \in Weights
  BY <1>0, <1>2 DEF ContextTyped
<1>7. StakingInv'
  BY <1>1, <1>2, <1>5, <1>6, EndedPreserves
<1> QED
  BY <1>1, <1>2, <1>5, <1>7

\* Genesis: no shares, no debonding delegations, and the total is what is there.
LEMMA StakingInitInv == ASSUME StakingAssumption, Init PROVE StakingInv
<1>1. PICK g \in Genesis, c \in {CommonPool} :
         ledger = [general |-> g, allowance |-> [x \in Addr |-> [y \in Addr |-> 0]],
                   active |-> [x \in Addr |-> EmptyPool], debonding |-> [x \in Addr |-> EmptyPool],
                   delegation |-> [x \in Addr |-> [y \in Addr |-> 0]], debs |-> <<>>,
                   commonPool |-> c, lastFees |-> 0, deposits |-> 0,
                   total |-> c + SumFunctionOnSet(g, Addr)]
  BY DEF Init
<1>2. /\ g \in [Addr -> Nat] /\ c \in Nat /\ IsFiniteSet(Addr) /\ MaxEpoch \in Nat /\ MaxTxs \in Nat /\ MaxBlocks \in Nat
  BY DEF StakingAssumption
<1>3. SumFunctionOnSet(g, Addr) \in Nat
  BY <1>2, SumNat
<1>4. DOMAIN <<>> = {}
  OBVIOUS
<1>5. /\ Shape(ledger) /\ ledger.general = g /\ ledger.debs = <<>>
      /\ ledger.allowance = [x \in Addr |-> [y \in Addr |-> 0]] /\ ledger.delegation = [x \in Addr |-> [y \in Addr |-> 0]]
      /\ ledger.active = [x \in Addr |-> EmptyPool] /\ ledger.debonding = [x \in Addr |-> EmptyPool]
      /\ ledger.commonPool = c /\ ledger.lastFees = 0 /\ ledger.deposits = 0
      /\ ledger.total = c + SumFunctionOnSet(g, Addr)
  BY <1>1 DEF Shape
<1>6. EmptyPool \in SharePool /\ EmptyPool.balance = 0 /\ EmptyPool.shares = 0
  BY DEF EmptyPool, SharePool
<1>7. \A y \in Addr : /\ ledger.active[y] = EmptyPool /\ ledger.debonding[y] = EmptyPool
                      /\ \A x \in Addr : ledger.delegation[x][y] = 0
  BY <1>5
<1>8. DOMAIN ledger.debs = {}
  BY <1>4, <1>5
<1>9. Typed(ledger)
  <2>1. ledger.debs \in [DOMAIN ledger.debs -> Nat]
    <3>1. ledger.debs \in Seq(Nat)
      BY <1>5
    <3> QED
      BY <1>5, <1>8
  <2>2. DOMAIN ledger.debs \subseteq DebondingKey
    BY <1>8
  <2>3. ledger.allowance \in [Addr -> [Addr -> Nat]] /\ ledger.delegation \in [Addr -> [Addr -> Nat]]
    BY <1>5
  <2>4. ledger.active \in [Addr -> SharePool] /\ ledger.debonding \in [Addr -> SharePool]
    BY <1>5, <1>6
  <2>5. ledger.general \in [Addr -> Nat] /\ ledger.commonPool \in Nat /\ ledger.total \in Nat /\ ledger.lastFees \in Nat /\ ledger.deposits \in Nat
    BY <1>2, <1>3, <1>5
  <2> QED
    BY <1>5, <2>1, <2>2, <2>3, <2>4, <2>5, TypedIf
<1>10. Backed(ledger)
  <2> SUFFICES ASSUME NEW y \in Addr PROVE ActiveBacked(ledger, y) /\ DebondingBacked(ledger, y)
    BY DEF Backed
  <2>1. SumFunctionOnSet(SharesIn(ledger, y), Addr) = 0
    <3>1. \A x \in Addr : SharesIn(ledger, y)[x] = IF x \in {} THEN 0 ELSE 0
      BY <1>7 DEF SharesIn
    <3>2. SumFunctionOnSet(SharesIn(ledger, y), Addr) = 0 * Cardinality({})
      <4>1. {} \in SUBSET Addr /\ 0 \in Int
        OBVIOUS
      <4> QED
        BY <1>2, <3>1, <4>1, SumEach
    <3> QED
      BY <3>2, FS_EmptySet
  <2>2. DebsOf(ledger, y) = {}
    BY <1>8 DEF DebsOf
  <2>3. SumFunctionOnSet(ledger.debs, DebsOf(ledger, y)) = 0
    BY <2>2, SumEmpty
  <2>4. /\ ledger.active[y].shares = 0 /\ ledger.active[y].balance = 0
        /\ ledger.debonding[y].shares = 0 /\ ledger.debonding[y].balance = 0
    BY <1>6, <1>7
  <2> QED
    BY <2>1, <2>3, <2>4 DEF ActiveBacked, DebondingBacked
<1>11. SumFunctionOnSet(Holdings(ledger), Addr) = SumFunctionOnSet(g, Addr)
  <2>1. \A x \in Addr : Holdings(ledger)[x] = g[x]
    <3> SUFFICES ASSUME NEW x \in Addr PROVE Holdings(ledger)[x] = g[x]
      OBVIOUS
    <3>1. ledger.active[x].balance = 0 /\ ledger.debonding[x].balance = 0 /\ ledger.general[x] = g[x] /\ g[x] \in Nat
      BY <1>2, <1>5, <1>6, <1>7
    <3>2. Holdings(ledger)[x] = ledger.general[x] + ledger.active[x].balance + ledger.debonding[x].balance
      BY DEF Holdings
    <3> QED
      BY <3>1, <3>2
  <2> QED
    BY <1>2, <2>1, SumSame
<1>12. block.fees = 0 /\ FeesHeld = 0 /\ phase = "begin"
  BY <1>5 DEF Init, FeesHeld
<1>13. Accounted(ledger, block.fees, FeesHeld)
  <2>1. Worth(ledger) = c + 0 + SumFunctionOnSet(g, Addr)
    BY <1>5, <1>11 DEF Worth
  <2> QED
    BY <1>2, <1>3, <1>5, <1>12, <2>1 DEF Accounted
<1>14. ContextTyped
  <2>1. block = [proposer |-> Nobody, fees |-> 0, txs |-> 0, height |-> 0] /\ signing = [total |-> 0, by |-> [x \in Addr |-> 0]]
    BY DEF Init
  <2>2. weights \in Weights /\ split \in Weights /\ epoch = 0 /\ phase = "begin" /\ failed = FALSE
    BY DEF Init
  <2>3. 0 \in 0 .. MaxTxs /\ 0 \in 0 .. MaxBlocks /\ 0 \in 0 .. MaxEpoch
    BY <1>2
  <2>4. block \in [proposer : Addr \cup {Nobody}, fees : Nat, txs : 0 .. MaxTxs, height : 0 .. MaxBlocks]
    BY <2>1, <2>3
  <2>5. signing \in [total : Nat, by : [Addr -> Nat]]
    BY <2>1
  <2> QED
    BY <2>2, <2>3, <2>4, <2>5 DEF ContextTyped
<1>15. NotExpired(ledger, epoch)
  BY <1>8 DEF NotExpired
<1>16. FeesSplit
  BY <1>5 DEF FeesSplit
<1> QED
  BY <1>9, <1>10, <1>12, <1>13, <1>14, <1>15, <1>16 DEF StakingInv, Sound

\* One step per action; the effects are in the lemmas above.
LEMMA StakingStepInv == ASSUME StakingAssumption, StakingInv, [Next]_vars PROVE StakingInv'
<1>1. CASE UNCHANGED vars
  BY <1>1 DEF vars, StakingInv, ContextTyped, Accounted, NotExpired, FeesHeld, FeesSplit
<1>2. ASSUME NEW p \in Proposers, NEW V \in VoterSets, NEW bad \in SUBSET Addr, NEW q \in Penalties, BeginBlock(p, V, bad, q)
      PROVE  StakingInv'
  BY <1>2, BeginBlockStep
<1>3. CASE UserTx
  BY <1>3, UserTxStep
<1>4. ASSUME NEW x \in Addr, NEW y \in Addr, NEW z \in Addr, NEW f \in Fees, NEW q \in Penalties,
             OnRuntimeEquivocation(x, f, y, q, z)
      PROVE  StakingInv'
  BY <1>4, EquivocationStep
<1>5. CASE EndBlocks
  BY <1>5, EndBlockStep DEF EndBlocks
<1>6. ASSUME NEW a \in Amount, DiscardGovernanceDeposit(a) PROVE StakingInv'
  BY <1>6, DiscardStep
<1>7. ASSUME NEW a \in Amount, NEW x \in Addr, TransferFromGovernanceDeposits(x, a) PROVE StakingInv'
  BY <1>7, ReturnStep
<1>8. ASSUME NEW w \in Weights, ChangeParameters(w) PROVE StakingInv'
  BY <1>8 DEF ChangeParameters, StakingInv, ContextTyped, Accounted, NotExpired, FeesHeld, FeesSplit
<1>9. ASSUME NEW cs \in SUBSET Addr, NEW rs \in SUBSET Addr, NEW q \in Penalties, OnRuntimeIncorrectResults(cs, rs, q)
      PROVE  StakingInv'
  BY <1>9, IncorrectStep
<1>10. CASE Commit
  BY <1>10 DEF Commit, StakingInv, ContextTyped, Accounted, NotExpired, FeesHeld, FeesSplit
<1> QED
  BY <1>1, <1>2, <1>3, <1>4, <1>5, <1>6, <1>7, <1>8, <1>9, <1>10 DEF Next

(* The ledger stays well typed, its pools backed by delegations, its total   *)
(* accounted for and its debonding queue free of entries that have ended.    *)
THEOREM StakingInvariance == ASSUME StakingAssumption PROVE Spec => []StakingInv
<1>1. Init => StakingInv
  BY StakingInitInv
<1>2. StakingInv /\ [Next]_vars => StakingInv'
  BY StakingStepInv
<1> QED
  BY <1>1, <1>2, PTL DEF Spec

(* Every balance, pool, delegation and counter of the ledger keeps its type:  *)
(* no balance is ever negative, in whatever order the operations come.        *)
THEOREM StakingTypeCorrect == ASSUME StakingAssumption PROVE Spec => []TypeOK
<1>1. StakingInv => TypeOK
  BY DEF StakingInv, ContextTyped, Sound, Typed, TypeOK
<1> QED
  BY <1>1, StakingInvariance, PTL

(* Tokens are neither created nor lost: the total supply is what accounts,   *)
(* pools, the common pool, deposits and the fees in flight hold, for every    *)
(* number of accounts, blocks and transactions and all amounts.              *)
THEOREM SupplyConserved == ASSUME StakingAssumption PROVE Spec => []Conservation
<1>1. ASSUME StakingInv PROVE Conservation
  <2>1. ledger.total = Worth(ledger) + block.fees + FeesHeld /\ Typed(ledger) /\ block.fees \in Nat
    BY <1>1 DEF StakingInv, Accounted, Sound, ContextTyped
  <2>2. /\ FeesHeld \in Nat /\ ledger.commonPool \in Nat /\ ledger.deposits \in Nat
        /\ SumFunctionOnSet(Holdings(ledger), Addr) \in Nat
    BY <2>1, TypedFields, HoldingsNat DEF FeesHeld
  <2> QED
    BY <2>1, <2>2 DEF Worth, Conservation
<1> QED
  BY <1>1, StakingInvariance, PTL

(* The shares of each pool are those that delegations hold, and a pool       *)
(* without shares holds no tokens, through rewards, slashes and reclaims.    *)
THEOREM SharesAlwaysBacked == ASSUME StakingAssumption PROVE Spec => []SharesBacked
<1>1. StakingInv => SharesBacked
  BY DEF StakingInv, Sound, Backed, ActiveBacked, DebondingBacked, DebsOf, SharesBacked
<1> QED
  BY <1>1, StakingInvariance, PTL

(* No user transaction and no EndBlock lowers the value of a share: deposits *)
(* and withdrawals round against whoever makes them.                         *)
THEOREM SharesNeverDiluted == ASSUME StakingAssumption PROVE Spec => [][SharesKeepValue]_vars
<1>1. StakingInv /\ [Next]_vars => SharesKeepValue
  <2> SUFFICES ASSUME StakingInv, UserTx \/ EndBlocks PROVE ValueKept(ledger, ledger')
    BY DEF SharesKeepValue, ValueKept
  <2> QED
    BY UserTxStep, EndBlockStep DEF EndBlocks
<1> QED
  BY <1>1, StakingInvariance, PTL DEF Spec

\* A step other than EndBlock that changes no debonding delegation but to add to it.
LEMMA DebsKept ==
    ASSUME StakingAssumption, StakingInv, NEW m, m = ledger', epoch' = epoch,
           m.debs = ledger.debs \/ \E fee \in Nat : TxDone(ledger, m, fee)
    PROVE  DebondingPaidAtEnd
<1>1. \A k \in DOMAIN ledger.debs : ledger.debs[k] \in Nat
  BY TypedFields DEF StakingInv, Sound
<1>2. \A k \in DOMAIN ledger.debs : k \in DOMAIN m.debs /\ m.debs[k] >= ledger.debs[k]
  BY <1>1 DEF TxDone
<1> QED
  BY <1>2 DEF DebondingPaidAtEnd

(* A debonding delegation keeps its shares until its end and is paid out in  *)
(* the first epoch at or after it, however many epochs are skipped.          *)
THEOREM DebondingAlwaysPaid == ASSUME StakingAssumption PROVE Spec => [][DebondingPaidAtEnd]_vars
<1>1. ASSUME StakingInv, StakingInv', Next PROVE DebondingPaidAtEnd
  <2>0. PICK m : m = ledger'
    OBVIOUS
  <2>1. ASSUME NEW p \in Proposers, NEW V \in VoterSets, NEW bad \in SUBSET Addr, NEW q \in Penalties, BeginBlock(p, V, bad, q)
        PROVE  DebondingPaidAtEnd
    <3>1. epoch' = epoch /\ m.debs = ledger.debs
      BY <1>1, <2>0, <2>1, BeginBlockStep
    <3> QED
      BY <1>1, <2>0, <3>1, DebsKept
  <2>2. CASE UserTx
    <3>1. epoch' = epoch /\ \E fee \in Nat : TxDone(ledger, m, fee)
      BY <1>1, <2>0, <2>2, UserTxStep
    <3> QED
      BY <1>1, <2>0, <3>1, DebsKept
  <2>3. ASSUME NEW x \in Addr, NEW y \in Addr, NEW z \in Addr, NEW f \in Fees, NEW q \in Penalties,
               OnRuntimeEquivocation(x, f, y, q, z)
        PROVE  DebondingPaidAtEnd
    <3>1. epoch' = epoch /\ \E fee \in Nat : TxDone(ledger, m, fee)
      BY <1>1, <2>0, <2>3, EquivocationStep
    <3> QED
      BY <1>1, <2>0, <3>1, DebsKept
  <2>4. CASE EndBlocks
    <3>1. \A k \in DOMAIN ledger.debs :
              \/ k \in DOMAIN ledger'.debs /\ ledger'.debs[k] >= ledger.debs[k]
              \/ epoch < k[3] /\ epoch' >= k[3]
      BY <1>1, <2>4, EndBlockStep DEF EndBlocks
    <3>2. NotExpired(ledger', epoch')
      BY <1>1 DEF StakingInv
    <3> QED
      BY <3>1, <3>2 DEF DebondingPaidAtEnd, NotExpired
  <2>5. ASSUME NEW a \in Amount, DiscardGovernanceDeposit(a) PROVE DebondingPaidAtEnd
    <3>1. epoch' = epoch /\ m.debs = ledger.debs
      BY <1>1, <2>0, <2>5, DiscardStep
    <3> QED
      BY <1>1, <2>0, <3>1, DebsKept
  <2>6. ASSUME NEW a \in Amount, NEW x \in Addr, TransferFromGovernanceDeposits(x, a) PROVE DebondingPaidAtEnd
    <3>1. epoch' = epoch /\ m.debs = ledger.debs
      BY <1>1, <2>0, <2>6, ReturnStep
    <3> QED
      BY <1>1, <2>0, <3>1, DebsKept
  <2>7. ASSUME NEW cs \in SUBSET Addr, NEW rs \in SUBSET Addr, NEW q \in Penalties, OnRuntimeIncorrectResults(cs, rs, q)
        PROVE  DebondingPaidAtEnd
    <3>1. epoch' = epoch /\ m.debs = ledger.debs
      BY <1>1, <2>0, <2>7, IncorrectStep
    <3> QED
      BY <1>1, <2>0, <3>1, DebsKept
  <2>8. CASE Commit \/ \E w \in Weights : ChangeParameters(w)
    <3>1. epoch' = epoch /\ m.debs = ledger.debs
      BY <2>0, <2>8 DEF Commit, ChangeParameters
    <3> QED
      BY <1>1, <2>0, <3>1, DebsKept
  <2> QED
    BY <1>1, <2>1, <2>2, <2>3, <2>4, <2>5, <2>6, <2>7, <2>8 DEF Next
<1>2. StakingInv /\ StakingInv' /\ [Next]_vars => [DebondingPaidAtEnd]_vars
  BY <1>1
<1> QED
  BY <1>2, StakingInvariance, PTL DEF Spec

(* Rewards that follow a slash are covered by what was slashed: the common   *)
(* pool never shrinks between EndBlock of staking and the end of the block.   *)
THEOREM OnlySlashedFunds == ASSUME StakingAssumption PROVE Spec => [][SlashedFundsOnly]_vars
<1>1. ASSUME StakingInv, Next, phase = "end", phase' = "end" PROVE ledger'.commonPool >= ledger.commonPool
  <2>0. ledger.commonPool \in Nat
    BY <1>1, TypedFields DEF StakingInv, Sound
  <2>1. ASSUME NEW p \in Proposers, NEW V \in VoterSets, NEW bad \in SUBSET Addr, NEW q \in Penalties, BeginBlock(p, V, bad, q)
        PROVE  FALSE
    BY <1>1, <2>1 DEF BeginBlock
  <2>2. CASE UserTx
    BY <1>1, <2>2, UserTxStep
  <2>3. ASSUME NEW x \in Addr, NEW y \in Addr, NEW z \in Addr, NEW f \in Fees, NEW q \in Penalties,
               OnRuntimeEquivocation(x, f, y, q, z)
        PROVE  FALSE
    BY <1>1, <2>3, EquivocationStep
  <2>4. CASE EndBlocks
    BY <1>1, <2>4 DEF EndBlocks, EndBlock
  <2>5. ASSUME NEW a \in Amount, DiscardGovernanceDeposit(a) PROVE ledger'.commonPool >= ledger.commonPool
    BY <1>1, <2>5, DiscardStep
  <2>6. ASSUME NEW a \in Amount, NEW x \in Addr, TransferFromGovernanceDeposits(x, a) PROVE ledger'.commonPool >= ledger.commonPool
    <3>1. ledger'.commonPool = ledger.commonPool
      BY <1>1, <2>6, ReturnStep
    <3> QED
      BY <2>0, <3>1
  <2>7. ASSUME NEW cs \in SUBSET Addr, NEW rs \in SUBSET Addr, NEW q \in Penalties, OnRuntimeIncorrectResults(cs, rs, q)
        PROVE  ledger'.commonPool >= ledger.commonPool
    BY <1>1, <2>7, IncorrectStep
  <2>8. CASE Commit \/ \E w \in Weights : ChangeParameters(w)
    <3>1. ledger' = ledger
      BY <2>8 DEF Commit, ChangeParameters
    <3> QED
      BY <2>0, <3>1
  <2> QED
    BY <1>1, <2>1, <2>2, <2>3, <2>4, <2>5, <2>6, <2>7, <2>8 DEF Next
<1>2. StakingInv /\ [Next]_vars => [SlashedFundsOnly]_vars
  BY <1>1 DEF SlashedFundsOnly
<1> QED
  BY <1>2, StakingInvariance, PTL DEF Spec

\* What is paid into an escrow with shares is lost to the deposit of its own
\* commission only if the commission is all of it and nothing else is there.
LEMMA PayFails ==
    ASSUME StakingAssumption, NEW l, Sound(l), NEW x \in Addr, NEW a \in Nat, CommonToEscrowFails(l, x, a)
    PROVE  /\ Rate[x] = RateDenominator
           /\ l.active[x].shares # 0 /\ l.active[x].balance = 0
<1>1. PICK q : q = Min({a, l.commonPool})
  OBVIOUS
<1>2. PICK com, b : com = ComputeCommission(x, q) /\ b = l.active[x].balance
  OBVIOUS
<1>3. l.commonPool \in Nat /\ b \in Nat
  BY <1>2, TypedFields DEF Sound, SharePool
<1>4. q \in Nat
  <2>1. CASE a <= l.commonPool
    BY <1>1, <1>3, <2>1, MinOfTwo
  <2>2. CASE l.commonPool <= a
    <3>1. {a, l.commonPool} = {l.commonPool, a}
      OBVIOUS
    <3>2. Min({l.commonPool, a}) = l.commonPool
      BY <1>3, <2>2, MinOfTwo
    <3> QED
      BY <1>1, <1>3, <3>1, <3>2
  <2> QED
    BY <1>3, <2>1, <2>2
<1>5. com \in 0 .. q
  BY <1>2, <1>4, CommissionTyped
<1>6. q # 0 /\ Rate[x] # RateDenominator => com < q
  <2> SUFFICES ASSUME q # 0, Rate[x] # RateDenominator PROVE com < q
    OBVIOUS
  <2>1. PICK r, d : r = Rate[x] /\ d = RateDenominator
    OBVIOUS
  <2>2. r \in Nat /\ d \in Nat \ {0} /\ r < d
    BY <2>1 DEF StakingAssumption
  <2>3. com = (q * r) \div d
    BY <1>2, <2>1 DEF ComputeCommission
  <2>4. q * r \in Nat /\ d * com <= q * r
    BY <1>4, <2>2, <2>3, MulNat, DivNat
  <2>5. \A i, j, c, n \in Nat : i < j /\ n # 0 /\ j * c <= n * i => c < n
    <3> SUFFICES ASSUME NEW i \in Nat, NEW j \in Nat, NEW c \in Nat, NEW n \in Nat, i < j, n # 0, j * c <= n * i, c >= n
                 PROVE  FALSE
      OBVIOUS
    <3>1. j * c >= j * n
      OBVIOUS
    <3>2. j * n > n * i
      OBVIOUS
    <3> QED
      BY <3>1, <3>2
  <2>6. com \in Nat
    BY <1>4, <1>5
  <2> QED
    BY <1>4, <2>2, <2>4, <2>5, <2>6
<1>7. l.active[x].shares # 0 /\ com # 0 /\ b + q - com = 0
  BY <1>1, <1>2 DEF CommonToEscrowFails
<1>8. b = 0 /\ com = q /\ q # 0
  BY <1>3, <1>4, <1>5, <1>7
<1>9. Rate[x] = RateDenominator
  BY <1>4, <1>6, <1>8
<1> QED
  BY <1>2, <1>7, <1>8, <1>9

(* A block fails in two ways only, whatever the parameters: fees were kept   *)
(* and governance has taken their takers away since, or a commission of all  *)
(* that is paid into an escrow leaves it empty after it was slashed to zero. *)
THEOREM FailuresAlwaysExplained == ASSUME StakingAssumption PROVE Spec => []FailuresExplained
<1>1. Init => FailuresExplained
  BY DEF Init, FailuresExplained
<1>2. ASSUME StakingInv, FailuresExplained, [Next]_vars PROVE FailuresExplained'
  <2>1. ASSUME NEW p \in Proposers, NEW V \in VoterSets, NEW bad \in SUBSET Addr, NEW q \in Penalties, BeginBlock(p, V, bad, q)
        PROVE  FailuresExplained'
    <3> SUFFICES ASSUME failed' PROVE FailuresExplained'
      BY DEF FailuresExplained
    <3>1. /\ phase = "begin" /\ phase' = "deliver" /\ DisburseFeesVQFails(ledger)
          /\ UNCHANGED <<ledger, weights, split>>
      BY <2>1 DEF BeginBlock
    <3>2. ledger.lastFees # 0 /\ weights.vote + weights.next = 0
      BY <3>1 DEF DisburseFeesVQFails
    <3>3. split.vote + split.next > 0
      BY <1>2, <3>1, <3>2 DEF StakingInv, FeesSplit
    <3> QED
      BY <3>1, <3>2, <3>3 DEF FailuresExplained
  <2>2. CASE UserTx
    <3>1. ~failed /\ failed' = failed
      BY <1>2, <2>2, UserTxStep
    <3> QED
      BY <3>1 DEF FailuresExplained
  <2>3. ASSUME NEW x \in Addr, NEW y \in Addr, NEW z \in Addr, NEW f \in Fees, NEW q \in Penalties,
               OnRuntimeEquivocation(x, f, y, q, z)
        PROVE  FailuresExplained'
    BY <2>3 DEF OnRuntimeEquivocation, Transaction, FailuresExplained
  <2>4. ASSUME NEW cs \in SUBSET Addr, NEW rs \in SUBSET Addr, NEW q \in Penalties, OnRuntimeIncorrectResults(cs, rs, q)
        PROVE  FailuresExplained'
    <3> SUFFICES ASSUME failed' PROVE FailuresExplained'
      BY DEF FailuresExplained
    <3>0. Sound(ledger) /\ q \in Nat /\ IsFiniteSet(cs) /\ IsFiniteSet(rs) /\ RuntimePercent \in 0 .. 100
      BY <1>2, FS_Subset DEF StakingInv, StakingAssumption
    <3>1. PICK slashed, l : slashed = SumFunctionOnSet(Slashed(ledger, q), cs) /\ l = SlashAll(ledger, cs, q)
      OBVIOUS
    <3>2. DistributionFails(l, slashed, rs) /\ ledger' = ledger /\ phase' = "end"
      BY <2>4, <3>1 DEF OnRuntimeIncorrectResults
    <3>3. /\ Sound(l)
          /\ \A y \in Addr : ActiveSlashed(ledger, l, y, IF y \in cs THEN SlashedOf(ledger, y, q).active ELSE 0)
      BY <3>0, <3>1, SlashAllEffect
    <3>4. slashed \in Nat
      <4>1. \A x \in cs : Slashed(ledger, q)[x] \in Nat
        BY <3>0, SlashedTyped DEF Sound
      <4> QED
        BY <3>0, <3>1, <4>1, SumNat
    <3>5. PICK x \in rs : CommonToEscrowFails(l, x, (slashed - (slashed * RuntimePercent) \div 100) \div Cardinality(rs))
      BY <3>2 DEF DistributionFails
    <3>6. Rate[x] = RateDenominator /\ l.active[x].shares # 0 /\ l.active[x].balance = 0
      <4>1. PICK c, n, o : c = (slashed * RuntimePercent) \div 100 /\ n = Cardinality(rs) /\ o = (slashed - c) \div n
        OBVIOUS
      <4>2. c \in 0 .. slashed
        BY <3>0, <3>4, <4>1, PartOf
      <4>3. n \in Nat \ {0}
        BY <3>0, <3>5, <4>1, FS_CardinalityType, FS_EmptySet
      <4>4. o \in Nat
        <5>1. slashed - c \in Nat
          BY <3>4, <4>2
        <5> QED
          BY <4>1, <4>3, <5>1, DivNat
      <4>5. CommonToEscrowFails(l, x, o)
        BY <3>5, <4>1
      <4> QED
        BY <3>3, <4>4, <4>5, PayFails
    <3>7. ledger.active[x].shares # 0 /\ ledger.active[x].balance \in {0, SlashedOf(ledger, x, q).active}
      <4>1. ledger.active[x].balance \in Nat /\ SlashedOf(ledger, x, q).active \in Int
        BY <3>0, TypedFields, SlashedTyped DEF Sound, SharePool
      <4>2. l.active[x].balance = ledger.active[x].balance - (IF x \in cs THEN SlashedOf(ledger, x, q).active ELSE 0)
            /\ l.active[x].shares = ledger.active[x].shares
        BY <3>3 DEF ActiveSlashed
      <4> QED
        BY <3>6, <4>1, <4>2
    <3>8. SlashedOf(ledger, x, q)' = SlashedOf(ledger, x, q)
      BY <3>2 DEF SlashedOf
    <3> QED
      BY <3>2, <3>6, <3>7, <3>8 DEF FailuresExplained
  <2>5. CASE Commit \/ EndBlocks \/ \E w \in Weights : ChangeParameters(w)
    BY <2>5 DEF Commit, EndBlocks, EndBlock, ChangeParameters, FailuresExplained
  <2>6. CASE \E a \in Amount : DiscardGovernanceDeposit(a) \/ \E x \in Addr : TransferFromGovernanceDeposits(x, a)
    BY <2>6 DEF DiscardGovernanceDeposit, TransferFromGovernanceDeposits, FailuresExplained
  <2>7. CASE UNCHANGED vars
    BY <1>2, <2>7 DEF vars, FailuresExplained, SlashedOf
  <2> QED
    BY <1>2, <2>1, <2>2, <2>3, <2>4, <2>5, <2>6, <2>7 DEF Next
<1> QED
  BY <1>1, <1>2, StakingInvariance, PTL DEF Spec

-----------------------------------------------------------------------------
(***************************************************************************)
(* The vault, for every choice of authorities, policies and recipients and   *)
(* any number of actions: nothing happens to it without a threshold of fresh *)
(* authorizations for this very action.                                      *)
(***************************************************************************)
CONSTANTS Addresses, Recipients, Policies, AuthorityChoices, GenesisAdmin, GenesisSuspend,
          InitialBalance, MaxNonce, MaxHeight

VARIABLES height, balance, vault, pending, policy, signed, taken

Vlt == INSTANCE Vault

\* Seen through the instance, the operators on finite sets are the same ones.
LEMMA VaultFinite == ASSUME NEW S PROVE Vlt!IsFiniteSet(S) <=> IsFiniteSet(S)
BY DEF Vlt!IsFiniteSet, IsFiniteSet

\* The same for the number of elements.
LEMMA VaultCardinality == ASSUME NEW S PROVE Vlt!Cardinality(S) = Cardinality(S)
BY Zenon DEF Vlt!Cardinality, Cardinality

Authority   == [addresses : SUBSET Addresses, threshold : Nat]
Idle        == [kind |-> "none"]
PendingType == [action : Vlt!Actions \cup {Idle}, by : SUBSET Addresses]
PolicyType  == [amount : Nat, interval : Nat, bucket : Nat, used : Nat]

VaultTypes ==
    /\ height \in 1..MaxHeight /\ balance \in 0..InitialBalance
    /\ vault \in [active : BOOLEAN, nonce : 0..MaxNonce, admin : Authority, suspend : Authority]
    /\ Vlt!AuthorityValid(vault.admin) /\ Vlt!AuthorityValid(vault.suspend)
    /\ pending \in [0..MaxNonce -> PendingType]
    /\ policy \in [Recipients -> PolicyType]

\* The authorizations that are counted are fresh: of the current nonce, and for
\* the action that is pending.
VaultInv == VaultTypes /\ Vlt!AuthorizationsNotReused

-----------------------------------------------------------------------------
\* What an action carries.
LEMMA ActionFields ==
    ASSUME Vlt!VaultAssumption, NEW action \in Vlt!Actions
    PROVE  /\ action.kind \in {"suspend", "resume", "message", "policy", "authority"}
           /\ action.kind = "policy" => action.address \in Recipients /\ action.policy \in [amount : Nat, interval : Nat]
           /\ action.kind = "authority" => action.admin \in Vlt!MaybeAuthority /\ action.suspend \in Vlt!MaybeAuthority
BY DEF Vlt!Actions, Vlt!VaultAssumption

\* An authority after an action that may replace it.
LEMMA AuthorityReplaced ==
    ASSUME Vlt!VaultAssumption, NEW new \in Vlt!MaybeAuthority, NEW old \in Authority,
           Vlt!AuthorityValid(old), \A a \in new : Vlt!AuthorityValid(a)
    PROVE  /\ Vlt!Replaced(old, new) \in Authority
           /\ Vlt!AuthorityValid(Vlt!Replaced(old, new))
           /\ Vlt!Replaced(old, new) # old => new = {Vlt!Replaced(old, new)}
<1>1. CASE new = {}
  BY <1>1 DEF Vlt!Replaced
<1>2. CASE \E a \in AuthorityChoices : new = {a}
  <2>1. PICK a \in AuthorityChoices : new = {a}
    BY <1>2
  <2>2. Vlt!Replaced(old, new) = a
    BY <2>1 DEF Vlt!Replaced
  <2>3. a \in Authority
    BY DEF Vlt!VaultAssumption, Authority
  <2> QED
    BY <2>1, <2>2, <2>3
<1> QED
  BY <1>1, <1>2 DEF Vlt!MaybeAuthority

\* More authorizations do not undo a threshold.
LEMMA VerifyMonotone ==
    ASSUME Vlt!VaultAssumption, NEW auth \in Authority, NEW S, NEW T, S \subseteq T, Vlt!Verify(auth, S)
    PROVE  Vlt!Verify(auth, T)
<1>1. IsFiniteSet(auth.addresses)
  <2>1. IsFiniteSet(Addresses) /\ auth.addresses \subseteq Addresses
    BY VaultFinite DEF Vlt!VaultAssumption, Authority
  <2> QED
    BY <2>1, FS_Subset
<1>2. auth.addresses \cap T \subseteq auth.addresses /\ auth.addresses \cap S \subseteq auth.addresses \cap T
  OBVIOUS
<1>3. IsFiniteSet(auth.addresses \cap T) /\ IsFiniteSet(auth.addresses \cap S)
  BY <1>1, <1>2, FS_Subset
<1>4. Cardinality(auth.addresses \cap S) <= Cardinality(auth.addresses \cap T)
  BY <1>2, <1>3, FS_Subset
<1>5. Cardinality(auth.addresses \cap S) \in Nat /\ Cardinality(auth.addresses \cap T) \in Nat
  BY <1>3, FS_CardinalityType
<1>6. auth.threshold \in Nat
  BY DEF Authority
<1>7. Cardinality(auth.addresses \cap S) >= auth.threshold
  BY VaultCardinality DEF Vlt!Verify
<1>8. Cardinality(auth.addresses \cap T) >= auth.threshold
  BY <1>4, <1>5, <1>6, <1>7
<1> QED
  BY <1>8, VaultCardinality DEF Vlt!Verify

LEMMA AuthoritiesTyped ==
    ASSUME VaultTypes, NEW action, NEW auth \in Vlt!Authorities(vault, action)
    PROVE  auth \in Authority
BY DEF VaultTypes, Vlt!Authorities

-----------------------------------------------------------------------------
LEMMA VaultInitInv == ASSUME Vlt!VaultAssumption, Vlt!Init PROVE VaultInv
<1>1. Vlt!NoAction \in PendingType
  BY DEF Vlt!NoAction, PendingType, Idle
<1>2. VaultTypes
  BY <1>1 DEF Vlt!VaultAssumption, Vlt!Init, VaultTypes, Authority, PolicyType
<1>3. Vlt!AuthorizationsNotReused
  BY DEF Vlt!Init, Vlt!AuthorizationsNotReused
<1> QED
  BY <1>2, <1>3 DEF VaultInv

\* An action that is carried out leaves a vault of the next nonce.
LEMMA Executed ==
    ASSUME Vlt!VaultAssumption, VaultTypes, NEW action \in Vlt!Actions, Vlt!ActionValid(action), vault.nonce < MaxNonce,
           Vlt!ExecuteAction(action, [vault EXCEPT !.nonce = @ + 1])
    PROVE  /\ vault' \in [active : BOOLEAN, nonce : 0..MaxNonce, admin : Authority, suspend : Authority]
           /\ Vlt!AuthorityValid(vault'.admin) /\ Vlt!AuthorityValid(vault'.suspend)
           /\ vault'.nonce = vault.nonce + 1
           /\ policy' \in [Recipients -> PolicyType] /\ balance' \in 0..InitialBalance
           /\ Vlt!Explains(action)
<1> DEFINE vlt == [vault EXCEPT !.nonce = @ + 1]
<1>1. /\ vlt \in [active : BOOLEAN, nonce : 0..MaxNonce, admin : Authority, suspend : Authority]
      /\ vlt.nonce = vault.nonce + 1 /\ vlt.admin = vault.admin /\ vlt.suspend = vault.suspend
      /\ vlt.active = vault.active
  BY DEF Vlt!VaultAssumption, VaultTypes
<1>2. /\ vault' = CASE action.kind = "suspend"   -> [vlt EXCEPT !.active = FALSE]
                    [] action.kind = "resume"    -> [vlt EXCEPT !.active = TRUE]
                    [] action.kind = "authority" ->
                           [vlt EXCEPT !.admin = Vlt!Replaced(@, action.admin),
                                       !.suspend = Vlt!Replaced(@, action.suspend)]
                    [] OTHER -> vlt
  BY Zenon DEF Vlt!ExecuteAction
<1> HIDE DEF vlt
<1>3. /\ action.kind = "suspend" => vault' = [vlt EXCEPT !.active = FALSE]
      /\ action.kind = "resume" => vault' = [vlt EXCEPT !.active = TRUE]
      /\ action.kind = "authority" =>
             vault' = [vlt EXCEPT !.admin = Vlt!Replaced(vlt.admin, action.admin),
                                  !.suspend = Vlt!Replaced(vlt.suspend, action.suspend)]
      /\ action.kind \notin {"suspend", "resume", "authority"} => vault' = vlt
  BY <1>2
<1> DEFINE admin == Vlt!Replaced(vault.admin, action.admin)
           suspend == Vlt!Replaced(vault.suspend, action.suspend)
<1>4. ASSUME action.kind = "authority"
      PROVE  /\ admin \in Authority /\ Vlt!AuthorityValid(admin) /\ (admin # vault.admin => action.admin = {admin})
             /\ suspend \in Authority /\ Vlt!AuthorityValid(suspend)
             /\ (suspend # vault.suspend => action.suspend = {suspend})
  <2>1. /\ action.admin \in Vlt!MaybeAuthority /\ action.suspend \in Vlt!MaybeAuthority
        /\ \A a \in action.admin : Vlt!AuthorityValid(a)
        /\ \A a \in action.suspend : Vlt!AuthorityValid(a)
    BY <1>4, ActionFields DEF Vlt!ActionValid
  <2>2. vault.admin \in Authority /\ vault.suspend \in Authority
    BY DEF VaultTypes
  <2> QED
    BY <2>1, <2>2, AuthorityReplaced DEF VaultTypes
<1> HIDE DEF admin, suspend
<1>5. /\ vault' \in [active : BOOLEAN, nonce : 0..MaxNonce, admin : Authority, suspend : Authority]
      /\ vault'.nonce = vault.nonce + 1
      /\ vault'.suspend = IF action.kind = "authority" THEN suspend ELSE vault.suspend
      /\ vault'.admin = IF action.kind = "authority" THEN admin ELSE vault.admin
      /\ action.kind = "suspend" => vault'.active = FALSE
      /\ action.kind = "resume" => vault'.active = TRUE
      /\ action.kind \notin {"suspend", "resume"} => vault'.active = vault.active
  <2>1. CASE action.kind = "authority"
    <3>1. vault' = [vlt EXCEPT !.admin = admin, !.suspend = suspend]
      BY <1>1, <1>3, <2>1 DEF admin, suspend
    <3> QED
      BY <1>1, <1>4, <2>1, <3>1
  <2>2. CASE action.kind # "authority"
    BY <1>1, <1>3, <2>2
  <2> QED
    BY <2>1, <2>2
<1>6. Vlt!AuthorityValid(vault'.admin) /\ Vlt!AuthorityValid(vault'.suspend)
  BY <1>4, <1>5 DEF VaultTypes
<1>7. policy' = IF action.kind # "policy" THEN policy
                ELSE [policy EXCEPT ![action.address] = Vlt!UpdateWithdrawPolicy(@, action.policy)]
  BY DEF Vlt!ExecuteAction
<1>8. CASE action.kind = "policy"
  <2>1. action.address \in Recipients /\ action.policy \in [amount : Nat, interval : Nat]
    BY <1>8, ActionFields
  <2>2. /\ Vlt!UpdateWithdrawPolicy(policy[action.address], action.policy) \in PolicyType
        /\ Vlt!UpdateWithdrawPolicy(policy[action.address], action.policy).amount = action.policy.amount
    BY <2>1 DEF Vlt!UpdateWithdrawPolicy, PolicyType, VaultTypes
  <2>3. policy' = [policy EXCEPT ![action.address] = Vlt!UpdateWithdrawPolicy(policy[action.address], action.policy)]
    BY <1>7, <1>8
  <2>4. policy' \in [Recipients -> PolicyType]
    BY <2>1, <2>2, <2>3 DEF VaultTypes
  <2>5. \A r \in Recipients : policy'[r].amount # policy[r].amount =>
            action.address = r /\ action.policy.amount = policy'[r].amount
    BY <2>1, <2>2, <2>3 DEF VaultTypes
  <2>6. balance' \in 0..InitialBalance
    BY <1>8 DEF Vlt!ExecuteAction, VaultTypes
  <2> QED
    BY <1>4, <1>5, <1>6, <1>8, <2>4, <2>5, <2>6 DEF Vlt!Explains
<1>9. CASE action.kind # "policy"
  <2>1. policy' = policy
    BY <1>7, <1>9
  <2>2. balance' \in 0..balance \/ balance' = balance
    BY DEF Vlt!ExecuteAction
  <2>3. balance' \in 0..InitialBalance
    BY <2>2 DEF VaultTypes, Vlt!VaultAssumption
  <2>4. vault'.active # vault.active => action.kind = IF vault'.active THEN "resume" ELSE "suspend"
    BY <1>5 DEF VaultTypes
  <2> QED
    BY <1>4, <1>5, <1>6, <2>1, <2>3, <2>4 DEF Vlt!Explains, VaultTypes
<1> QED
  BY <1>8, <1>9

\* All that are counted have signed this action under this nonce.
LEMMA AllSigned ==
    ASSUME Vlt!VaultAssumption, VaultInv, NEW addr \in Addresses, NEW nonce \in 0..MaxNonce, NEW action \in Vlt!Actions,
           Vlt!AuthorizeAction(addr, nonce, action)
    PROVE  /\ nonce = vault.nonce
           /\ pending[nonce].by \cup {addr} \subseteq {a \in Addresses : <<a, nonce, action>> \in signed'}
<1>1. /\ nonce = vault.nonce /\ Vlt!PendingAcceptable(nonce, action)
      /\ signed' = signed \cup {<<addr, nonce, action>>}
  BY DEF Vlt!AuthorizeAction
<1>2. pending[nonce].by \subseteq Addresses
  BY DEF VaultInv, VaultTypes, PendingType
<1>3. CASE pending[nonce] = Vlt!NoAction
  BY <1>1, <1>3 DEF Vlt!NoAction
<1>4. CASE pending[nonce] # Vlt!NoAction
  <2>1. pending[nonce].action = action
    BY <1>1, <1>4 DEF Vlt!PendingAcceptable
  <2>2. \A a \in pending[nonce].by : <<a, nonce, action>> \in signed
    BY <1>4, <2>1 DEF VaultInv, Vlt!AuthorizationsNotReused
  <2> QED
    BY <1>1, <1>2, <2>2
<1> QED
  BY <1>3, <1>4

\* Pending actions after that of the current nonce is gone.
LEMMA Removed ==
    ASSUME VaultInv, pending' = Vlt!RemovePendingAction(pending, vault.nonce)
    PROVE  /\ pending' \in [0..MaxNonce -> PendingType]
           /\ Vlt!AuthorizationsNotReused'
<1>1. Vlt!NoAction \in PendingType
  BY DEF Vlt!NoAction, PendingType, Idle
<1>2. \A n \in 0..MaxNonce : pending'[n] = Vlt!NoAction
  BY DEF Vlt!RemovePendingAction, VaultInv, VaultTypes, Vlt!AuthorizationsNotReused
<1> QED
  BY <1>1, <1>2 DEF Vlt!RemovePendingAction, VaultInv, VaultTypes, Vlt!AuthorizationsNotReused

\* One case for an authorization that completes the threshold, one for the rest.
LEMMA Authorized ==
    ASSUME Vlt!VaultAssumption, VaultInv, NEW addr \in Addresses, NEW nonce \in 0..MaxNonce, NEW action \in Vlt!Actions,
           Vlt!AuthorizeAction(addr, nonce, action)
    PROVE  VaultInv' /\ Vlt!ThresholdAuthorized /\ Vlt!NonceUsedOnce
<1> DEFINE by == pending[nonce].by \cup {addr}
           signers == {a \in Addresses : <<a, nonce, action>> \in signed'}
<1>1. nonce = vault.nonce /\ by \subseteq signers
  BY AllSigned
<1>2. /\ Vlt!ActionValid(action) /\ nonce < MaxNonce /\ height' = height
      /\ signed' = signed \cup {<<addr, nonce, action>>}
  BY DEF Vlt!AuthorizeAction
<1>3. CASE Vlt!CanExecute(vault, action, by)
  <2>1. /\ Vlt!ExecuteAction(action, [vault EXCEPT !.nonce = @ + 1])
        /\ pending' = Vlt!RemovePendingAction(pending, vault.nonce)
    BY <1>1, <1>3 DEF Vlt!AuthorizeAction
  <2>2. /\ vault' \in [active : BOOLEAN, nonce : 0..MaxNonce, admin : Authority, suspend : Authority]
        /\ Vlt!AuthorityValid(vault'.admin) /\ Vlt!AuthorityValid(vault'.suspend)
        /\ vault'.nonce = vault.nonce + 1
        /\ policy' \in [Recipients -> PolicyType] /\ balance' \in 0..InitialBalance
        /\ Vlt!Explains(action)
    BY <1>1, <1>2, <2>1, Executed DEF VaultInv
  <2>3. pending' \in [0..MaxNonce -> PendingType] /\ Vlt!AuthorizationsNotReused'
    BY <2>1, Removed
  <2>4. VaultInv'
    BY <1>2, <2>2, <2>3 DEF VaultInv, VaultTypes
  <2>5. PICK auth \in Vlt!Authorities(vault, action) : Vlt!Verify(auth, by)
    BY <1>3 DEF Vlt!CanExecute
  <2>6. Vlt!Verify(auth, signers)
    <3>1. auth \in Authority
      BY AuthoritiesTyped DEF VaultInv
    <3> HIDE DEF by, signers
    <3> QED
      BY <1>1, <2>5, <3>1, VerifyMonotone
  <2>7. Vlt!ThresholdAuthorized
    BY <1>1, <2>2, <2>6 DEF Vlt!ThresholdAuthorized
  <2>8. Vlt!NonceUsedOnce
    BY <2>2 DEF Vlt!NonceUsedOnce, VaultInv, Vlt!AuthorizationsNotReused, VaultTypes, Vlt!VaultAssumption
  <2> QED
    BY <2>4, <2>7, <2>8
<1>4. CASE ~Vlt!CanExecute(vault, action, by)
  <2>1. /\ pending' = [pending EXCEPT ![nonce] = [action |-> action, by |-> by]]
        /\ UNCHANGED <<vault, policy, taken, balance>>
    BY <1>4 DEF Vlt!AuthorizeAction
  <2>2. [action |-> action, by |-> by] \in PendingType /\ [action |-> action, by |-> by] # Vlt!NoAction
    BY <1>1 DEF PendingType, Vlt!NoAction
  <2>3. /\ pending' \in [0..MaxNonce -> PendingType]
        /\ \A n \in 0..MaxNonce : pending'[n] = IF n = nonce THEN [action |-> action, by |-> by] ELSE pending[n]
    BY <2>1, <2>2 DEF VaultInv, VaultTypes
  <2>4. VaultTypes'
    BY <1>2, <2>1, <2>3 DEF VaultInv, VaultTypes
  <2>5. Vlt!AuthorizationsNotReused'
    <3> SUFFICES ASSUME NEW n \in 0..MaxNonce, pending'[n] # Vlt!NoAction
                 PROVE  n = vault.nonce /\ \A a \in pending'[n].by : <<a, n, pending'[n].action>> \in signed'
      BY <2>1 DEF Vlt!AuthorizationsNotReused
    <3>1. CASE n = nonce
      BY <1>1, <2>3, <3>1
    <3>2. CASE n # nonce
      BY <1>1, <2>3, <3>2 DEF VaultInv, Vlt!AuthorizationsNotReused
    <3> QED
      BY <3>1, <3>2
  <2>6. Vlt!ThresholdAuthorized
    BY <2>1 DEF Vlt!ThresholdAuthorized
  <2>7. Vlt!NonceUsedOnce
    BY <2>2, <2>3 DEF Vlt!NonceUsedOnce
  <2> QED
    BY <2>4, <2>5, <2>6, <2>7 DEF VaultInv
<1> QED
  BY <1>3, <1>4

LEMMA Canceled ==
    ASSUME Vlt!VaultAssumption, VaultInv, NEW addr \in Addresses, NEW nonce \in 0..MaxNonce, Vlt!CancelAction(addr, nonce)
    PROVE  VaultInv' /\ Vlt!ThresholdAuthorized /\ Vlt!NonceUsedOnce
<1>1. /\ nonce = vault.nonce /\ nonce < MaxNonce /\ pending[vault.nonce] # Vlt!NoAction
      /\ pending' = Vlt!RemovePendingAction(pending, vault.nonce)
      /\ vault' = [vault EXCEPT !.nonce = @ + 1]
      /\ UNCHANGED <<height, balance, policy, signed, taken>>
  BY DEF Vlt!CancelAction, Vlt!CancelNonce
<1>2. pending' \in [0..MaxNonce -> PendingType] /\ Vlt!AuthorizationsNotReused'
  BY <1>1, Removed
<1>3. /\ vault' \in [active : BOOLEAN, nonce : 0..MaxNonce, admin : Authority, suspend : Authority]
      /\ vault'.nonce = vault.nonce + 1 /\ vault'.admin = vault.admin /\ vault'.suspend = vault.suspend
  BY <1>1, SMTT(30) DEF VaultInv, VaultTypes, Vlt!VaultAssumption
<1>4. VaultInv'
  BY <1>1, <1>2, <1>3 DEF VaultInv, VaultTypes
<1>5. Vlt!ThresholdAuthorized
  <2>1. pending'[vault.nonce] = Vlt!NoAction
    BY <1>1 DEF Vlt!RemovePendingAction, VaultInv, VaultTypes
  <2> QED
    BY <1>1, <2>1 DEF Vlt!ThresholdAuthorized
<1>6. Vlt!NonceUsedOnce
  BY <1>3 DEF Vlt!NonceUsedOnce, VaultInv, Vlt!AuthorizationsNotReused, VaultTypes, Vlt!VaultAssumption
<1> QED
  BY <1>4, <1>5, <1>6

LEMMA Withdrawn ==
    ASSUME Vlt!VaultAssumption, VaultInv, NEW to \in Recipients, NEW amount \in 1..InitialBalance, Vlt!Withdraw(to, amount)
    PROVE  VaultInv' /\ Vlt!ThresholdAuthorized /\ Vlt!NonceUsedOnce
<1> DEFINE p == policy[to]
           q == [p EXCEPT !.bucket = Vlt!Bucket(p, height), !.used = Vlt!Used(p, height) + amount]
<1>1. /\ Vlt!AuthorizeWithdrawal(p, height, amount) /\ amount <= balance /\ balance' = balance - amount
      /\ policy' = [policy EXCEPT ![to] = q]
      /\ UNCHANGED <<height, vault, pending, signed>>
  BY DEF Vlt!Withdraw
<1>2. p \in PolicyType /\ p.interval > 0 /\ height \in Nat
  BY <1>1 DEF Vlt!AuthorizeWithdrawal, VaultInv, VaultTypes, Vlt!VaultAssumption
<1>3. p.interval \in Nat /\ p.interval # 0 /\ p.used \in Nat
  BY <1>2 DEF PolicyType
<1>4. Vlt!Bucket(p, height) \in Nat
  BY <1>2, <1>3 DEF Vlt!Bucket
<1>5. Vlt!Used(p, height) + amount \in Nat
  BY <1>3 DEF Vlt!Used
<1>6. q \in PolicyType /\ q.amount = p.amount
  BY <1>2, <1>4, <1>5 DEF PolicyType
<1>7. /\ policy' \in [Recipients -> PolicyType]
      /\ \A r \in Recipients : policy'[r].amount = policy[r].amount
  <2> HIDE DEF q
  <2> QED
    BY <1>1, <1>6 DEF VaultInv, VaultTypes
<1>8. balance' \in 0..InitialBalance
  BY <1>1 DEF VaultInv, VaultTypes, Vlt!VaultAssumption
<1>9. VaultInv'
  BY <1>1, <1>7, <1>8 DEF VaultInv, VaultTypes, Vlt!AuthorizationsNotReused
<1>10. Vlt!ThresholdAuthorized /\ Vlt!NonceUsedOnce
  BY <1>1, <1>7 DEF Vlt!ThresholdAuthorized, Vlt!NonceUsedOnce
<1> QED
  BY <1>9, <1>10

\* Every step keeps the invariant and does nothing that was not authorized.
LEMMA VaultStepInv ==
    ASSUME Vlt!VaultAssumption, VaultInv, [Vlt!Next]_(Vlt!vars)
    PROVE  VaultInv' /\ (UNCHANGED Vlt!vars \/ (Vlt!ThresholdAuthorized /\ Vlt!NonceUsedOnce))
<1>1. CASE \E addr \in Addresses, nonce \in 0..MaxNonce, action \in Vlt!Actions : Vlt!AuthorizeAction(addr, nonce, action)
  BY <1>1, Authorized
<1>2. CASE \E addr \in Addresses, nonce \in 0..MaxNonce : Vlt!CancelAction(addr, nonce)
  BY <1>2, Canceled
<1>3. CASE \E to \in Recipients, amount \in 1..InitialBalance : Vlt!Withdraw(to, amount)
  BY <1>3, Withdrawn
<1>4. CASE Vlt!NextBlock
  <2>1. VaultTypes'
    BY <1>4 DEF Vlt!NextBlock, VaultInv, VaultTypes, Vlt!VaultAssumption
  <2>2. Vlt!AuthorizationsNotReused' /\ Vlt!ThresholdAuthorized /\ Vlt!NonceUsedOnce
    BY <1>4 DEF Vlt!NextBlock, VaultInv, Vlt!AuthorizationsNotReused, Vlt!ThresholdAuthorized, Vlt!NonceUsedOnce
  <2> QED
    BY <2>1, <2>2 DEF VaultInv
<1>5. CASE UNCHANGED Vlt!vars
  BY <1>5 DEF Vlt!vars, VaultInv, VaultTypes, Vlt!AuthorizationsNotReused
<1> QED
  BY <1>1, <1>2, <1>3, <1>4, <1>5 DEF Vlt!Next

-----------------------------------------------------------------------------
\* The invariant that the other results follow from.
THEOREM VaultInvariance == ASSUME Vlt!VaultAssumption PROVE Vlt!Spec => []VaultInv
<1>1. Vlt!Init => VaultInv
  BY VaultInitInv
<1>2. VaultInv /\ [Vlt!Next]_(Vlt!vars) => VaultInv'
  BY VaultStepInv
<1> QED
  BY <1>1, <1>2, PTL DEF Vlt!Spec

\* Every variable stays in its type; the authorities of a vault stay valid.
THEOREM VaultTypeCorrect == ASSUME Vlt!VaultAssumption PROVE Vlt!Spec => []Vlt!TypeOK
<1>1. VaultInv => Vlt!TypeOK
  BY DEF VaultInv, VaultTypes, Vlt!TypeOK, PendingType
<1> QED
  BY <1>1, VaultInvariance, PTL

\* An authorization is counted for the action and the nonce that it was given
\* for and never again.
THEOREM NeverReused == ASSUME Vlt!VaultAssumption PROVE Vlt!Spec => []Vlt!AuthorizationsNotReused
<1>1. VaultInv => Vlt!AuthorizationsNotReused
  BY DEF VaultInv
<1> QED
  BY <1>1, VaultInvariance, PTL

\* Nothing about a vault changes without a threshold of one of its authorities
\* for exactly this change, other than that a pending action is canceled.
THEOREM AlwaysAuthorized == ASSUME Vlt!VaultAssumption PROVE Vlt!Spec => [][Vlt!ThresholdAuthorized]_(Vlt!vars)
<1>1. VaultInv /\ [Vlt!Next]_(Vlt!vars) => [Vlt!ThresholdAuthorized]_(Vlt!vars)
  BY VaultStepInv
<1> QED
  BY <1>1, VaultInvariance, PTL DEF Vlt!Spec

\* A nonce is used up when its action is executed or canceled.
THEOREM NoncesUsedOnce == ASSUME Vlt!VaultAssumption PROVE Vlt!Spec => [][Vlt!NonceUsedOnce]_(Vlt!vars)
<1>1. VaultInv /\ [Vlt!Next]_(Vlt!vars) => [Vlt!NonceUsedOnce]_(Vlt!vars)
  BY VaultStepInv
<1> QED
  BY <1>1, VaultInvariance, PTL DEF Vlt!Spec
==============================================================================

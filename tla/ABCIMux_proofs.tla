--------------------------- MODULE ABCIMux_proofs ---------------------------
(***************************************************************************)
(* The ABCI multiplexer, for every set of blocks, good and bad, of any       *)
(* number of transactions, every number of versions to keep, of heights and  *)
(* of faults: what CometBFT gets is right, and the multiplexer implements    *)
(* the replicated ledger.  Further down, the secrets of the key manager.     *)
(***************************************************************************)
EXTENDS ABCIMux, FiniteSets, FiniteSetTheorems, SequenceTheorems, WellFoundedInduction, TLAPS

Named == Nat \X (Blocks \cup {"none"})

\* The first k steps of a block, and the results that are left after k of them.
Steps(b, k) == [i \in 1..k |-> <<b, i - 1>>]
Rest(b, k)  == [i \in 1..NumTxs[b[2]] + 3 - k |-> <<b, i - 1 + k>>]

\* The state that the next block is executed on is always that of the last
\* commit, however many proposals were executed in between.
StateInv ==
    /\ initState <=> stateRoot.height = 0
    /\ canonicalState = StateOf(stateRoot)

\* Blocks are decided in order, and those whose execution panics are not.
ChainInv == \A i \in 1..Len(chain) : chain[i] \in {i} \X (Blocks \ Bad)

\* What is kept between two decisions is nothing, or a block of this height
\* with its results, executed on the committed state.
IsKept(p, b, tree) ==
    /\ p.executed /\ p.hash \in {NoBlock, b} /\ p.header \in {NoBlock, b}
    /\ p.tree = tree \o Execute(b) /\ p.results = Results(b)

KeptInv ==
    stage = 0 =>
        \/ ~proposal.executed /\ proposal.hash = NoBlock /\ proposal.header = NoBlock
        \/ \E id \in Blocks \ Bad : IsKept(proposal, <<Height, id>>, StateOf(stateRoot))

\* How far the decided block has got: what was returned are the results up to
\* the stage, and the rest is kept or is still to be executed.
TreeSteps(at, n) == IF at = Ended THEN n + 2 ELSE IF at <= n + 1 THEN at ELSE n + 1

StageInv ==
    stage # 0 =>
        LET n == NumTxs[Decided[2]] IN
        /\ Len(chain) > stateRoot.height
        /\ stage \in 1..n + 2 \cup {Ended}
        /\ returned = Steps(Decided, IF stage = Ended THEN n + 3 ELSE stage)
        /\ proposal.executed =>
               /\ proposal.tree = StateOf(stateRoot) \o Execute(Decided)
               /\ stage # Ended => proposal.results = Rest(Decided, stage)
        /\ ~proposal.executed =>
               proposal.tree = StateOf(stateRoot) \o Steps(Decided, TreeSteps(stage, n))

\* The pruner stays behind the commits, the handlers and, unless it has exposed
\* itself, the last sync, and the block store behind the pruner.
PruneInv ==
    /\ latest \in {0, stateRoot.height} /\ earliest <= stateRoot.height /\ pruned <= stateRoot.height
    /\ synced.earliest <= synced.height
    /\ (earliest = 0 => stateRoot.height = 0) /\ (synced.earliest = 0 => synced.height = 0)
    /\ lastRetained <= stateRoot.height /\ base <= stateRoot.height + 1
    /\ ~exposed => lastRetained <= synced.height + 1 /\ base <= synced.height + 1
    /\ indexed < stateRoot.height => earliest <= indexed + 1
    /\ indexed < synced.height => synced.earliest <= indexed + 1

IInv ==
    /\ TypeOK /\ StateInv /\ ChainInv /\ KeptInv /\ StageInv /\ PruneInv
    /\ VerdictRight /\ ~panicked

-----------------------------------------------------------------------------
(***************************************************************************)
(* Traces.                                                                   *)
(***************************************************************************)
LEMMA StepsTyped ==
    ASSUME NEW b \in Nat \X Blocks, NEW k \in Nat
    PROVE  Steps(b, k) \in Seq(Step) /\ Len(Steps(b, k)) = k
<1>1. \A i \in 1..k : <<b, i - 1>> \in Step
  BY DEF Step
<1>2. Steps(b, k) \in [1..k -> Step]
  BY <1>1 DEF Steps
<1> QED
  BY <1>2, SeqDef, LenProperties

LEMMA AppendSteps ==
    ASSUME NEW b \in Nat \X Blocks, NEW k \in Nat
    PROVE  Append(Steps(b, k), <<b, k>>) = Steps(b, k + 1)
<1> DEFINE s == Append(Steps(b, k), <<b, k>>)
           t == Steps(b, k + 1)
<1>1. <<b, k>> \in Step
  BY DEF Step
<1>2. /\ s \in Seq(Step) /\ Len(s) = k + 1
      /\ \A i \in 1..k : s[i] = Steps(b, k)[i]
      /\ s[k + 1] = <<b, k>>
  <2>1. Steps(b, k) \in Seq(Step) /\ Len(Steps(b, k)) = k
    BY StepsTyped
  <2> QED
    BY <1>1, <2>1, AppendProperties
<1>3. t \in Seq(Step) /\ Len(t) = k + 1
  BY StepsTyped
<1>4. \A i \in 1..k + 1 : s[i] = t[i]
  BY <1>2 DEF Steps
<1> HIDE DEF s, t
<1>5. s = t
  BY <1>2, <1>3, <1>4, SeqEqual
<1> QED
  BY <1>5 DEF s, t

LEMMA PrefixOfSteps ==
    ASSUME NEW b \in Nat \X Blocks, NEW m \in Nat, NEW k \in 0..m
    PROVE  SubSeq(Steps(b, m), 1, k) = Steps(b, k)
<1> DEFINE s == SubSeq(Steps(b, m), 1, k)
           t == Steps(b, k)
<1>1. \A i \in 1..k : t[i] = <<b, i - 1>> /\ Steps(b, m)[i] = <<b, i - 1>> /\ 1 + i - 1 = i
  BY DEF Steps
<1>2. \A i \in 1..k : Steps(b, m)[i] \in Step
  BY <1>1 DEF Step
<1>3. k \in Int /\ 1 \in Int /\ (IF 1 <= k THEN k - 1 + 1 ELSE 0) = k /\ k - 1 + 1 = k
  OBVIOUS
<1>4. s \in Seq(Step) /\ Len(s) = k /\ \A i \in 1..k : s[i] = Steps(b, m)[1 + i - 1]
  BY <1>2, <1>3, SubSeqProperties
<1>5. t \in Seq(Step) /\ Len(t) = k
  BY StepsTyped
<1>6. \A i \in 1..k : s[i] = t[i]
  BY <1>1, <1>4
<1> HIDE DEF s, t
<1>7. s = t
  BY <1>4, <1>5, <1>6, SeqEqual
<1> QED
  BY <1>7 DEF s, t

LEMMA AppendToTree ==
    ASSUME NEW base_ \in Seq(Step), NEW b \in Nat \X Blocks, NEW k \in Nat
    PROVE  Append(base_ \o Steps(b, k), <<b, k>>) = base_ \o Steps(b, k + 1)
<1>1. <<b, k>> \in Step /\ <<<<b, k>>>> \in Seq(Step)
  BY DEF Step
<1>2. Steps(b, k) \in Seq(Step)
  BY StepsTyped
<1>3. base_ \o Steps(b, k) \in Seq(Step)
  BY <1>2, ConcatProperties
<1>4. Append(base_ \o Steps(b, k), <<b, k>>) = (base_ \o Steps(b, k)) \o <<<<b, k>>>>
  BY <1>1, <1>3, AppendIsConcat
<1>5. (base_ \o Steps(b, k)) \o <<<<b, k>>>> = base_ \o (Steps(b, k) \o <<<<b, k>>>>)
  BY <1>1, <1>2, ConcatAssociative, SMTT(30)
<1>6. Steps(b, k) \o <<<<b, k>>>> = Steps(b, k + 1)
  BY <1>1, <1>2, AppendIsConcat, AppendSteps
<1> QED
  BY <1>4, <1>5, <1>6

LEMMA FirstStep ==
    ASSUME NEW base_ \in Seq(Step), NEW b \in Nat \X Blocks
    PROVE  /\ Append(base_, <<b, 0>>) = base_ \o Steps(b, 1)
           /\ <<<<b, 0>>>> = Steps(b, 1)
<1>1. <<b, 0>> \in Step
  BY DEF Step
<1>2. <<<<b, 0>>>> = Steps(b, 1)
  <2>1. <<<<b, 0>>>> \in Seq(Step) /\ Len(<<<<b, 0>>>>) = 1 /\ <<<<b, 0>>>>[1] = <<b, 0>>
    BY <1>1
  <2>2. Steps(b, 1) \in Seq(Step) /\ Len(Steps(b, 1)) = 1
    BY StepsTyped
  <2>3. Steps(b, 1)[1] = <<b, 0>>
    BY DEF Steps
  <2> QED
    BY <2>1, <2>2, <2>3, SeqEqual
<1> QED
  BY <1>1, <1>2, AppendIsConcat

LEMMA RestTyped ==
    ASSUME NEW b \in Nat \X Blocks, NEW k \in 0..NumTxs[b[2]] + 3
    PROVE  /\ NumTxs[b[2]] \in Nat
           /\ Rest(b, k) \in Seq(Step) /\ Len(Rest(b, k)) = NumTxs[b[2]] + 3 - k
           /\ Rest(b, 0) = Results(b)
<1>1. NumTxs[b[2]] \in Nat
  BY ABCIMuxAssumed DEF ABCIMuxAssumption, Blocks
<1> DEFINE m == NumTxs[b[2]] + 3 - k
<1>2. m \in Nat
  BY <1>1
<1>3. \A i \in 1..m : <<b, i - 1 + k>> \in Step
  BY <1>1 DEF Step
<1>4. Rest(b, k) \in [1..m -> Step]
  BY <1>3 DEF Rest
<1>5. Rest(b, k) \in Seq(Step) /\ Len(Rest(b, k)) = m
  BY <1>2, <1>4, SeqDef, LenProperties
<1>6. Rest(b, 0) = Results(b)
  BY <1>1 DEF Rest, Results
<1> QED
  BY <1>1, <1>5, <1>6

LEMMA TakeResult ==
    ASSUME NEW b \in Nat \X Blocks, NEW k \in 0..NumTxs[b[2]] + 2
    PROVE  Head(Rest(b, k)) = <<b, k>> /\ Tail(Rest(b, k)) = Rest(b, k + 1)
<1>1. NumTxs[b[2]] \in Nat
  BY ABCIMuxAssumed DEF ABCIMuxAssumption, Blocks
<1> DEFINE s == Rest(b, k)
           t == Rest(b, k + 1)
<1>2. s \in Seq(Step) /\ Len(s) = NumTxs[b[2]] + 3 - k
  BY <1>1, RestTyped
<1>3. t \in Seq(Step) /\ Len(t) = NumTxs[b[2]] + 2 - k
  BY <1>1, RestTyped
<1>4. s # <<>>
  BY <1>1, <1>2
<1>5. /\ Tail(s) \in Seq(Step) /\ Len(Tail(s)) = NumTxs[b[2]] + 2 - k
      /\ \A i \in 1..Len(Tail(s)) : Tail(s)[i] = s[i + 1]
  BY <1>1, <1>2, <1>4, HeadTailProperties
<1>6. \A i \in 1..Len(Tail(s)) : s[i + 1] = t[i]
  <2> TAKE i \in 1..Len(Tail(s))
  <2>1. i \in Int /\ 1 <= i /\ i <= NumTxs[b[2]] + 2 - k
    BY <1>1, <1>5
  <2>2. s[i + 1] = <<b, i + k>>
    BY <1>1, <2>1 DEF Rest
  <2>3. t[i] = <<b, i + k>>
    BY <1>1, <2>1 DEF Rest
  <2> QED
    BY <2>2, <2>3
<1>7. s[1] = <<b, k>>
  BY <1>1 DEF Rest
<1>8. Head(s) = s[1]
  BY <1>2, <1>4
<1> HIDE DEF s, t
<1>9. Tail(s) = t
  BY <1>3, <1>5, <1>6, SeqEqual
<1> QED
  BY <1>7, <1>8, <1>9 DEF s, t

-----------------------------------------------------------------------------
(***************************************************************************)
(* The invariant.                                                            *)
(***************************************************************************)
LEMMA TreesTyped ==
    ASSUME TypeOK
    PROVE  /\ Genesis \in Seq(Step) /\ StateOf(stateRoot) \in Seq(Step) /\ StateOf(synced) \in Seq(Step)
           /\ StateInv => Restored = StateOf(stateRoot)
<1>1. <<<<0, "genesis">>, 0>> \in Step
  BY DEF Step
<1>2. Genesis \in Seq(Step)
  BY <1>1 DEF Genesis
<1> QED
  BY <1>2 DEF TypeOK, StateOf, StateInv, Restored

LEMMA InitInv == Init => IInv
<1> SUFFICES ASSUME Init PROVE IInv
  OBVIOUS
<1> USE ABCIMuxAssumed DEF ABCIMuxAssumption, Init
<1>1. TypeOK
  <2>1. <<<<0, "genesis">>, 0>> \in Step
    BY DEF Step
  <2>2. Genesis \in Seq(Step)
    BY <2>1 DEF Genesis
  <2>3. NoBlock \in Nat \X (Blocks \cup {"none"})
    BY DEF NoBlock
  <2>4. chain \in Seq((1..MaxHeight) \X Blocks) /\ Len(chain) \in stateRoot.height..MaxHeight
    OBVIOUS
  <2>5. <<>> \in Seq(Step)
    OBVIOUS
  <2>6. proposal \in [hash : Nat \X (Blocks \cup {"none"}), header : Nat \X (Blocks \cup {"none"}),
                     tree : Seq(Step), results : Seq(Step), executed : BOOLEAN, nil : BOOLEAN]
    BY <2>3, <2>5 DEF NilProposal
  <2>7. verdict \in [block : Nat \X (Blocks \cup {"none"}), accept : BOOLEAN]
    BY <2>3
  <2>8. /\ synced \in [height : 0..stateRoot.height, tree : Seq(Step), earliest : 0..MaxHeight]
        /\ stateRoot \in [height : 0..MaxHeight, tree : Seq(Step)]
    BY <2>5
  <2>9. /\ base \in 1..MaxHeight + 1 /\ stage \in Nat \cup {Ended} /\ returned \in Seq(Step)
        /\ canonicalState \in Seq(Step)
    BY <2>2, <2>5
  <2>10. {earliest, latest, lastRetained, pruned, indexed} \subseteq 0..MaxHeight
    OBVIOUS
  <2>11. initState \in BOOLEAN /\ panicked \in BOOLEAN /\ known \in BOOLEAN /\ exposed \in BOOLEAN
    BY Zenon
  <2>12. faults \in 0..MaxFaults
    OBVIOUS
  <2> QED
    BY <2>4, <2>6, <2>7, <2>8, <2>9, <2>10, <2>11, <2>12 DEF TypeOK
<1>2. StateInv /\ ChainInv
  <2>1. initState /\ stateRoot.height = 0
    OBVIOUS
  <2>2. canonicalState = StateOf(stateRoot)
    BY DEF StateOf
  <2>3. ChainInv
    BY DEF ChainInv
  <2> QED
    BY <2>1, <2>2, <2>3 DEF StateInv
<1>3. KeptInv
  BY DEF KeptInv, NilProposal
<1>4. StageInv
  BY DEF StageInv
<1>5. PruneInv
  BY DEF PruneInv
<1>6. VerdictRight
  BY DEF VerdictRight
<1> QED
  BY <1>1, <1>2, <1>3, <1>4, <1>5, <1>6 DEF IInv
\* The type of a proposal.
Kept == [hash : Nat \X (Blocks \cup {"none"}), header : Nat \X (Blocks \cup {"none"}),
         tree : Seq(Step), results : Seq(Step), executed : BOOLEAN, nil : BOOLEAN]

LEMMA BlocksTyped ==
    ASSUME NEW b \in Nat \X Blocks
    PROVE  /\ NumTxs[b[2]] \in Nat
           /\ Execute(b) = Steps(b, NumTxs[b[2]] + 2) /\ Results(b) = Steps(b, NumTxs[b[2]] + 3)
           /\ Execute(b) \in Seq(Step) /\ Results(b) \in Seq(Step)
           /\ b \in Nat \X (Blocks \cup {"none"})
           /\ NoBlock \in Nat \X (Blocks \cup {"none"})
<1>1. NumTxs[b[2]] \in Nat
  BY ABCIMuxAssumed DEF ABCIMuxAssumption, Blocks
<1>2. Execute(b) = Steps(b, NumTxs[b[2]] + 2) /\ Results(b) = Steps(b, NumTxs[b[2]] + 3)
  BY DEF Execute, Results, Steps
<1>3. Execute(b) \in Seq(Step) /\ Results(b) \in Seq(Step)
  BY <1>1, <1>2, StepsTyped
<1>4. NoBlock \in Nat \X (Blocks \cup {"none"})
  BY DEF NoBlock
<1> QED
  BY <1>1, <1>2, <1>3, <1>4

LEMMA ProposalsTyped ==
    ASSUME NEW t \in Seq(Step)
    PROVE  /\ NilProposal \in Kept /\ Fresh(t) \in Kept
           /\ Fresh(t).hash = NoBlock /\ Fresh(t).header = NoBlock /\ ~Fresh(t).executed
           /\ Fresh(t).tree = t
           /\ \A b \in Nat \X Blocks : \A hash, header \in {NoBlock, b} :
                  /\ Executed(hash, header, t, b) \in Kept
                  /\ IsKept(Executed(hash, header, t, b), b, t)
<1>1. NoBlock \in Nat \X (Blocks \cup {"none"}) /\ <<>> \in Seq(Step)
  BY DEF NoBlock
<1>2. NilProposal \in Kept
  BY <1>1 DEF NilProposal, Kept
<1>3. /\ Fresh(t) \in Kept /\ Fresh(t).hash = NoBlock /\ Fresh(t).header = NoBlock
      /\ ~Fresh(t).executed /\ Fresh(t).tree = t
  BY <1>1, <1>2 DEF Fresh, NilProposal, Kept
<1>4. ASSUME NEW b \in Nat \X Blocks, NEW hash \in {NoBlock, b}, NEW header \in {NoBlock, b}
      PROVE  /\ Executed(hash, header, t, b) \in Kept
             /\ IsKept(Executed(hash, header, t, b), b, t)
  <2>1. Execute(b) \in Seq(Step) /\ Results(b) \in Seq(Step)
    BY BlocksTyped
  <2>2. t \o Execute(b) \in Seq(Step)
    BY <2>1, ConcatProperties
  <2>3. hash \in Nat \X (Blocks \cup {"none"}) /\ header \in Nat \X (Blocks \cup {"none"})
    BY <1>1
  <2> QED
    BY <2>1, <2>2, <2>3 DEF Executed, Kept, IsKept
<1> QED
  BY <1>2, <1>3, <1>4

\* A block of the next height that is not bad.
LEMMA HeightTyped ==
    ASSUME TypeOK, NEW id \in Blocks
    PROVE  /\ Height \in Nat \ {0} /\ <<Height, id>> \in Nat \X Blocks /\ <<Height, id>> # NoBlock
<1>1. stateRoot.height \in Nat
  BY ABCIMuxAssumed DEF ABCIMuxAssumption, TypeOK
<1>2. Height \in Nat \ {0}
  BY <1>1 DEF Height
<1> QED
  BY <1>2 DEF NoBlock

\* The decided block, while there is one that is not committed.
LEMMA DecidedTyped ==
    ASSUME TypeOK, ChainInv, Len(chain) > stateRoot.height
    PROVE  /\ Decided \in Nat \X Blocks /\ Decided[1] = Height /\ Decided[2] \in Blocks \ Bad
           /\ Decided = <<Height, Decided[2]>> /\ Decided # NoBlock /\ Height \in Nat \ {0} /\ Height <= MaxHeight
<1>1. stateRoot.height \in Nat /\ Len(chain) \in Nat /\ Len(chain) <= MaxHeight /\ MaxHeight \in Nat
  BY ABCIMuxAssumed DEF ABCIMuxAssumption, TypeOK
<1>2. Height \in 1..Len(chain) /\ Height \in Nat \ {0} /\ Height <= MaxHeight
  BY <1>1 DEF Height
<1>3. Decided \in {Height} \X (Blocks \ Bad)
  BY <1>2 DEF ChainInv, Decided
<1>4. Decided[1] = Height /\ Decided[2] \in Blocks \ Bad /\ Decided = <<Height, Decided[2]>>
  BY <1>3
<1> QED
  BY <1>2, <1>3, <1>4 DEF NoBlock
-----------------------------------------------------------------------------
\* A step that only replaces the proposal, between two decisions.
LEMMA ProposalStep ==
    ASSUME IInv, stage = 0, UNCHANGED <<chainVars, stateVars, pruneVars, faults, panicked>>,
           proposal' \in Kept, canonicalState' = StateOf(stateRoot), KeptInv',
           verdict' \in [block : Nat \X (Blocks \cup {"none"}), accept : BOOLEAN], VerdictRight'
    PROVE  IInv'
<1> USE DEF chainVars, stateVars, pruneVars
<1>1. TypeOK'
  <2>1. canonicalState' \in Seq(Step)
    BY TreesTyped DEF IInv
  <2> QED
    BY <2>1 DEF IInv, TypeOK, Kept
<1>2. StateInv'
  BY DEF IInv, StateInv, StateOf
<1>3. ChainInv' /\ ~panicked'
  BY DEF IInv, ChainInv
<1>4. StageInv'
  BY DEF StageInv
<1>5. PruneInv'
  BY DEF IInv, PruneInv
<1> QED
  BY <1>1, <1>2, <1>3, <1>4, <1>5 DEF IInv

LEMMA PrepareStep ==
    ASSUME IInv, NEW id \in Own, PrepareProposal(id)
    PROVE  IInv'
<1> DEFINE b == <<Height, id>>
<1>1. id \in Blocks
  BY DEF Blocks
<1>2. stage = 0 /\ UNCHANGED <<chainVars, stateVars, pruneVars, faults, panicked, verdict>>
  BY DEF PrepareProposal, Proposing
<1>3. Restored = StateOf(stateRoot) /\ canonicalState = StateOf(stateRoot) /\ StateOf(stateRoot) \in Seq(Step)
  BY TreesTyped DEF IInv, StateInv
<1>4. b \in Nat \X Blocks
  BY <1>1, HeightTyped DEF IInv
<1>5. Height' = Height /\ StateOf(stateRoot)' = StateOf(stateRoot)
  BY <1>2 DEF stateVars, Height, StateOf
<1>6. proposal' \in Kept /\ KeptInv'
  <2>1. CASE id \in Bad
    <3>1. proposal' = Fresh(StateOf(stateRoot))
      BY <1>3, <2>1 DEF PrepareProposal
    <3> QED
      BY <1>3, <3>1, ProposalsTyped DEF KeptInv
  <2>2. CASE id \notin Bad
    <3>1. proposal' = Executed(NoBlock, b, StateOf(stateRoot), b)
      BY <1>3, <2>2 DEF PrepareProposal
    <3>2. proposal' \in Kept /\ IsKept(proposal', b, StateOf(stateRoot))
      BY <1>3, <1>4, <3>1, ProposalsTyped
    <3>3. id \in Blocks \ Bad
      BY <1>1, <2>2
    <3> QED
      BY <1>5, <3>2, <3>3, ZenonT(30) DEF KeptInv, IsKept, Execute, Results
  <2> QED
    BY <2>1, <2>2
<1>7. canonicalState' = StateOf(stateRoot)
  BY <1>3 DEF PrepareProposal
<1>8. verdict' \in [block : Nat \X (Blocks \cup {"none"}), accept : BOOLEAN] /\ VerdictRight'
  BY <1>2 DEF IInv, TypeOK, VerdictRight
<1> QED
  BY <1>2, <1>6, <1>7, <1>8, ProposalStep

LEMMA ProcessStep ==
    ASSUME IInv, NEW id \in Blocks, ProcessProposal(id)
    PROVE  IInv'
<1> DEFINE b == <<Height, id>>
           cached == ~proposal.nil /\ ~NeedsExecution(proposal) /\ IsEqual(proposal, b)
<1>1. stage = 0 /\ UNCHANGED <<chainVars, stateVars, pruneVars, faults, panicked>>
  BY DEF ProcessProposal, Proposing
<1>2. Restored = StateOf(stateRoot) /\ canonicalState = StateOf(stateRoot) /\ StateOf(stateRoot) \in Seq(Step)
  BY TreesTyped DEF IInv, StateInv
<1>3. b \in Nat \X Blocks /\ b # NoBlock /\ b[2] = id
  BY HeightTyped DEF IInv
<1>4. Height' = Height /\ StateOf(stateRoot)' = StateOf(stateRoot)
  BY <1>1 DEF stateVars, Height, StateOf
<1>5. /\ verdict' = [block |-> b, accept |-> cached \/ id \notin Bad]
      /\ proposal' = IF cached THEN [proposal EXCEPT !.hash = b]
                     ELSE IF id \in Bad THEN Fresh(Restored)
                     ELSE Executed(b, NoBlock, canonicalState, b)
      /\ canonicalState' = IF cached THEN canonicalState ELSE Restored
  BY DEF ProcessProposal
<1>6. ASSUME cached
      PROVE  /\ id \notin Bad
             /\ IsKept([proposal EXCEPT !.hash = b], b, StateOf(stateRoot))
             /\ [proposal EXCEPT !.hash = b] \in Kept
  <2>1. proposal.executed /\ proposal.header = b
    BY <1>6 DEF NeedsExecution, IsEqual
  <2>2. PICK k \in Blocks \ Bad : IsKept(proposal, <<Height, k>>, StateOf(stateRoot))
    BY <1>1, <2>1 DEF IInv, KeptInv
  <2>3. k = id
    BY <1>3, <2>1, <2>2 DEF IsKept
  <2>4. proposal \in Kept /\ b \in Nat \X (Blocks \cup {"none"})
    BY <1>3 DEF IInv, TypeOK, Kept
  <2>5. IsKept(proposal, b, StateOf(stateRoot)) /\ id \notin Bad
    BY <2>2, <2>3
  <2> HIDE DEF b
  <2> QED
    BY <2>4, <2>5 DEF IsKept, Kept
<1> HIDE DEF cached
<1>7. proposal' \in Kept /\ KeptInv'
  <2>1. CASE id \in Bad
    <3>1. ~cached /\ proposal' = Fresh(StateOf(stateRoot))
      BY <1>2, <1>5, <1>6, <2>1
    <3> QED
      BY <1>2, <3>1, ProposalsTyped DEF KeptInv
  <2>2. CASE id \notin Bad
    <3>1. proposal' \in Kept /\ IsKept(proposal', b, StateOf(stateRoot))
      <4>1. CASE cached
        BY <1>5, <1>6, <4>1
      <4>2. CASE ~cached
        <5>1. proposal' = Executed(b, NoBlock, StateOf(stateRoot), b)
          BY <1>2, <1>5, <2>2, <4>2
        <5> QED
          BY <1>2, <1>3, <5>1, ProposalsTyped
      <4> QED
        BY <4>1, <4>2
    <3>2. id \in Blocks \ Bad
      BY <2>2
    <3> QED
      BY <1>4, <3>1, <3>2 DEF KeptInv, IsKept, Execute, Results
  <2> QED
    BY <2>1, <2>2
<1>8. canonicalState' = StateOf(stateRoot)
  BY <1>2, <1>5
<1>9. verdict' = [block |-> b, accept |-> id \notin Bad]
  <2>1. cached \/ id \notin Bad <=> id \notin Bad
    BY <1>6
  <2>2. (cached \/ id \notin Bad) = (id \notin Bad)
    BY <2>1, Zenon DEF cached
  <2> QED
    BY <1>5, <2>2, Zenon
<1>10. verdict' \in [block : Nat \X (Blocks \cup {"none"}), accept : BOOLEAN]
  <2>1. b \in Nat \X (Blocks \cup {"none"})
    BY <1>3
  <2> QED
    BY <1>9, <2>1
<1>11. VerdictRight'
  BY <1>3, <1>9 DEF VerdictRight
<1> QED
  BY <1>1, <1>7, <1>8, <1>10, <1>11, ProposalStep
LEMMA DecideStep ==
    ASSUME IInv, NEW id \in Blocks, Decide(id)
    PROVE  IInv'
<1> DEFINE b == <<Height, id>>
<1>1. /\ stage = 0 /\ Len(chain) = stateRoot.height /\ Height <= MaxHeight /\ id \notin Bad
      /\ chain' = Append(chain, b)
      /\ UNCHANGED <<base, stage, returned, stateVars, pruneVars, canonicalState, proposal, verdict, faults, panicked>>
  BY DEF Decide, Proposing
<1>2. Height \in Nat \ {0} /\ Height = stateRoot.height + 1 /\ stateRoot.height \in Nat /\ MaxHeight \in Nat
  <2>1. Height \in Nat \ {0}
    BY HeightTyped DEF IInv
  <2> QED
    BY <2>1, ABCIMuxAssumed DEF IInv, TypeOK, ABCIMuxAssumption, Height
<1>3. b \in (1..MaxHeight) \X Blocks
  BY <1>1, <1>2
<1>4. chain \in Seq((1..MaxHeight) \X Blocks)
  BY DEF IInv, TypeOK
<1>5. /\ chain' \in Seq((1..MaxHeight) \X Blocks) /\ Len(chain') = Height
      /\ \A i \in 1..Len(chain) : chain'[i] = chain[i]
      /\ chain'[Height] = b
  BY <1>1, <1>2, <1>3, <1>4, AppendProperties
<1> USE DEF stateVars, pruneVars
<1>6. TypeOK'
  <2>1. Len(chain') \in stateRoot'.height..MaxHeight
    BY <1>1, <1>2, <1>5
  <2> QED
    BY <1>1, <1>5, <2>1 DEF IInv, TypeOK
<1>7. ChainInv'
  <2> SUFFICES ASSUME NEW i \in 1..Len(chain') PROVE chain'[i] \in {i} \X (Blocks \ Bad)
    BY DEF ChainInv
  <2>1. CASE i = Height
    BY <1>1, <1>5, <2>1
  <2>2. CASE i # Height
    <3>1. i \in 1..Len(chain)
      BY <1>1, <1>2, <1>5, <2>2
    <3> QED
      BY <1>5, <3>1 DEF IInv, ChainInv
  <2> QED
    BY <2>1, <2>2
<1>8. StateInv' /\ KeptInv'
  <2>1. StateInv'
    BY <1>1 DEF IInv, StateInv, StateOf
  <2>2. Height' = Height /\ StateOf(stateRoot)' = StateOf(stateRoot)
    BY <1>1 DEF Height, StateOf
  <2>3. KeptInv
    BY DEF IInv
  <2>4. KeptInv'
    BY <1>1, <2>2, <2>3 DEF KeptInv, IsKept
  <2> QED
    BY <2>1, <2>4
<1>9. StageInv'
  BY <1>1 DEF StageInv
<1>10. PruneInv' /\ VerdictRight' /\ ~panicked'
  BY <1>1 DEF IInv, PruneInv, VerdictRight
<1> QED
  BY <1>6, <1>7, <1>8, <1>9, <1>10 DEF IInv

\* A step of the decided block: it changes the proposal, what was returned and
\* the stage, and perhaps the canonical state, which stays what it is.
LEMMA BlockStep ==
    ASSUME IInv, Applying, UNCHANGED <<chain, base, stateVars, pruneVars, verdict, faults>>,
           panicked' = FALSE, canonicalState' = StateOf(stateRoot), proposal' \in Kept,
           stage' \in Nat \cup {Ended}, stage' # 0, returned' \in Seq(Step), StageInv'
    PROVE  IInv'
<1> USE DEF stateVars, pruneVars
<1>1. TypeOK'
  <2>1. canonicalState' \in Seq(Step)
    BY TreesTyped DEF IInv
  <2> QED
    BY <2>1 DEF IInv, TypeOK, Kept
<1>2. StateInv'
  BY DEF IInv, StateInv, StateOf
<1>3. ChainInv' /\ ~panicked'
  BY DEF IInv, ChainInv
<1>4. KeptInv'
  BY DEF KeptInv
<1>5. PruneInv' /\ VerdictRight'
  BY DEF IInv, PruneInv, VerdictRight
<1> QED
  BY <1>1, <1>2, <1>3, <1>4, <1>5 DEF IInv

\* What a step of a block has to establish of the next stage.
LEMMA NextStage ==
    ASSUME IInv, Applying, UNCHANGED <<chain, stateVars>>,
           NEW n, n = NumTxs[Decided[2]], stage' \in 1..n + 2 \cup {Ended},
           returned' = Steps(Decided, IF stage' = Ended THEN n + 3 ELSE stage'),
           proposal'.executed =>
               /\ proposal'.tree = StateOf(stateRoot) \o Execute(Decided)
               /\ stage' # Ended => proposal'.results = Rest(Decided, stage'),
           ~proposal'.executed =>
               proposal'.tree = StateOf(stateRoot) \o Steps(Decided, TreeSteps(stage', n))
    PROVE  StageInv' /\ stage' # 0 /\ stage' \in Nat \cup {Ended} /\ returned' \in Seq(Step)
<1>1. Decided' = Decided /\ Len(chain') > stateRoot'.height /\ StateOf(stateRoot)' = StateOf(stateRoot)
  BY DEF Decided, Height, stateVars, StateOf, Applying
<1>2. Execute(Decided)' = Execute(Decided) /\ Steps(Decided, TreeSteps(stage, n))' = Steps(Decided, TreeSteps(stage', n))
  BY <1>1 DEF Execute, Steps
<1>3. Decided \in Nat \X Blocks
  BY DecidedTyped DEF IInv, Applying
<1>4. n \in Nat
  BY <1>3, BlocksTyped
<1>5. stage' # 0 /\ stage' \in Nat \cup {Ended}
  BY <1>4 DEF Ended
<1>6. (IF stage' = Ended THEN n + 3 ELSE stage') \in Nat
  BY <1>4
<1>7. returned' \in Seq(Step)
  BY <1>3, <1>6, StepsTyped
<1>8. StageInv'
  BY <1>1, <1>2 DEF StageInv, Steps, Rest, TreeSteps
<1> QED
  BY <1>5, <1>7, <1>8
LEMMA BeginStep ==
    ASSUME IInv, BeginBlock
    PROVE  IInv'
<1> DEFINE D == Decided
           n == NumTxs[D[2]]
           S == StateOf(stateRoot)
           changed == Changed(proposal, D)
           p == IF changed THEN [Fresh(canonicalState) EXCEPT !.hash = D] ELSE proposal
<1>1. /\ Applying /\ stage = 0 /\ stage' = 1
      /\ UNCHANGED <<chain, base, stateVars, pruneVars, verdict, faults, panicked>>
      /\ canonicalState' = IF changed THEN Restored ELSE canonicalState
  BY DEF BeginBlock
<1>2. IF NeedsExecution(p)
      THEN /\ proposal' = [p EXCEPT !.tree = Append(@, <<D, 0>>)]
           /\ returned' = <<<<D, 0>>>>
      ELSE /\ proposal' = [p EXCEPT !.results = Tail(@)]
           /\ returned' = <<Head(p.results)>>
  BY DEF BeginBlock
<1>3. Restored = S /\ canonicalState = S /\ S \in Seq(Step)
  BY TreesTyped DEF IInv, StateInv
<1>4. D \in Nat \X Blocks /\ D # NoBlock /\ D \in Nat \X (Blocks \cup {"none"})
  BY <1>1, DecidedTyped DEF IInv, Applying
<1>5. n \in Nat
  BY <1>4, BlocksTyped
<1>6. \/ changed /\ p \in Kept /\ ~p.executed /\ p.tree = S
      \/ p \in Kept /\ p.executed /\ p.tree = S \o Execute(D) /\ p.results = Rest(D, 0)
  <2>1. CASE changed
    <3>1. Fresh(S) \in Kept /\ ~Fresh(S).executed /\ Fresh(S).tree = S
      BY <1>3, ProposalsTyped
    <3>2. p = [Fresh(S) EXCEPT !.hash = D]
      BY <1>3, <2>1
    <3> QED
      BY <1>4, <2>1, <3>1, <3>2 DEF Kept
  <2>2. CASE ~changed
    <3>1. p = proposal /\ proposal.hash = D
      BY <2>2 DEF Changed
    <3>2. PICK k \in Blocks \ Bad : IsKept(proposal, <<Height, k>>, S)
      BY <1>1, <1>4, <3>1 DEF IInv, KeptInv
    <3>3. <<Height, k>> = D
      BY <1>4, <3>1, <3>2 DEF IsKept
    <3>4. proposal.executed /\ proposal.tree = S \o Execute(D) /\ proposal.results = Results(D)
      BY <3>2, <3>3 DEF IsKept
    <3>7. proposal \in Kept
      BY DEF IInv, TypeOK, Kept
    <3>8. Results(D) = Rest(D, 0)
      BY <1>4, <1>5, RestTyped
    <3> QED
      BY <3>1, <3>4, <3>7, <3>8
  <2> QED
    BY <2>1, <2>2
<1> HIDE DEF p, changed
<1>7. canonicalState' = S /\ panicked' = FALSE
  BY <1>1, <1>3 DEF IInv, TypeOK
<1>8. /\ proposal' \in Kept /\ returned' = Steps(D, 1)
      /\ proposal'.executed =>
            proposal'.tree = S \o Execute(D) /\ proposal'.results = Rest(D, 1)
      /\ ~proposal'.executed => proposal'.tree = S \o Steps(D, 1)
  <2>1. CASE ~p.executed
    <3>1. p \in Kept /\ p.tree = S
      BY <1>6, <2>1
    <3>2. proposal' = [p EXCEPT !.tree = Append(S, <<D, 0>>)] /\ returned' = <<<<D, 0>>>>
      BY <1>2, <2>1, <3>1 DEF NeedsExecution
    <3>3. Append(S, <<D, 0>>) = S \o Steps(D, 1) /\ <<<<D, 0>>>> = Steps(D, 1)
      BY <1>3, <1>4, FirstStep
    <3>4. S \o Steps(D, 1) \in Seq(Step)
      BY <1>3, <1>4, StepsTyped, ConcatProperties
    <3> HIDE DEF D, S
    <3> QED
      BY <2>1, <3>1, <3>2, <3>3, <3>4 DEF Kept
  <2>2. CASE p.executed
    <3>1. p \in Kept /\ p.tree = S \o Execute(D) /\ p.results = Rest(D, 0)
      BY <1>6, <2>2
    <3>2. proposal' = [p EXCEPT !.results = Tail(Rest(D, 0))] /\ returned' = <<Head(Rest(D, 0))>>
      BY <1>2, <2>2, <3>1 DEF NeedsExecution
    <3>3. Head(Rest(D, 0)) = <<D, 0>> /\ Tail(Rest(D, 0)) = Rest(D, 1)
      <4>1. 0 \in 0..n + 2 /\ 0 + 1 = 1
        BY <1>5
      <4> QED
        BY <1>4, <4>1, TakeResult
    <3>4. <<<<D, 0>>>> = Steps(D, 1)
      BY <1>3, <1>4, FirstStep
    <3>5. Rest(D, 1) \in Seq(Step)
      BY <1>4, <1>5, RestTyped
    <3> HIDE DEF D, S
    <3> QED
      BY <2>2, <3>1, <3>2, <3>3, <3>4, <3>5 DEF Kept
  <2> QED
    BY <2>1, <2>2
<1>9. TreeSteps(stage', n) = 1 /\ stage' # Ended /\ stage' \in 1..n + 2
  BY <1>1, <1>5 DEF TreeSteps, Ended
<1>10. StageInv' /\ stage' # 0 /\ stage' \in Nat \cup {Ended} /\ returned' \in Seq(Step)
  <2> HIDE DEF D, n, S
  <2>1. n = NumTxs[Decided[2]] /\ D = Decided /\ S = StateOf(stateRoot)
    BY DEF n, D, S
  <2> QED
    BY <1>1, <1>8, <1>9, <2>1, NextStage
<1> QED
  BY <1>1, <1>7, <1>8, <1>10, BlockStep
\* What the invariant says in the middle of a block.
LEMMA InBlock ==
    ASSUME IInv, Applying, stage # 0, stage # Ended
    PROVE  /\ Decided \in Nat \X Blocks /\ NumTxs[Decided[2]] \in Nat
           /\ stage \in 1..NumTxs[Decided[2]] + 2 /\ returned = Steps(Decided, stage)
           /\ proposal \in Kept /\ canonicalState = StateOf(stateRoot) /\ StateOf(stateRoot) \in Seq(Step)
           /\ proposal.executed =>
                  /\ proposal.tree = StateOf(stateRoot) \o Execute(Decided)
                  /\ proposal.results = Rest(Decided, stage)
                  /\ Len(proposal.results) = NumTxs[Decided[2]] + 3 - stage
           /\ ~proposal.executed =>
                  proposal.tree = StateOf(stateRoot) \o Steps(Decided, TreeSteps(stage, NumTxs[Decided[2]]))
<1>1. Decided \in Nat \X Blocks
  BY DecidedTyped DEF IInv, Applying
<1>2. NumTxs[Decided[2]] \in Nat
  BY <1>1, BlocksTyped
<1>3. /\ stage \in 1..NumTxs[Decided[2]] + 2 /\ returned = Steps(Decided, stage)
      /\ proposal.executed =>
             /\ proposal.tree = StateOf(stateRoot) \o Execute(Decided)
             /\ proposal.results = Rest(Decided, stage)
      /\ ~proposal.executed =>
             proposal.tree = StateOf(stateRoot) \o Steps(Decided, TreeSteps(stage, NumTxs[Decided[2]]))
  BY DEF IInv, StageInv
<1>4. Len(Rest(Decided, stage)) = NumTxs[Decided[2]] + 3 - stage
  <2>1. stage \in 0..NumTxs[Decided[2]] + 3
    BY <1>2, <1>3
  <2> QED
    BY <1>1, <2>1, RestTyped
<1>5. proposal \in Kept /\ canonicalState = StateOf(stateRoot) /\ StateOf(stateRoot) \in Seq(Step)
  BY TreesTyped DEF IInv, TypeOK, Kept, StateInv
<1> QED
  BY <1>1, <1>2, <1>3, <1>4, <1>5

LEMMA DeliverStep ==
    ASSUME IInv, DeliverTx
    PROVE  IInv'
<1> DEFINE D == Decided
           n == NumTxs[D[2]]
           S == StateOf(stateRoot)
<1>1. /\ Applying /\ stage \in 1..n + 1 /\ stage' = stage + 1
      /\ UNCHANGED <<chain, base, stateVars, pruneVars, canonicalState, verdict, faults>>
  BY DEF DeliverTx
<1>0. D \in Nat \X Blocks /\ n \in Nat
  <2>1. D \in Nat \X Blocks
    BY <1>1, DecidedTyped DEF IInv, Applying
  <2> QED
    BY <2>1, BlocksTyped
<1>2. stage # 0 /\ stage # Ended /\ stage \in Nat
  BY <1>0, <1>1 DEF Ended
<1>3. /\ returned = Steps(D, stage) /\ proposal \in Kept /\ canonicalState = S /\ S \in Seq(Step)
      /\ proposal.executed =>
             /\ proposal.tree = S \o Execute(D) /\ proposal.results = Rest(D, stage)
             /\ Len(proposal.results) = n + 3 - stage
      /\ ~proposal.executed => proposal.tree = S \o Steps(D, TreeSteps(stage, n))
  BY <1>1, <1>2, InBlock
<1>4. Append(returned, <<D, stage>>) = Steps(D, stage + 1)
  BY <1>0, <1>2, <1>3, AppendSteps
<1>5. /\ proposal' \in Kept /\ returned' = Steps(D, stage') /\ panicked' = FALSE
      /\ proposal'.executed => proposal'.tree = S \o Execute(D) /\ proposal'.results = Rest(D, stage')
      /\ ~proposal'.executed => proposal'.tree = S \o Steps(D, TreeSteps(stage', n))
  <2>0. panicked = FALSE
    BY DEF IInv, TypeOK
  <2>1. CASE ~proposal.executed /\ stage <= n
    <3>1. /\ proposal' = [proposal EXCEPT !.tree = Append(@, <<D, stage>>)]
          /\ returned' = Append(returned, <<D, stage>>) /\ panicked' = panicked
      BY <2>1 DEF DeliverTx, NeedsExecution
    <3>2. TreeSteps(stage, n) = stage /\ TreeSteps(stage', n) = stage + 1
      BY <1>0, <1>1, <2>1 DEF TreeSteps, Ended
    <3>3. Append(proposal.tree, <<D, stage>>) = S \o Steps(D, stage + 1)
      BY <1>0, <1>2, <1>3, <2>1, <3>2, AppendToTree
    <3>4. S \o Steps(D, stage + 1) \in Seq(Step)
      <4>1. Steps(D, stage + 1) \in Seq(Step)
        BY <1>0, <1>2, StepsTyped
      <4> QED
        BY <1>3, <4>1, ConcatProperties
    <3> HIDE DEF D, S, n
    <3> QED
      BY <1>1, <1>3, <1>4, <2>0, <2>1, <3>1, <3>2, <3>3, <3>4 DEF Kept
  <2>2. CASE ~proposal.executed /\ stage > n
    <3>1. proposal' = proposal /\ returned' = Append(returned, <<D, stage>>) /\ panicked' = panicked
      BY <1>0, <1>2, <2>2 DEF DeliverTx, NeedsExecution
    <3>2. TreeSteps(stage, n) = TreeSteps(stage', n)
      BY <1>0, <1>1, <2>2 DEF TreeSteps, Ended
    <3> HIDE DEF D, S, n
    <3> QED
      BY <1>1, <1>3, <1>4, <2>0, <2>2, <3>1, <3>2
  <2>3. CASE proposal.executed
    <3>1. ~(Len(proposal.results) <= 1)
      BY <1>0, <1>1, <1>3, <2>3
    <3>2. /\ proposal' = [proposal EXCEPT !.results = Tail(@)]
          /\ returned' = Append(returned, Head(proposal.results)) /\ panicked' = panicked
      BY <2>3, <3>1 DEF DeliverTx, NeedsExecution
    <3>3. stage \in 0..n + 2 /\ stage + 1 \in 0..n + 3
      BY <1>0, <1>1
    <3>4. Head(Rest(D, stage)) = <<D, stage>> /\ Tail(Rest(D, stage)) = Rest(D, stage + 1)
      BY <1>0, <3>3, TakeResult
    <3>5. Rest(D, stage + 1) \in Seq(Step)
      BY <1>0, <3>3, RestTyped
    <3> HIDE DEF D, S, n
    <3> QED
      BY <1>1, <1>3, <1>4, <2>0, <2>3, <3>2, <3>4, <3>5 DEF Kept
  <2>4. stage <= n \/ stage > n
    BY <1>0, <1>2
  <2> QED
    BY <2>1, <2>2, <2>3, <2>4, Zenon
<1>6. stage' # Ended /\ stage' \in 1..n + 2
  BY <1>0, <1>1 DEF Ended
<1>7. StageInv' /\ stage' # 0 /\ stage' \in Nat \cup {Ended} /\ returned' \in Seq(Step)
  <2> HIDE DEF D, n, S
  <2>1. n = NumTxs[Decided[2]] /\ D = Decided /\ S = StateOf(stateRoot)
    BY DEF n, D, S
  <2> QED
    BY <1>1, <1>5, <1>6, <2>1, NextStage
<1>8. canonicalState' = S
  BY <1>1, <1>3
<1> QED
  BY <1>1, <1>5, <1>7, <1>8, BlockStep

LEMMA EndStep ==
    ASSUME IInv, EndBlock
    PROVE  IInv'
<1> DEFINE D == Decided
           n == NumTxs[D[2]]
           S == StateOf(stateRoot)
<1>1. /\ Applying /\ stage = n + 2
      /\ UNCHANGED <<chain, base, stateVars, pruneVars, canonicalState, verdict, faults>>
  BY DEF EndBlock
<1>0. D \in Nat \X Blocks /\ n \in Nat
  <2>1. D \in Nat \X Blocks
    BY <1>1, DecidedTyped DEF IInv, Applying
  <2> QED
    BY <2>1, BlocksTyped
<1>2. stage # 0 /\ stage # Ended /\ stage \in Nat
  BY <1>0, <1>1 DEF Ended
<1>3. /\ returned = Steps(D, stage) /\ proposal \in Kept /\ canonicalState = S /\ S \in Seq(Step)
      /\ proposal.executed =>
             /\ proposal.tree = S \o Execute(D) /\ proposal.results = Rest(D, stage)
             /\ Len(proposal.results) = n + 3 - stage
      /\ ~proposal.executed => proposal.tree = S \o Steps(D, TreeSteps(stage, n))
  BY <1>1, <1>2, InBlock
<1>4. Append(returned, <<D, stage>>) = Steps(D, n + 3)
  <2>1. Append(returned, <<D, stage>>) = Steps(D, stage + 1)
    BY <1>0, <1>2, <1>3, AppendSteps
  <2>2. stage + 1 = n + 3
    BY <1>0, <1>1
  <2> QED
    BY <2>1, <2>2
<1>5. /\ proposal' \in Kept /\ returned' = Steps(D, n + 3) /\ panicked' = FALSE /\ stage' = Ended
      /\ proposal'.executed => proposal'.tree = S \o Execute(D)
      /\ ~proposal'.executed => proposal'.tree = S \o Steps(D, n + 2)
  <2>0. panicked = FALSE
    BY DEF IInv, TypeOK
  <2>1. CASE ~proposal.executed
    <3>1. /\ proposal' = [proposal EXCEPT !.tree = Append(@, <<D, n + 1>>)]
          /\ returned' = Append(returned, <<D, stage>>) /\ panicked' = panicked /\ stage' = Ended
      BY <2>1 DEF EndBlock, NeedsExecution
    <3>2. TreeSteps(stage, n) = n + 1
      BY <1>0, <1>1 DEF TreeSteps, Ended
    <3>3. Append(proposal.tree, <<D, n + 1>>) = S \o Steps(D, n + 2)
      <4>1. n + 1 \in Nat /\ (n + 1) + 1 = n + 2
        BY <1>0
      <4>2. Append(S \o Steps(D, n + 1), <<D, n + 1>>) = S \o Steps(D, (n + 1) + 1)
        BY <1>0, <1>3, <4>1, AppendToTree
      <4> QED
        BY <1>3, <2>1, <3>2, <4>1, <4>2
    <3>4. S \o Steps(D, n + 2) \in Seq(Step)
      <4>1. n + 2 \in Nat
        BY <1>0
      <4>2. Steps(D, n + 2) \in Seq(Step)
        BY <1>0, <4>1, StepsTyped
      <4> QED
        BY <1>3, <4>2, ConcatProperties
    <3> HIDE DEF D, S, n
    <3> QED
      BY <1>3, <1>4, <2>0, <2>1, <3>1, <3>3, <3>4 DEF Kept
  <2>2. CASE proposal.executed
    <3>1. Len(proposal.results) = 1
      <4>1. Len(proposal.results) = n + 3 - stage
        BY <1>3, <2>2
      <4> HIDE DEF n
      <4> QED
        BY <1>0, <1>1, <4>1
    <3>2. /\ proposal' = proposal /\ stage' = Ended
          /\ returned' = Append(returned, Head(proposal.results)) /\ panicked' = panicked
      BY <2>2, <3>1 DEF EndBlock, NeedsExecution
    <3>3. stage \in 0..n + 2
      BY <1>0, <1>1
    <3>4. Head(Rest(D, stage)) = <<D, stage>>
      BY <1>0, <3>3, TakeResult
    <3> HIDE DEF D, S, n
    <3> QED
      BY <1>3, <1>4, <2>0, <2>2, <3>2, <3>4
  <2> QED
    BY <2>1, <2>2
<1>6. TreeSteps(stage', n) = n + 2
  BY <1>5 DEF TreeSteps
<1>7. StageInv' /\ stage' # 0 /\ stage' \in Nat \cup {Ended} /\ returned' \in Seq(Step)
  <2> HIDE DEF D, n, S
  <2>1. n = NumTxs[Decided[2]] /\ D = Decided /\ S = StateOf(stateRoot)
    BY DEF n, D, S
  <2> QED
    BY <1>1, <1>5, <1>6, <2>1, NextStage
<1>8. canonicalState' = S
  BY <1>1, <1>3
<1> QED
  BY <1>1, <1>5, <1>7, <1>8, BlockStep
LEMMA CommitStep ==
    ASSUME IInv, Commit
    PROVE  /\ IInv'
           /\ Decided = chain[Height] /\ Height <= Len(chain)
           /\ StateOf(stateRoot)' = StateOf(stateRoot) \o Execute(Decided)
<1> DEFINE D == Decided
           n == NumTxs[D[2]]
           S == StateOf(stateRoot)
<1>1. /\ Applying /\ stage = Ended
      /\ stateRoot' = [height |-> Height, tree |-> proposal.tree]
      /\ canonicalState' = proposal.tree /\ initState' = FALSE /\ proposal' = NilProposal
      /\ latest' = Height /\ base' = IF lastRetained > base THEN lastRetained ELSE base
      /\ stage' = 0 /\ returned' = <<>> /\ earliest' = IF earliest = 0 THEN Height ELSE earliest
      /\ UNCHANGED <<chain, synced, lastRetained, pruned, known, exposed, indexed, verdict, faults, panicked>>
  BY DEF Commit, RetainHeight
<1>2. D \in Nat \X Blocks /\ Height \in Nat \ {0} /\ Height <= MaxHeight
  BY <1>1, DecidedTyped DEF IInv, Applying
<1>3. n \in Nat /\ Execute(D) = Steps(D, n + 2)
  BY <1>2, BlocksTyped
<1>4. stage # 0
  BY <1>1 DEF Ended
<1>5. proposal.tree = S \o Execute(D)
  <2>1. TreeSteps(stage, n) = n + 2
    BY <1>1 DEF TreeSteps
  <2> QED
    BY <1>3, <1>4, <2>1 DEF IInv, StageInv
<1>6. proposal.tree \in Seq(Step)
  BY DEF IInv, TypeOK
<1>7. /\ stateRoot.height \in Nat /\ Height = stateRoot.height + 1 /\ Len(chain) \in Nat
      /\ Height <= Len(chain) /\ Len(chain) <= MaxHeight /\ MaxHeight \in Nat
  <2>1. MaxHeight \in Nat /\ stateRoot.height \in 0..MaxHeight /\ Len(chain) \in stateRoot.height..MaxHeight
    BY ABCIMuxAssumed DEF IInv, TypeOK, ABCIMuxAssumption
  <2>2. Len(chain) > stateRoot.height
    BY <1>1 DEF Applying
  <2> QED
    BY <2>1, <2>2 DEF Height
<1>8. /\ {earliest, latest, lastRetained, pruned, indexed} \subseteq 0..MaxHeight
      /\ base \in 1..MaxHeight + 1 /\ synced.height \in Nat /\ synced.height <= stateRoot.height
      /\ synced \in [height : 0..stateRoot.height, tree : Seq(Step), earliest : 0..MaxHeight]
  BY <1>7 DEF IInv, TypeOK
<1>9. stateRoot'.height = Height /\ stateRoot'.tree = proposal.tree
  BY <1>1
<1>10. StateOf(stateRoot)' = proposal.tree
  BY <1>2, <1>9 DEF StateOf
<1>11. TypeOK'
  <2>1. stateRoot' \in [height : 0..MaxHeight, tree : Seq(Step)]
    BY <1>1, <1>2, <1>6
  <2>2. synced' \in [height : 0..stateRoot'.height, tree : Seq(Step), earliest : 0..MaxHeight]
    <3>1. synced.height \in 0..Height /\ synced.tree \in Seq(Step) /\ synced.earliest \in 0..MaxHeight
      BY <1>7, <1>8
    <3> QED
      BY <1>1, <1>8, <1>9, <3>1
  <2>3. proposal' \in Kept
    BY <1>1, <1>6, ProposalsTyped
  <2>4. Len(chain') \in stateRoot'.height..MaxHeight /\ chain' \in Seq((1..MaxHeight) \X Blocks)
    BY <1>1, <1>7, <1>9 DEF IInv, TypeOK
  <2>5. base' \in 1..MaxHeight + 1
    BY <1>1, <1>7, <1>8
  <2>6. {earliest', latest', lastRetained', pruned', indexed'} \subseteq 0..MaxHeight
    BY <1>1, <1>2, <1>7, <1>8
  <2>7. /\ stage' \in Nat \cup {Ended} /\ returned' \in Seq(Step) /\ canonicalState' \in Seq(Step)
        /\ verdict' \in [block : Nat \X (Blocks \cup {"none"}), accept : BOOLEAN]
        /\ faults' \in 0..MaxFaults
    BY <1>1, <1>6 DEF IInv, TypeOK
  <2>8. initState' \in BOOLEAN /\ panicked' \in BOOLEAN /\ known' \in BOOLEAN /\ exposed' \in BOOLEAN
    BY <1>1 DEF IInv, TypeOK
  <2> QED
    BY <2>1, <2>2, <2>3, <2>4, <2>5, <2>6, <2>7, <2>8 DEF TypeOK, Kept
<1>12. StateInv'
  <2>1. ~initState' /\ stateRoot'.height # 0
    BY <1>1, <1>2, <1>9
  <2> QED
    BY <1>1, <1>10, <2>1 DEF StateInv
<1>13. ChainInv' /\ VerdictRight' /\ ~panicked'
  BY <1>1 DEF IInv, ChainInv, VerdictRight
<1>14. KeptInv'
  BY <1>1 DEF KeptInv, NilProposal
<1>15. StageInv'
  BY <1>1 DEF StageInv
<1>16. PruneInv'
  <2>1. /\ earliest <= stateRoot.height /\ pruned <= stateRoot.height
        /\ synced.earliest <= synced.height
        /\ (earliest = 0 => stateRoot.height = 0) /\ (synced.earliest = 0 => synced.height = 0)
        /\ lastRetained <= stateRoot.height /\ base <= stateRoot.height + 1
        /\ ~exposed => lastRetained <= synced.height + 1 /\ base <= synced.height + 1
        /\ indexed < stateRoot.height => earliest <= indexed + 1
        /\ indexed < synced.height => synced.earliest <= indexed + 1
    BY DEF IInv, PruneInv
  <2>2. earliest \in Nat /\ indexed \in Nat /\ pruned \in Nat /\ lastRetained \in Nat /\ base \in Nat
    BY <1>7, <1>8
  <2>3. earliest' <= stateRoot'.height /\ pruned' <= stateRoot'.height /\ latest' = stateRoot'.height
    BY <1>1, <1>7, <1>9, <2>1, <2>2
  <2>4. /\ base' <= stateRoot'.height + 1 /\ lastRetained' <= stateRoot'.height /\ synced'.earliest <= synced'.height
        /\ ~exposed' => lastRetained' <= synced'.height + 1 /\ base' <= synced'.height + 1
    <3>1. base' \in {base, lastRetained} /\ lastRetained' = lastRetained /\ synced' = synced /\ exposed' = exposed
      BY <1>1
    <3>2. base' <= stateRoot'.height + 1 /\ lastRetained' <= stateRoot'.height
      BY <1>7, <1>9, <2>1, <2>2, <3>1
    <3>3. synced'.earliest <= synced'.height
      BY <2>1, <3>1
    <3>4. ~exposed => lastRetained <= synced.height + 1 /\ base' <= synced.height + 1
      BY <2>1, <3>1
    <3> QED
      BY <3>1, <3>2, <3>3, <3>4
  <2>5. indexed' < stateRoot'.height => earliest' <= indexed' + 1
    BY <1>1, <1>7, <1>9, <2>1, <2>2
  <2>6. indexed' < synced'.height => synced'.earliest <= indexed' + 1
    BY <1>1, <2>1
  <2>7. (earliest' = 0 => stateRoot'.height = 0) /\ (synced'.earliest = 0 => synced'.height = 0)
    BY <1>1, <1>2, <2>1
  <2> QED
    BY <2>3, <2>4, <2>5, <2>6, <2>7 DEF PruneInv
<1>17. IInv'
  BY <1>11, <1>12, <1>13, <1>14, <1>15, <1>16 DEF IInv
<1> QED
  BY <1>5, <1>7, <1>10, <1>17 DEF Decided
-----------------------------------------------------------------------------
\* A set of numbers that is not empty has a smallest one.
LEMMA Smallest ==
    ASSUME NEW S \in SUBSET Nat, NEW m \in S
    PROVE  LET v == CHOOSE v \in S : \A w \in S : v <= w IN v \in S /\ \A w \in S : v <= w
<1>1. PICK x \in S : \A y \in S : <<y, x>> \notin OpToRel(<, Nat)
  BY NatLessThanWellFounded, WFMin
<1>2. \A y \in S : x <= y
  <2> SUFFICES ASSUME NEW y \in S, ~(x <= y) PROVE FALSE
    OBVIOUS
  <2>1. y \in Nat /\ x \in Nat
    OBVIOUS
  <2>2. <<y, x>> \in Nat \X Nat /\ <<y, x>>[1] < <<y, x>>[2]
    BY <2>1
  <2>3. <<y, x>> \in OpToRel(<, Nat)
    BY <2>2, Zenon DEF OpToRel
  <2> QED
    BY <1>1, <2>3
<1> QED
  BY <1>2

\* A step of the pruner or of its handlers.
LEMMA PrunerStep ==
    ASSUME IInv, UNCHANGED <<chainVars, stateRoot, initState, canonicalState, proposal, verdict, faults, panicked>>,
           {earliest', latest', lastRetained', pruned', indexed'} \subseteq 0..MaxHeight,
           synced' \in [height : 0..stateRoot.height, tree : Seq(Step), earliest : 0..MaxHeight],
           known' \in BOOLEAN, exposed' \in BOOLEAN,
           PruneInv'
    PROVE  IInv'
<1> USE DEF chainVars
<1>1. TypeOK'
  BY DEF IInv, TypeOK
<1>2. StateInv' /\ ChainInv' /\ VerdictRight' /\ ~panicked'
  BY DEF IInv, StateInv, StateOf, ChainInv, VerdictRight
<1>3. Height' = Height /\ StateOf(stateRoot)' = StateOf(stateRoot) /\ Decided' = Decided
  BY DEF Height, StateOf, Decided
<1>4. KeptInv'
  <2>1. KeptInv
    BY DEF IInv
  <2> QED
    BY <1>3, <2>1 DEF KeptInv, IsKept
<1>5. StageInv'
  <2>1. StageInv
    BY DEF IInv
  <2> QED
    BY <1>3, <2>1 DEF StageInv, Steps, Rest, Execute, TreeSteps
<1> QED
  BY <1>1, <1>2, <1>4, <1>5 DEF IInv

LEMMA PruneStep ==
    ASSUME IInv, Prune
    PROVE  IInv'
<1> DEFINE stop == {v \in earliest..latest : v >= latest - KeepN \/ ~CanPrune(v)}
<1>1. /\ latest # 0 /\ earliest # 0 /\ latest' = 0 /\ pruned' = earliest'
      /\ earliest' = CHOOSE v \in stop : \A w \in stop : v <= w
      /\ known' = TRUE /\ exposed' = (exposed \/ (~known /\ earliest > synced.height + 1))
      /\ lastRetained' = IF known THEN lastRetained ELSE earliest
      /\ UNCHANGED <<chainVars, stateVars, canonicalState, proposal, verdict, indexed, faults, panicked>>
  BY DEF Prune
<1>2. /\ {earliest, latest, lastRetained, pruned, indexed} \subseteq 0..MaxHeight /\ MaxHeight \in Nat
      /\ stateRoot.height \in 0..MaxHeight /\ KeepN \in Nat
      /\ synced \in [height : 0..stateRoot.height, tree : Seq(Step), earliest : 0..MaxHeight]
  BY ABCIMuxAssumed DEF IInv, TypeOK, ABCIMuxAssumption
<1>3. PruneInv
  BY DEF IInv
<1>4. latest = stateRoot.height /\ earliest <= latest
  BY <1>1, <1>3 DEF PruneInv
<1>5. latest \in stop /\ stop \in SUBSET Nat
  BY <1>2, <1>4
<1>6. earliest' \in stop /\ \A w \in stop : earliest' <= w
  <2> HIDE DEF stop
  <2> QED
    BY <1>1, <1>5, Smallest
<1>7. earliest' \in earliest..latest
  BY <1>6
<1>8. indexed < stateRoot.height => earliest' <= indexed + 1
  <2> SUFFICES ASSUME indexed < stateRoot.height PROVE indexed + 1 \in stop
    BY <1>6
  <2>1. indexed + 1 \in earliest..latest
    BY <1>2, <1>3, <1>4 DEF PruneInv
  <2>2. ~CanPrune(indexed + 1)
    BY <1>2 DEF CanPrune
  <2> QED
    BY <2>1, <2>2
<1>9. PruneInv'
  <2> HIDE DEF stop
  <2>1. earliest \in Nat /\ latest \in Nat /\ earliest # 0
    BY <1>1, <1>2
  <2>2. earliest' \in Nat /\ earliest' # 0 /\ earliest' <= stateRoot.height
    BY <1>4, <1>7, <2>1
  <2>3. /\ latest' = 0 /\ pruned' = earliest'
        /\ UNCHANGED <<base, stateRoot, synced, indexed>>
    BY <1>1 DEF stateVars, chainVars
  <2>4. /\ lastRetained' <= stateRoot.height
        /\ ~exposed' => lastRetained' <= synced.height + 1 /\ base <= synced.height + 1
    <3>1. CASE known
      BY <1>1, <1>3, <3>1 DEF PruneInv
    <3>2. CASE ~known
      <4>1. synced.height \in Int /\ earliest \in Int
        BY <1>2
      <4>2. lastRetained' = earliest /\ earliest <= stateRoot.height
        BY <1>1, <1>3, <3>2 DEF PruneInv
      <4>3. ~exposed' => ~exposed /\ ~(earliest > synced.height + 1)
        BY <1>1, <3>2
      <4> QED
        BY <1>3, <4>1, <4>2, <4>3 DEF PruneInv
    <3> QED
      BY <3>1, <3>2
  <2> QED
    BY <1>3, <1>8, <2>2, <2>3, <2>4 DEF PruneInv
<1>10. {earliest', latest', lastRetained', pruned', indexed'} \subseteq 0..MaxHeight
  <2>1. earliest' \in 0..MaxHeight
    BY <1>2, <1>7
  <2> HIDE DEF stop
  <2> QED
    BY <1>1, <1>2, <2>1
<1>11. /\ UNCHANGED <<chainVars, stateRoot, initState, canonicalState, proposal, verdict, faults, panicked>>
       /\ synced' \in [height : 0..stateRoot.height, tree : Seq(Step), earliest : 0..MaxHeight]
  <2> HIDE DEF stop
  <2> QED
    BY <1>1, <1>2 DEF stateVars
<1>12. known' \in BOOLEAN /\ exposed' \in BOOLEAN
  BY <1>1
<1> QED
  BY <1>9, <1>10, <1>11, <1>12, PrunerStep

LEMMA PruneDoneStep ==
    ASSUME IInv, PruneDone
    PROVE  IInv'
<1>1. /\ synced' = [height |-> stateRoot.height, tree |-> stateRoot.tree, earliest |-> earliest]
      /\ lastRetained' = pruned /\ pruned' = 0 /\ exposed' = FALSE
      /\ UNCHANGED <<chainVars, stateRoot, initState, canonicalState, proposal, verdict,
                      earliest, latest, known, indexed, faults, panicked>>
  BY DEF PruneDone, Sync
<1>2. /\ {earliest, latest, lastRetained, pruned, indexed} \subseteq 0..MaxHeight /\ MaxHeight \in Nat
      /\ stateRoot.height \in 0..MaxHeight /\ stateRoot.tree \in Seq(Step)
      /\ synced.height \in 0..stateRoot.height /\ base \in Nat
  <2>1. TypeOK /\ MaxHeight \in Nat
    BY ABCIMuxAssumed DEF IInv, ABCIMuxAssumption
  <2> QED
    BY <2>1 DEF TypeOK
<1>3. synced' \in [height : 0..stateRoot.height, tree : Seq(Step), earliest : 0..MaxHeight]
  <2>1. stateRoot.height \in 0..stateRoot.height /\ earliest \in 0..MaxHeight
    BY <1>2
  <2> QED
    BY <1>1, <1>2, <2>1
<1>4. synced'.height = stateRoot.height /\ synced'.earliest = earliest
  BY <1>1
<1>5. PruneInv'
  <2>1. PruneInv
    BY DEF IInv
  <2>2. base' <= stateRoot.height + 1
    BY <1>1, <1>2, <2>1 DEF PruneInv, chainVars
  <2> QED
    BY <1>1, <1>2, <1>4, <2>1, <2>2 DEF PruneInv
<1>6. {earliest', latest', lastRetained', pruned', indexed'} \subseteq 0..MaxHeight
  BY <1>1, <1>2
<1>7. known' \in BOOLEAN /\ exposed' \in BOOLEAN
  BY <1>1 DEF IInv, TypeOK
<1> QED
  BY <1>1, <1>3, <1>5, <1>6, <1>7, PrunerStep

LEMMA IndexStep ==
    ASSUME IInv, Index
    PROVE  IInv'
<1>1. /\ indexed < stateRoot.height /\ indexed' = indexed + 1
      /\ UNCHANGED <<chainVars, stateVars, canonicalState, proposal, verdict,
                      earliest, latest, lastRetained, pruned, known, exposed, faults, panicked>>
  BY DEF Index
<1>2. /\ {earliest, latest, lastRetained, pruned, indexed} \subseteq 0..MaxHeight /\ MaxHeight \in Nat
      /\ stateRoot.height \in 0..MaxHeight
      /\ synced \in [height : 0..stateRoot.height, tree : Seq(Step), earliest : 0..MaxHeight]
  BY ABCIMuxAssumed DEF IInv, TypeOK, ABCIMuxAssumption
<1>3. PruneInv'
  <2>1. PruneInv
    BY DEF IInv
  <2>2. synced.height \in Nat /\ synced.earliest \in Nat /\ indexed \in Nat /\ earliest \in Nat
    BY <1>2
  <2> QED
    BY <1>1, <1>2, <2>1, <2>2 DEF PruneInv, stateVars, chainVars
<1>4. {earliest', latest', lastRetained', pruned', indexed'} \subseteq 0..MaxHeight
  BY <1>1, <1>2
<1>5. known' \in BOOLEAN /\ exposed' \in BOOLEAN
  BY <1>1 DEF IInv, TypeOK
<1> QED
  BY <1>1, <1>2, <1>3, <1>4, <1>5, PrunerStep DEF stateVars

\* A restart with what the database has, all of it or what was synced.
LEMMA RestartStep ==
    ASSUME IInv, NEW root, RestartFrom(root),
           \/ root = stateRoot /\ earliest' = earliest
           \/ root = [height |-> synced.height, tree |-> synced.tree] /\ earliest' = synced.earliest
    PROVE  IInv' /\ StateOf(stateRoot)' = StateOf(root)
<1>1. /\ faults < MaxFaults /\ faults' = faults + 1 /\ ~panicked
      /\ stateRoot' = root /\ initState' = (root.height = 0)
      /\ canonicalState' = StateOf(root) /\ proposal' = NilProposal
      /\ stage' = 0 /\ returned' = <<>>
      /\ lastRetained' = 0 /\ pruned' = 0 /\ latest' = 0 /\ known' = FALSE
      /\ base <= root.height + 1
      /\ UNCHANGED <<chain, base, synced, exposed, indexed, verdict, panicked>>
  BY DEF RestartFrom, StateOf
<1>2. /\ {earliest, latest, lastRetained, pruned, indexed} \subseteq 0..MaxHeight /\ MaxHeight \in Nat
      /\ stateRoot \in [height : 0..MaxHeight, tree : Seq(Step)] /\ base \in Nat
      /\ synced \in [height : 0..stateRoot.height, tree : Seq(Step), earliest : 0..MaxHeight]
      /\ faults \in 0..MaxFaults /\ MaxFaults \in Nat
      /\ chain \in Seq((1..MaxHeight) \X Blocks) /\ Len(chain) \in stateRoot.height..MaxHeight
      /\ base \in 1..MaxHeight + 1
  BY ABCIMuxAssumed DEF IInv, TypeOK, ABCIMuxAssumption
<1>3. PruneInv
  BY DEF IInv
<1>4. /\ root \in [height : 0..MaxHeight, tree : Seq(Step)]
      /\ synced.height <= root.height /\ root.height <= stateRoot.height
      /\ earliest' \in 0..MaxHeight /\ earliest' <= root.height
      /\ earliest' = 0 => root.height = 0
      /\ indexed < root.height => earliest' <= indexed + 1
  <2>1. CASE root = stateRoot /\ earliest' = earliest
    BY <1>2, <1>3, <2>1 DEF PruneInv
  <2>2. CASE root = [height |-> synced.height, tree |-> synced.tree] /\ earliest' = synced.earliest
    BY <1>2, <1>3, <2>2 DEF PruneInv
  <2> QED
    BY <2>1, <2>2
<1>5. StateOf(stateRoot)' = StateOf(root) /\ StateOf(root) \in Seq(Step)
  BY <1>1, <1>4, TreesTyped DEF StateOf, IInv
<1>6. TypeOK'
  <2>1. synced' \in [height : 0..stateRoot'.height, tree : Seq(Step), earliest : 0..MaxHeight]
    <3>1. synced.height \in 0..root.height /\ synced.tree \in Seq(Step) /\ synced.earliest \in 0..MaxHeight
      BY <1>2, <1>4
    <3> QED
      BY <1>1, <1>2, <3>1
  <2>2. proposal' \in Kept
    BY <1>1, <1>5, ProposalsTyped
  <2>3. Len(chain') \in stateRoot'.height..MaxHeight
    BY <1>1, <1>2, <1>4
  <2>4. {earliest', latest', lastRetained', pruned', indexed'} \subseteq 0..MaxHeight
    BY <1>1, <1>2, <1>4
  <2>5. /\ stage' \in Nat \cup {Ended} /\ returned' \in Seq(Step) /\ canonicalState' \in Seq(Step)
        /\ verdict' \in [block : Nat \X (Blocks \cup {"none"}), accept : BOOLEAN]
        /\ faults' \in 0..MaxFaults /\ base' \in 1..MaxHeight + 1
        /\ stateRoot' \in [height : 0..MaxHeight, tree : Seq(Step)]
        /\ chain' \in Seq((1..MaxHeight) \X Blocks)
    <3>1. stage' \in Nat \cup {Ended} /\ returned' \in Seq(Step)
      BY <1>1 DEF Ended
    <3>2. canonicalState' \in Seq(Step)
      BY <1>1, <1>5
    <3>3. verdict' \in [block : Nat \X (Blocks \cup {"none"}), accept : BOOLEAN]
      BY <1>1 DEF IInv, TypeOK
    <3>4. faults' \in 0..MaxFaults /\ base' \in 1..MaxHeight + 1
      BY <1>1, <1>2
    <3>5. stateRoot' \in [height : 0..MaxHeight, tree : Seq(Step)]
      BY <1>1, <1>4
    <3>6. chain' \in Seq((1..MaxHeight) \X Blocks)
      BY <1>1, <1>2
    <3> QED
      BY <3>1, <3>2, <3>3, <3>4, <3>5, <3>6
  <2>6. initState' \in BOOLEAN /\ panicked' \in BOOLEAN /\ known' \in BOOLEAN /\ exposed' \in BOOLEAN
    BY <1>1 DEF IInv, TypeOK
  <2> QED
    BY <2>1, <2>2, <2>3, <2>4, <2>5, <2>6 DEF TypeOK, Kept
<1>7. StateInv'
  BY <1>1, <1>5 DEF StateInv
<1>8. ChainInv' /\ VerdictRight' /\ ~panicked'
  BY <1>1 DEF IInv, ChainInv, VerdictRight
<1>9. KeptInv' /\ StageInv'
  BY <1>1 DEF KeptInv, StageInv, NilProposal
<1>10. PruneInv'
  <2>1. synced.height \in Nat /\ root.height \in Nat
    BY <1>2, <1>4
  <2> QED
    BY <1>1, <1>3, <1>4, <2>1 DEF PruneInv
<1> QED
  BY <1>5, <1>6, <1>7, <1>8, <1>9, <1>10 DEF IInv
\* Every step preserves the invariant.
LEMMA NextInv == IInv /\ [Next]_vars => IInv'
<1> SUFFICES ASSUME IInv, [Next]_vars PROVE IInv'
  OBVIOUS
<1>1. CASE \E id \in Own : PrepareProposal(id)
  BY <1>1, PrepareStep
<1>2. CASE \E id \in Blocks : ProcessProposal(id)
  BY <1>2, ProcessStep
<1>3. CASE \E id \in Blocks : Decide(id)
  BY <1>3, DecideStep
<1>4. CASE BeginBlock
  BY <1>4, BeginStep
<1>5. CASE DeliverTx
  BY <1>5, DeliverStep
<1>6. CASE EndBlock
  BY <1>6, EndStep
<1>7. CASE Commit
  BY <1>7, CommitStep
<1>8. CASE Prune
  BY <1>8, PruneStep
<1>9. CASE PruneDone
  BY <1>9, PruneDoneStep
<1>10. CASE Index
  BY <1>10, IndexStep
<1>11. CASE Crash
  BY <1>11, RestartStep DEF Crash
<1>12. CASE PowerFailure
  BY <1>12, RestartStep DEF PowerFailure
<1>13. CASE UNCHANGED vars
  <2> USE <1>13 DEF vars
  <2>1. TypeOK'
    BY DEF IInv, TypeOK
  <2>2. StateInv' /\ ChainInv' /\ VerdictRight' /\ ~panicked' /\ PruneInv'
    BY DEF IInv, StateInv, StateOf, ChainInv, VerdictRight, PruneInv
  <2>3. {earliest', latest', lastRetained', pruned', indexed'} \subseteq 0..MaxHeight
    BY DEF IInv, TypeOK
  <2>4. /\ synced' \in [height : 0..stateRoot.height, tree : Seq(Step), earliest : 0..MaxHeight]
        /\ known' \in BOOLEAN /\ exposed' \in BOOLEAN
    BY DEF IInv, TypeOK
  <2> QED
    BY <2>2, <2>3, <2>4, PrunerStep DEF chainVars
<1> QED
  BY <1>1, <1>2, <1>3, <1>4, <1>5, <1>6, <1>7, <1>8, <1>9, <1>10, <1>11, <1>12, <1>13 DEF Next

\* The inductive invariant holds throughout: what is executed between decisions
\* never leaks into the state, and pruning stays behind what is synced, but for
\* the first pruning after a start.
THEOREM Invariance == Spec => []IInv
  BY InitInv, NextInv, PTL DEF Spec

\* Every variable stays in its type.
THEOREM TypeCorrect == Spec => []TypeOK
<1>1. IInv => TypeOK
  BY DEF IInv
<1> QED
  BY <1>1, Invariance, PTL

\* CometBFT gets the results of the block it decided on whether they were kept
\* or recomputed, no assertion on kept results fails, verdicts depend on the
\* proposal alone, no version is pruned before its handlers are done, and a
\* replay after a power failure has its blocks unless the pruner of a process
\* that was started after a crash let them go before its first sync.
THEOREM AlwaysExecutesRight == Spec => []ExecutionRight
<1>1. IInv => ExecutionRight
  <2> SUFFICES ASSUME IInv PROVE ExecutionRight
    OBVIOUS
  <2>1. ASSUME stage # 0
        PROVE  IsPrefix(returned, Results(Decided)) /\ (stage = Ended => returned = Results(Decided))
    <3> DEFINE D == Decided
               n == NumTxs[D[2]]
               k == IF stage = Ended THEN n + 3 ELSE stage
    <3>1. Len(chain) > stateRoot.height
      BY <2>1 DEF IInv, StageInv
    <3>2. D \in Nat \X Blocks
      BY <3>1, DecidedTyped DEF IInv
    <3>3. n \in Nat /\ Results(D) = Steps(D, n + 3)
      BY <3>2, BlocksTyped
    <3>4. stage \in 1..n + 2 \cup {Ended} /\ returned = Steps(D, k)
      BY <2>1 DEF IInv, StageInv
    <3>5. k \in 0..n + 3
      BY <3>3, <3>4
    <3> HIDE DEF D, n, k
    <3>6. Steps(D, k) \in Seq(Step) /\ Len(Steps(D, k)) = k
      BY <3>2, <3>3, <3>5, StepsTyped
    <3>7. Steps(D, n + 3) \in Seq(Step) /\ Len(Steps(D, n + 3)) = n + 3
      BY <3>2, <3>3, StepsTyped
    <3>8. SubSeq(Steps(D, k), 1, k) = Steps(D, k) /\ SubSeq(Steps(D, n + 3), 1, k) = Steps(D, k)
      <4>1. k \in Nat /\ k \in 0..k /\ n + 3 \in Nat
        BY <3>3, <3>5
      <4> QED
        BY <3>2, <3>5, <4>1, PrefixOfSteps
    <3>9. stage = Ended => k = n + 3
      BY DEF k
    <3> QED
      BY <3>3, <3>4, <3>5, <3>6, <3>7, <3>8, <3>9 DEF IsPrefix, D
  <2>2. stage = Ended => stage # 0
    BY DEF Ended
  <2>3. ResultsOfDecided
    BY <2>1, <2>2 DEF IInv, ResultsOfDecided
  <2>4. ReplayPossible /\ HandlersFirst
    BY DEF IInv, ReplayPossible, HandlersFirst, PruneInv
  <2> QED
    BY <2>3, <2>4 DEF IInv, ExecutionRight
<1> QED
  BY <1>1, Invariance, PTL
-----------------------------------------------------------------------------
(***************************************************************************)
(* The refinement: a decision of CometBFT is one of the ledger, Commit       *)
(* applies the next block, the pruner's sync makes the state durable, a      *)
(* power failure goes back to it, and every other step changes nothing.      *)
(***************************************************************************)
LEMMA LedgerUnchanged ==
    ASSUME UNCHANGED <<chain, stateRoot, synced>>
    PROVE  UNCHANGED L!ledger
BY DEF L!ledger, StateOf

LEMMA RefinesInit == Init => L!Init
BY DEF Init, L!Init, StateOf

LEMMA RefinesNext == IInv /\ [Next]_vars => [L!Next]_(L!ledger)
<1> SUFFICES ASSUME IInv, [Next]_vars PROVE L!Next \/ UNCHANGED L!ledger
  OBVIOUS
<1>1. ASSUME NEW id \in Own, PrepareProposal(id) PROVE UNCHANGED <<chain, stateRoot, synced>>
  BY <1>1 DEF PrepareProposal, chainVars, stateVars
<1>2. ASSUME NEW id \in Blocks, ProcessProposal(id) PROVE UNCHANGED <<chain, stateRoot, synced>>
  BY <1>2 DEF ProcessProposal, chainVars, stateVars
<1>3. ASSUME NEW id \in Blocks, Decide(id) PROVE L!Next
  <2>1. Height \in Nat \ {0} /\ Height <= MaxHeight
    BY <1>3, HeightTyped DEF IInv, Decide, Proposing
  <2>2. <<Height, id>> \in (1..MaxHeight) \X Blocks
    BY <2>1, ABCIMuxAssumed DEF ABCIMuxAssumption
  <2>3. chain' = Append(chain, <<Height, id>>) /\ UNCHANGED <<stateRoot, synced>>
    BY <1>3 DEF Decide, stateVars
  <2>4. L!Decide(<<Height, id>>)
    BY <2>3 DEF L!Decide, StateOf
  <2> QED
    BY <2>2, <2>4 DEF L!Next
<1>4. ASSUME BeginBlock PROVE UNCHANGED <<chain, stateRoot, synced>>
  BY <1>4 DEF BeginBlock, stateVars
<1>5. ASSUME DeliverTx \/ EndBlock PROVE UNCHANGED <<chain, stateRoot, synced>>
  BY <1>5 DEF DeliverTx, EndBlock, stateVars
<1>6. ASSUME Commit PROVE L!Next
  <2>1. /\ Height <= Len(chain) /\ Decided = chain[Height]
        /\ StateOf(stateRoot)' = StateOf(stateRoot) \o Execute(Decided)
    BY <1>6, CommitStep
  <2>2. stateRoot'.height = Height /\ UNCHANGED <<chain, synced>>
    BY <1>6 DEF Commit
  <2>3. stateRoot.height \in Nat /\ Len(chain) \in Nat /\ Height = stateRoot.height + 1
    BY ABCIMuxAssumed DEF IInv, TypeOK, ABCIMuxAssumption, Height
  <2>4. stateRoot.height < Len(chain)
    BY <2>1, <2>3
  <2>5. L!Apply
    <3>1. StateOf(synced)' = StateOf(synced)
      BY <2>2 DEF StateOf
    <3>2. StateOf(stateRoot)' = StateOf(stateRoot) \o Execute(chain[stateRoot'.height])
      BY <2>1, <2>2
    <3> QED
      BY <2>2, <2>3, <2>4, <3>1, <3>2 DEF L!Apply
  <2> QED
    BY <2>5 DEF L!Next
<1>7. ASSUME Prune PROVE UNCHANGED <<chain, stateRoot, synced>>
  BY <1>7 DEF Prune, chainVars, stateVars
<1>8. ASSUME PruneDone PROVE L!Next
  <2>1. /\ synced' = [height |-> stateRoot.height, tree |-> stateRoot.tree, earliest |-> earliest]
        /\ UNCHANGED <<chain, stateRoot>>
    BY <1>8 DEF PruneDone, Sync, chainVars
  <2>2. synced'.height = stateRoot.height /\ StateOf(synced)' = StateOf(stateRoot) /\ StateOf(stateRoot)' = StateOf(stateRoot)
    BY <2>1 DEF StateOf
  <2>3. L!Sync
    BY <2>1, <2>2 DEF L!Sync
  <2> QED
    BY <2>3 DEF L!Next
<1>9. ASSUME Index PROVE UNCHANGED <<chain, stateRoot, synced>>
  BY <1>9 DEF Index, chainVars, stateVars
<1>10. ASSUME Crash PROVE UNCHANGED <<chain, stateRoot, synced>>
  BY <1>10 DEF Crash, RestartFrom
<1>11. ASSUME PowerFailure PROVE L!Next
  <2>1. stateRoot' = [height |-> synced.height, tree |-> synced.tree] /\ UNCHANGED <<chain, synced>>
    BY <1>11 DEF PowerFailure, RestartFrom
  <2>2. /\ stateRoot'.height = synced.height /\ StateOf(stateRoot)' = StateOf(synced)
        /\ StateOf(synced)' = StateOf(synced)
    BY <2>1 DEF StateOf
  <2>3. L!Lose
    BY <2>1, <2>2 DEF L!Lose
  <2> QED
    BY <2>3 DEF L!Next
<1>12. ASSUME UNCHANGED vars PROVE UNCHANGED <<chain, stateRoot, synced>>
  BY <1>12 DEF vars
<1> QED
  BY <1>1, <1>2, <1>3, <1>4, <1>5, <1>6, <1>7, <1>8, <1>9, <1>10, <1>11, <1>12, LedgerUnchanged DEF Next

\* The multiplexer implements the ledger: the committed state is the decided
\* blocks applied once each, in order, for every schedule of proposals, crashes,
\* power failures and pruning.
THEOREM Refinement == Spec => ImplementsLedger
  BY RefinesInit, RefinesNext, Invariance, PTL DEF Spec, ImplementsLedger, L!Spec

-----------------------------------------------------------------------------
(***************************************************************************)
(* The secrets of the key manager, for every set of nodes, any number of     *)
(* epochs, secrets, policies and faults.  The invariant has, for the master   *)
(* secrets, that the checksum of consensus is a chain that only grows, that   *)
(* an enclave has a part of it and has stored the secrets of this part, and   *)
(* that a response which is registered is a promise about the disk that a     *)
(* restart does not take back.                                                *)
(***************************************************************************)
CONSTANTS Nodes, Committee, Faulty, RotationInterval, ReplicationPercent, Kinds, MaxRetries, MaxEpoch,
          MaxSecrets, MaxPolicy, MaxNodeFaults

VARIABLES epoch, status, published, reg, txs, worker, enclave, disk, made, nodeFaults

\* The secrets of the key manager.
KM == INSTANCE KMSecrets WITH MaxFaults <- MaxNodeFaults, faults <- nodeFaults

\* The records of the key manager.
Checksums == Seq(Nat)
StatusType == [generation : Nat, rotationEpoch : Nat, checksum : Checksums, nodes : SUBSET Nodes, policy : Nat, nextPolicy : Nat]
SecretType == [generation : Nat, epoch : Nat, secret : Nat, checksum : Checksums, reks : SUBSET (Nodes \X Nat),
               node : Nodes \cup {"none"}, rak : Nat]
ResponseType == [rak : Nat, checksum : Checksums, next : Checksums, policy : Nat]
RegType == [rek : Nat, rsp : ResponseType]
InitType == [phase : {"none", "call", "replicate"}, status : StatusType, next : Nat, generation : Int, checksum : Checksums,
             last : Checksums, startup : BOOLEAN, policy : Nat]
WorkerType == [up : BOOLEAN, status : StatusType, init : InitType, required : BOOLEAN, ticker : BOOLEAN, rsp : ResponseType,
               seen : [KM!AllKinds -> SecretType], load : [KM!AllKinds -> Nat], gen : [KM!AllKinds -> Nat],
               busy : [KM!AllKinds -> BOOLEAN], events : SUBSET KM!AllKinds]
EphemeralType == [epoch : Nat, secret : Nat]
EnclaveType == [rek : Nat, ready : BOOLEAN, generation : Int, checksum : Checksums, next : Checksums, policy : Nat,
                eph : SUBSET EphemeralType]
ProposalType == [generation : Nat, secret : Nat]
DiskType == [secret : [KM!Generations -> Nat], checksum : [KM!Generations -> Checksums], proposal : ProposalType]
TxType == [kind : KM!AllKinds, secret : SecretType]

\* The first checksum is of a part of what the second one is of.
Extends(c, d) == Len(c) <= Len(d) /\ \A i \in 1..Len(c) : d[i] = c[i]

\* The checksum of consensus is of one secret per generation; m is the number
\* of secrets that were made, and later ones have larger numbers.
Chained(s, m) ==
    IF s.checksum = <<>> THEN s.generation = 0
    ELSE /\ Len(s.checksum) = s.generation + 2 /\ s.checksum[1] = 0
         /\ \A g \in 0..s.generation : s.checksum[g + 2] \in (g + 1)..m

\* A master secret with its checksum.
SecretChained(x, m) ==
    /\ Len(x.checksum) = x.generation + 2 /\ x.checksum[1] = 0
    /\ x.checksum[x.generation + 2] = x.secret
    /\ x.secret \in (x.generation + 1)..m
    /\ \A i \in 1..Len(x.checksum) : x.checksum[i] \in 0..m

\* What was submitted was made from a generation that consensus had.
TxOK(s, x, m) ==
    /\ SecretChained(x, m)
    /\ x.generation # 0 =>
          /\ s.checksum # <<>> /\ x.generation <= s.generation + 1
          /\ \A i \in 1..x.generation + 1 : x.checksum[i] = s.checksum[i]

\* The published master secret is the last one or the next one; for the next
\* epoch it is only published when the policy lets it rotate.
PublishedOK(s, p, e, m) ==
    /\ p.epoch <= e + 1
    /\ p.secret = 0 => p.generation = 0 /\ p.checksum = <<>> /\ s.checksum = <<>>
    /\ p.secret # 0 =>
          /\ SecretChained(p, m)
          /\ p.generation \in {s.generation, KM!NextGeneration(s)}
          /\ p.generation = KM!NextGeneration(s) => Extends(s.checksum, p.checksum)
          /\ s.checksum # <<>> /\ p.generation = s.generation => p.checksum = s.checksum
          /\ s.checksum # <<>> /\ p.generation = s.generation + 1 /\ p.epoch = e + 1 => KM!RotationDue(s, p.epoch)

\* The secrets up to generation g are stored.
SecretsKept(d, g) == \A h \in KM!Generations : h <= g => d.secret[h] # 0

EnclaveOK(s, en, d) ==
    \/ en.generation = -1 /\ en.checksum = <<>>
    \/ /\ en.generation \in 0..s.generation /\ s.checksum # <<>>
       /\ Len(en.checksum) = en.generation + 2 /\ Extends(en.checksum, s.checksum)
       /\ SecretsKept(d, en.generation)

\* Only secrets that consensus has accepted are stored.
DiskOK(s, d) ==
    \A g \in KM!Generations : d.secret[g] # 0 => s.checksum # <<>> /\ g <= s.generation /\ d.secret[g] = s.checksum[g + 2]

\* Replication has a status of consensus and stores what is missing of it,
\* from above.
InitOK(s, i, d) ==
    i.phase = "replicate" =>
        /\ i.status.checksum # <<>> /\ Len(i.status.checksum) = i.status.generation + 2
        /\ Extends(i.status.checksum, s.checksum) /\ i.status.generation <= s.generation
        /\ i.generation \in -1..i.status.generation
        /\ SecretsKept(d, i.next - 1)
        /\ \A h \in KM!Generations : h > i.generation /\ h <= i.status.generation => d.secret[h] # 0

\* A response with a checksum comes from a node that has stored its secrets.
ResponseOK(rsp, d) == SecretsKept(d, Len(rsp.checksum) - 2)

\* The one whose next checksum is that of the published secret has it.
NextOK(p, c, d) == c # <<>> /\ c = p.checksum => d.proposal = [generation |-> p.generation, secret |-> p.secret]

NodeOK(s, p, w, en, d, r) ==
    /\ EnclaveOK(s, en, d) /\ DiskOK(s, d) /\ InitOK(s, w.init, d)
    /\ ResponseOK(w.rsp, d) /\ ResponseOK(r.rsp, d)
    /\ NextOK(p, en.next, d) /\ NextOK(p, w.rsp.next, d) /\ NextOK(p, r.rsp.next, d)

\* A member of the committee has every secret, the last one maybe as a
\* proposal.
MemberOK(s, d) ==
    s.checksum # <<>> => \A g \in 0..s.generation :
        d.secret[g] # 0 \/ (g = s.generation /\ d.proposal = [generation |-> g, secret |-> s.checksum[g + 2]])

\* No submitted secret has checksum c, nor will one that is made later.
FreshIn(T, m, c) ==
    /\ \A i \in 1..Len(c) : c[i] <= m
    /\ \A x \in T : x.kind = "master" => c # x.secret.checksum

NodeFresh(T, m, w, en, r) == FreshIn(T, m, en.next) /\ FreshIn(T, m, w.rsp.next) /\ FreshIn(T, m, r.rsp.next)

\* Ephemeral secrets are those that were published, once in an epoch.
EphemeralOK(pe, eph) == \A x \in eph : x.epoch <= pe.epoch /\ (x.epoch = pe.epoch => x.secret = pe.secret)

KMTypes ==
    /\ epoch \in 1..MaxEpoch /\ made \in 0..MaxSecrets /\ nodeFaults \in 0..MaxNodeFaults
    /\ status \in StatusType /\ published \in [KM!AllKinds -> SecretType]
    /\ reg \in [Nodes -> RegType] /\ txs \in SUBSET TxType
    /\ worker \in [Nodes -> WorkerType] /\ enclave \in [Nodes -> EnclaveType] /\ disk \in [Nodes -> DiskType]

TxsOK(s, T, m) ==
    /\ \A x \in T : x.kind = "master" => TxOK(s, x.secret, m)
    /\ \A x, y \in T : x.kind = "master" /\ y.kind = "master" /\ x.secret.secret = y.secret.secret => x = y

EphemeralAgree ==
    /\ published["ephemeral"].epoch <= epoch + 1
    /\ \A n \in Nodes : EphemeralOK(published["ephemeral"], enclave[n].eph)
    /\ \A n, m \in Nodes : \A x \in enclave[n].eph, y \in enclave[m].eph : x.epoch = y.epoch => x = y

MasterInv ==
    /\ Chained(status, made)
    /\ PublishedOK(status, published["master"], epoch, made)
    /\ TxsOK(status, txs, made)
    /\ FreshIn(txs, made, published["master"].checksum)
    /\ \A n \in Nodes : /\ NodeOK(status, published["master"], worker[n], enclave[n], disk[n], reg[n])
                        /\ NodeFresh(txs, made, worker[n], enclave[n], reg[n])
    /\ \A n \in status.nodes : MemberOK(status, disk[n])

KMInv == KMTypes /\ MasterInv /\ EphemeralAgree

-----------------------------------------------------------------------------
\* The constants of the records.
LEMMA NothingTyped ==
    ASSUME KM!KMSecretsAssumption
    PROVE  /\ KM!NoStatus \in StatusType /\ KM!NoSecret \in SecretType /\ KM!NoResponse \in ResponseType
           /\ KM!NoInit \in InitType /\ KM!Started \in WorkerType /\ KM!Blank \in DiskType
<1>1. <<>> \in Checksums
  BY DEF Checksums
<1>2. KM!NoStatus \in StatusType
  BY <1>1 DEF KM!NoStatus, StatusType
<1>3. KM!NoSecret \in SecretType
  BY <1>1 DEF KM!NoSecret, SecretType
<1>4. KM!NoResponse \in ResponseType
  BY <1>1 DEF KM!NoResponse, ResponseType
<1>5. KM!NoInit \in InitType
  BY <1>1, <1>2 DEF KM!NoInit, InitType
<1>6. KM!Started \in WorkerType
  <2>1. /\ [k \in KM!AllKinds |-> KM!NoSecret] \in [KM!AllKinds -> SecretType]
        /\ [k \in KM!AllKinds |-> 0] \in [KM!AllKinds -> Nat]
        /\ [k \in KM!AllKinds |-> FALSE] \in [KM!AllKinds -> BOOLEAN]
    BY <1>3
  <2> QED
    BY <1>2, <1>4, <1>5, <2>1 DEF KM!Started, WorkerType
<1>7. KM!Blank \in DiskType
  BY <1>1 DEF KM!Blank, DiskType, ProposalType
<1> QED
  BY <1>2, <1>3, <1>4, <1>5, <1>6, <1>7

\* A worker that keeps its response, and that replicates only what it did.
WorkerKeeps(w, v) ==
    /\ v \in WorkerType /\ v.rsp = w.rsp
    /\ v.init = w.init \/ v.init.phase \in {"none", "call"}

\* Asking for an init call.
LEMMA HandleInitKeeps ==
    ASSUME KM!KMSecretsAssumption, NEW w \in WorkerType
    PROVE  WorkerKeeps(w, KM!HandleInitEnclave(w))
<1> DEFINE i == [KM!NoInit EXCEPT !.phase = "call", !.status = w.status]
           v == [w EXCEPT !.required = FALSE, !.init = i]
<1>1. w.status \in StatusType
  BY DEF WorkerType
<1>2. i \in InitType /\ i.phase = "call"
  BY <1>1, NothingTyped DEF InitType
<1> HIDE DEF i
<1>3. v \in WorkerType /\ v.init = i /\ v.rsp = w.rsp
  BY <1>2 DEF WorkerType
<1>4. WorkerKeeps(w, v)
  BY <1>2, <1>3 DEF WorkerKeeps
<1>5. [w EXCEPT !.required = TRUE] \in WorkerType /\ [w EXCEPT !.required = TRUE].rsp = w.rsp /\ [w EXCEPT !.required = TRUE].init = w.init
  BY DEF WorkerType
<1>6. WorkerKeeps(w, [w EXCEPT !.required = TRUE]) /\ WorkerKeeps(w, w)
  BY <1>5 DEF WorkerKeeps
<1> HIDE DEF v
<1>7. KM!HandleInitEnclave(w) \in {w, v, [w EXCEPT !.required = TRUE]}
  BY DEF KM!HandleInitEnclave, v, i
<1> QED
  BY <1>4, <1>6, <1>7

\* The end of an init call.
LEMMA HandleDone ==
    ASSUME KM!KMSecretsAssumption, NEW w \in WorkerType, NEW rsp \in ResponseType
    PROVE  LET v == KM!HandleInitEnclaveDone(w, rsp)
           IN  v \in WorkerType /\ v.rsp \in {w.rsp, rsp} /\ v.init.phase \in {"none", "call"}
<1> DEFINE t == IF rsp.rak = 0 THEN w.ticker \/ ~w.required ELSE FALSE
           e == [w EXCEPT !.init = KM!NoInit, !.ticker = t]
           h == KM!HandleInitEnclave(e)
           x == [e EXCEPT !.rsp = rsp]
<1>1. t \in BOOLEAN
  BY DEF WorkerType
<1> HIDE DEF t
<1>2. KM!NoInit \in InitType /\ KM!NoInit.phase = "none"
  BY NothingTyped DEF KM!NoInit
<1>3. e \in WorkerType /\ e.rsp = w.rsp /\ e.init = KM!NoInit
  BY <1>1, <1>2 DEF WorkerType
<1>4. KM!HandleInitEnclaveDone(w, rsp) \in {h, e, x}
  BY DEF KM!HandleInitEnclaveDone, t
<1> HIDE DEF e
<1>5. h \in WorkerType /\ h.rsp = e.rsp /\ h.init.phase \in {"none", "call"}
  BY <1>2, <1>3, HandleInitKeeps DEF WorkerKeeps
<1>6. x \in WorkerType /\ x.rsp = rsp /\ x.init = e.init
  BY <1>3 DEF WorkerType
<1> HIDE DEF h, x
<1> QED
  BY <1>2, <1>3, <1>4, <1>5, <1>6

-----------------------------------------------------------------------------
\* A disk that has the same proposal and at least the same secrets.
Grows(d, e) ==
    /\ e \in DiskType /\ e.proposal = d.proposal
    /\ \A h \in KM!Generations : d.secret[h] # 0 => e.secret[h] # 0

\* Such a disk keeps what was promised.
LEMMA GrowsKeeps ==
    ASSUME NEW d, NEW e, Grows(d, e), NEW s
    PROVE  /\ \A g : SecretsKept(d, g) => SecretsKept(e, g)
           /\ \A en : EnclaveOK(s, en, d) => EnclaveOK(s, en, e)
           /\ \A i : InitOK(s, i, d) => InitOK(s, i, e)
           /\ \A rsp : ResponseOK(rsp, d) => ResponseOK(rsp, e)
           /\ \A p, c : NextOK(p, c, d) => NextOK(p, c, e)
<1>1. \A g : SecretsKept(d, g) => SecretsKept(e, g)
  BY DEF Grows, SecretsKept
<1>2. \A en : EnclaveOK(s, en, d) => EnclaveOK(s, en, e)
  BY <1>1 DEF EnclaveOK
<1>3. ASSUME NEW i, InitOK(s, i, d) PROVE InitOK(s, i, e)
  BY <1>1, <1>3 DEF InitOK, Grows
<1>4. \A rsp : ResponseOK(rsp, d) => ResponseOK(rsp, e)
  BY <1>1 DEF ResponseOK
<1>5. \A p, c : NextOK(p, c, d) => NextOK(p, c, e)
  BY DEF NextOK, Grows
<1> QED
  BY <1>1, <1>2, <1>3, <1>4, <1>5

\* The generations of consensus fit on the disk.
LEMMA GenerationBound ==
    ASSUME KM!KMSecretsAssumption, NEW s \in StatusType, NEW m \in 0..MaxSecrets, Chained(s, m), s.checksum # <<>>
    PROVE  /\ s.generation \in KM!Generations /\ 0..s.generation \subseteq KM!Generations
           /\ s.generation < m /\ Len(s.checksum) = s.generation + 2
<1>1. s.generation \in Nat /\ s.generation \in 0..s.generation
  BY DEF StatusType
<1>2. s.checksum[s.generation + 2] \in (s.generation + 1)..m /\ Len(s.checksum) = s.generation + 2
  BY <1>1 DEF Chained
<1>3. s.generation < m /\ MaxSecrets \in Nat
  BY <1>1, <1>2 DEF KM!KMSecretsAssumption
<1> QED
  BY <1>1, <1>2, <1>3 DEF KM!Generations

\* It keeps what the committee relies on.
LEMMA GrowsMember ==
    ASSUME KM!KMSecretsAssumption, NEW d, NEW e, Grows(d, e), NEW s, NEW m \in 0..MaxSecrets, Chained(s, m), s \in StatusType, MemberOK(s, d)
    PROVE  MemberOK(s, e)
<1>1. s.checksum # <<>> => 0..s.generation \subseteq KM!Generations
  BY GenerationBound
<1> QED
  BY <1>1 DEF MemberOK, Grows

\* A checksum that grows.
LEMMA ExtendsTransitive ==
    ASSUME NEW a \in Checksums, NEW b \in Checksums, NEW c \in Checksums, Extends(a, b), Extends(b, c)
    PROVE  Extends(a, c)
<1>1. Len(a) \in Nat /\ Len(b) \in Nat /\ Len(c) \in Nat
  BY DEF Checksums
<1> QED
  BY <1>1 DEF Extends

\* The status, the secrets that are published and submitted when more secrets
\* are made.
LEMMA MadeGrows ==
    ASSUME NEW s \in StatusType, NEW m \in Nat, NEW k \in Nat, m <= k, Chained(s, m)
    PROVE  /\ Chained(s, k)
           /\ \A p \in SecretType : SecretChained(p, m) => SecretChained(p, k)
           /\ \A p \in SecretType, e \in Nat : PublishedOK(s, p, e, m) => PublishedOK(s, p, e, k)
           /\ \A p \in SecretType : TxOK(s, p, m) => TxOK(s, p, k)
<1>1. s.generation \in Nat
  BY DEF StatusType
<1>2. Chained(s, k)
  BY <1>1 DEF Chained
<1>3. ASSUME NEW p \in SecretType, SecretChained(p, m) PROVE SecretChained(p, k)
  <2>1. p.generation \in Nat /\ p.secret \in Nat
    BY DEF SecretType
  <2>2. p.secret \in (p.generation + 1)..k
    BY <1>3, <2>1 DEF SecretChained
  <2>3. \A i \in 1..Len(p.checksum) : p.checksum[i] \in 0..k
    BY <1>3 DEF SecretChained
  <2> QED
    BY <1>3, <2>2, <2>3 DEF SecretChained
<1>4. \A p \in SecretType, e \in Nat : PublishedOK(s, p, e, m) => PublishedOK(s, p, e, k)
  BY <1>3 DEF PublishedOK
<1>5. \A p \in SecretType : TxOK(s, p, m) => TxOK(s, p, k)
  BY <1>3 DEF TxOK
<1> QED
  BY <1>2, <1>3, <1>4, <1>5

\* A step of one node.
LEMMA OneNode ==
    ASSUME KM!KMSecretsAssumption, KMInv, KMTypes', NEW n \in Nodes,
           UNCHANGED <<epoch, status, published>>,
           \A o \in Nodes \ {n} : /\ worker'[o] = worker[o] /\ enclave'[o] = enclave[o]
                                  /\ disk'[o] = disk[o] /\ reg'[o] = reg[o],
           made <= made', TxsOK(status, txs', made'),
           \A c \in Checksums : FreshIn(txs, made, c) => FreshIn(txs', made', c),
           NodeOK(status, published["master"], worker'[n], enclave'[n], disk'[n], reg'[n]),
           NodeFresh(txs', made', worker'[n], enclave'[n], reg'[n]),
           MemberOK(status, disk[n]) => MemberOK(status, disk'[n]),
           \A x \in enclave'[n].eph :
               \/ \E o \in Nodes : x \in enclave[o].eph
               \/ x = [epoch |-> published["ephemeral"].epoch, secret |-> published["ephemeral"].secret]
    PROVE  KMInv'
<1>1. /\ status \in StatusType /\ published["master"] \in SecretType /\ made \in Nat /\ made' \in Nat /\ epoch \in Nat
      /\ published["master"].checksum \in Checksums
      /\ \A o \in Nodes : /\ worker[o].rsp.next \in Checksums /\ enclave[o].next \in Checksums /\ reg[o].rsp.next \in Checksums
  BY DEF KMInv, KMTypes, KM!AllKinds, SecretType, WorkerType, EnclaveType, RegType, ResponseType
<1>2. Chained(status, made') /\ PublishedOK(status, published["master"], epoch, made')
  BY <1>1, MadeGrows DEF KMInv, MasterInv
<1>3. FreshIn(txs', made', published["master"].checksum)
  BY <1>1 DEF KMInv, MasterInv
<1>4. ASSUME NEW o \in Nodes
      PROVE  /\ NodeOK(status, published["master"], worker'[o], enclave'[o], disk'[o], reg'[o])
             /\ NodeFresh(txs', made', worker'[o], enclave'[o], reg'[o])
  <2>1. CASE o = n
    BY <2>1
  <2>2. CASE o # n
    <3>1. /\ NodeOK(status, published["master"], worker[o], enclave[o], disk[o], reg[o])
          /\ NodeFresh(txs, made, worker[o], enclave[o], reg[o])
      BY DEF KMInv, MasterInv
    <3>2. NodeFresh(txs', made', worker[o], enclave[o], reg[o])
      BY <1>1, <3>1 DEF NodeFresh
    <3>3. worker'[o] = worker[o] /\ enclave'[o] = enclave[o] /\ disk'[o] = disk[o] /\ reg'[o] = reg[o]
      BY <2>2
    <3> QED
      BY <3>1, <3>2, <3>3
  <2> QED
    BY <2>1, <2>2
<1>5. ASSUME NEW o \in status.nodes PROVE MemberOK(status, disk'[o])
  <2>1. o \in Nodes
    BY <1>1 DEF StatusType
  <2>2. MemberOK(status, disk[o])
    BY DEF KMInv, MasterInv
  <2> QED
    BY <2>1, <2>2
<1>6. MasterInv'
  BY <1>2, <1>3, <1>4, <1>5 DEF MasterInv
<1>7. EphemeralAgree'
  <2> DEFINE pe == published["ephemeral"]
             q == [epoch |-> pe.epoch, secret |-> pe.secret]
  <2>0. /\ pe \in SecretType /\ pe.epoch \in Nat
        /\ \A o \in Nodes : enclave[o].eph \subseteq EphemeralType /\ enclave'[o].eph \subseteq EphemeralType
    BY DEF KMInv, KMTypes, KM!AllKinds, SecretType, EnclaveType
  <2>1. /\ \A o \in Nodes : EphemeralOK(pe, enclave[o].eph)
        /\ \A o, m \in Nodes : \A x \in enclave[o].eph, y \in enclave[m].eph : x.epoch = y.epoch => x = y
        /\ pe.epoch <= epoch + 1
    BY DEF KMInv, EphemeralAgree
  <2>2. \A o \in Nodes : \A x \in enclave'[o].eph : (\E m \in Nodes : x \in enclave[m].eph) \/ x = q
    OBVIOUS
  <2>3. \A x \in EphemeralType, y \in EphemeralType : x.epoch = y.epoch /\ x.secret = y.secret => x = y
    BY DEF EphemeralType
  <2>4. q \in EphemeralType /\ q.epoch = pe.epoch /\ q.secret = pe.secret
    BY <2>0 DEF EphemeralType, SecretType
  <2> HIDE DEF q
  <2>5. \A o \in Nodes : EphemeralOK(pe, enclave'[o].eph)
    BY <2>0, <2>1, <2>2, <2>4 DEF EphemeralOK
  <2>6. ASSUME NEW o \in Nodes, NEW m \in Nodes, NEW x \in enclave'[o].eph, NEW y \in enclave'[m].eph, x.epoch = y.epoch
        PROVE  x = y
    <3>1. CASE x = q \/ y = q
      <4>1. x.epoch = pe.epoch /\ y.epoch = pe.epoch
        BY <2>4, <2>6, <3>1
      <4>2. x.secret = pe.secret /\ y.secret = pe.secret
        BY <2>5, <4>1 DEF EphemeralOK
      <4> QED
        BY <2>0, <2>3, <2>6, <4>2
    <3>2. CASE x # q /\ y # q
      <4>1. PICK a \in Nodes : x \in enclave[a].eph
        BY <2>2, <3>2
      <4>2. PICK b \in Nodes : y \in enclave[b].eph
        BY <2>2, <3>2
      <4> QED
        BY <2>1, <2>6, <4>1, <4>2
    <3> QED
      BY <3>1, <3>2
  <2> QED
    BY <2>1, <2>5, <2>6 DEF EphemeralAgree
<1> QED
  BY <1>6, <1>7 DEF KMInv

\* What the invariant says of one node.
LEMMA NodeParts ==
    ASSUME KM!KMSecretsAssumption, KMInv, NEW n \in Nodes
    PROVE  /\ worker[n] \in WorkerType /\ enclave[n] \in EnclaveType /\ disk[n] \in DiskType /\ reg[n] \in RegType
           /\ status \in StatusType /\ published["master"] \in SecretType /\ made \in 0..MaxSecrets /\ made \in Nat
           /\ epoch \in Nat /\ MaxSecrets \in Nat
           /\ Chained(status, made) /\ PublishedOK(status, published["master"], epoch, made)
           /\ TxsOK(status, txs, made) /\ FreshIn(txs, made, published["master"].checksum)
           /\ NodeOK(status, published["master"], worker[n], enclave[n], disk[n], reg[n])
           /\ NodeFresh(txs, made, worker[n], enclave[n], reg[n])
<1>1. /\ worker[n] \in WorkerType /\ enclave[n] \in EnclaveType /\ disk[n] \in DiskType /\ reg[n] \in RegType
      /\ status \in StatusType /\ published["master"] \in SecretType /\ made \in 0..MaxSecrets /\ made \in Nat
      /\ epoch \in Nat /\ MaxSecrets \in Nat
  BY DEF KMInv, KMTypes, KM!AllKinds, KM!KMSecretsAssumption
<1>2. /\ Chained(status, made) /\ PublishedOK(status, published["master"], epoch, made)
      /\ TxsOK(status, txs, made) /\ FreshIn(txs, made, published["master"].checksum)
      /\ NodeOK(status, published["master"], worker[n], enclave[n], disk[n], reg[n])
      /\ NodeFresh(txs, made, worker[n], enclave[n], reg[n])
  BY DEF KMInv, MasterInv
<1> QED
  BY <1>1, <1>2

\* A step of one node that submits nothing.
LEMMA NodeAlone ==
    ASSUME KM!KMSecretsAssumption, KMInv, NEW n \in Nodes,
           UNCHANGED <<epoch, status, published, txs, made>>, nodeFaults' \in 0..MaxNodeFaults,
           NEW w \in WorkerType, NEW en \in EnclaveType, NEW d \in DiskType, NEW r \in RegType,
           worker' = [worker EXCEPT ![n] = w], enclave' = [enclave EXCEPT ![n] = en],
           disk' = [disk EXCEPT ![n] = d], reg' = [reg EXCEPT ![n] = r],
           NodeOK(status, published["master"], w, en, d, r),
           NodeFresh(txs, made, w, en, r),
           MemberOK(status, disk[n]) => MemberOK(status, d),
           \A x \in en.eph :
               \/ \E o \in Nodes : x \in enclave[o].eph
               \/ x = [epoch |-> published["ephemeral"].epoch, secret |-> published["ephemeral"].secret]
    PROVE  KMInv'
<1>1. /\ worker \in [Nodes -> WorkerType] /\ enclave \in [Nodes -> EnclaveType]
      /\ disk \in [Nodes -> DiskType] /\ reg \in [Nodes -> RegType]
  BY DEF KMInv, KMTypes
<1>2. /\ worker' \in [Nodes -> WorkerType] /\ enclave' \in [Nodes -> EnclaveType]
      /\ disk' \in [Nodes -> DiskType] /\ reg' \in [Nodes -> RegType]
      /\ worker'[n] = w /\ enclave'[n] = en /\ disk'[n] = d /\ reg'[n] = r
      /\ \A o \in Nodes \ {n} : /\ worker'[o] = worker[o] /\ enclave'[o] = enclave[o]
                                /\ disk'[o] = disk[o] /\ reg'[o] = reg[o]
  BY <1>1
<1>3. KMTypes'
  BY <1>2 DEF KMInv, KMTypes
<1>4. made <= made' /\ TxsOK(status, txs', made') /\ \A c \in Checksums : FreshIn(txs, made, c) => FreshIn(txs', made', c)
  BY NodeParts
<1> QED
  BY <1>2, <1>3, <1>4, OneNode

\* A node whose worker and registration change, and nothing else.
LEMMA WorkerStep ==
    ASSUME KM!KMSecretsAssumption, KMInv, NEW n \in Nodes,
           UNCHANGED <<epoch, status, published, txs, made, nodeFaults, enclave, disk>>,
           NEW w, NEW r \in RegType, WorkerKeeps(worker[n], w),
           worker' = [worker EXCEPT ![n] = w], reg' = [reg EXCEPT ![n] = r],
           r.rsp \in {reg[n].rsp, worker[n].rsp}
    PROVE  KMInv'
<1>1. /\ NodeOK(status, published["master"], worker[n], enclave[n], disk[n], reg[n])
      /\ NodeFresh(txs, made, worker[n], enclave[n], reg[n])
      /\ enclave[n] \in EnclaveType /\ disk[n] \in DiskType
  BY NodeParts
<1>2. w \in WorkerType /\ w.rsp = worker[n].rsp /\ (w.init = worker[n].init \/ w.init.phase \in {"none", "call"})
  BY DEF WorkerKeeps
<1>3. InitOK(status, w.init, disk[n])
  BY <1>1, <1>2 DEF NodeOK, InitOK
<1>4. NodeOK(status, published["master"], w, enclave[n], disk[n], r)
  BY <1>1, <1>2, <1>3 DEF NodeOK
<1>5. NodeFresh(txs, made, w, enclave[n], r)
  BY <1>1, <1>2 DEF NodeFresh
<1>6. enclave' = [enclave EXCEPT ![n] = enclave[n]] /\ disk' = [disk EXCEPT ![n] = disk[n]] /\ nodeFaults' \in 0..MaxNodeFaults
  BY DEF KMInv, KMTypes
<1>7. /\ \A x \in enclave[n].eph :
               \/ \E o \in Nodes : x \in enclave[o].eph
               \/ x = [epoch |-> published["ephemeral"].epoch, secret |-> published["ephemeral"].secret]
      /\ MemberOK(status, disk[n]) => MemberOK(status, disk[n])
      /\ UNCHANGED <<epoch, status, published, txs, made>>
  OBVIOUS
<1> QED
  BY <1>1, <1>2, <1>4, <1>5, <1>6, <1>7, NodeAlone

\* The worker is told of a new status.
LEMMA StatusUpdateKeeps == ASSUME KM!KMSecretsAssumption, KMInv, NEW n \in Nodes, KM!HandleStatusUpdate(n) PROVE KMInv'
<1> DEFINE v == [worker[n] EXCEPT !.up = TRUE, !.status = status]
           w == KM!HandleInitEnclave(v)
<1>1. worker[n] \in WorkerType /\ status \in StatusType /\ reg[n] \in RegType /\ reg \in [Nodes -> RegType]
  BY NodeParts DEF KMInv, KMTypes
<1>2. v \in WorkerType /\ v.rsp = worker[n].rsp /\ v.init = worker[n].init
  BY <1>1 DEF WorkerType
<1>3. /\ worker' = [worker EXCEPT ![n] = w]
      /\ UNCHANGED <<epoch, status, published, reg, txs, enclave, disk, made, nodeFaults>>
  BY DEF KM!HandleStatusUpdate
<1> HIDE DEF v
<1>4. WorkerKeeps(worker[n], w)
  BY <1>2, HandleInitKeeps DEF WorkerKeeps
<1>5. reg' = [reg EXCEPT ![n] = reg[n]]
  BY <1>1, <1>3
<1> HIDE DEF w
<1> QED
  BY <1>1, <1>3, <1>4, <1>5, WorkerStep

\* It retries an init call.
LEMMA InitRetryKeeps == ASSUME KM!KMSecretsAssumption, KMInv, NEW n \in Nodes, KM!InitEnclaveRetry(n) PROVE KMInv'
<1> DEFINE w == KM!HandleInitEnclave(worker[n])
<1>1. worker[n] \in WorkerType /\ reg[n] \in RegType /\ reg \in [Nodes -> RegType]
  BY NodeParts DEF KMInv, KMTypes
<1>2. /\ worker' = [worker EXCEPT ![n] = w]
      /\ UNCHANGED <<epoch, status, published, reg, txs, enclave, disk, made, nodeFaults>>
  BY DEF KM!InitEnclaveRetry
<1>3. WorkerKeeps(worker[n], w)
  BY <1>1, HandleInitKeeps
<1>4. reg' = [reg EXCEPT ![n] = reg[n]]
  BY <1>1, <1>2
<1> HIDE DEF w
<1> QED
  BY <1>1, <1>2, <1>3, <1>4, WorkerStep

\* The node is registered with the response of its worker.
LEMMA RegisterKeeps == ASSUME KM!KMSecretsAssumption, KMInv, NEW n \in Nodes, KM!RegisterNode(n) PROVE KMInv'
<1> DEFINE r == [rek |-> enclave[n].rek, rsp |-> worker[n].rsp]
<1>1. worker[n] \in WorkerType /\ worker \in [Nodes -> WorkerType] /\ enclave[n] \in EnclaveType
  BY NodeParts DEF KMInv, KMTypes
<1>2. r \in RegType /\ r.rsp = worker[n].rsp
  BY <1>1 DEF RegType, WorkerType, EnclaveType
<1>3. reg' = [reg EXCEPT ![n] = r] /\ UNCHANGED <<epoch, status, published, txs, worker, enclave, disk, made, nodeFaults>>
  BY DEF KM!RegisterNode
<1>4. WorkerKeeps(worker[n], worker[n]) /\ worker' = [worker EXCEPT ![n] = worker[n]]
  BY <1>1, <1>3 DEF WorkerKeeps
<1> HIDE DEF r
<1> QED
  BY <1>2, <1>3, <1>4, WorkerStep

-----------------------------------------------------------------------------
\* An enclave that was reset, or that has started.
LEMMA ResetTyped ==
    ASSUME KM!KMSecretsAssumption, NEW en \in EnclaveType, NEW k \in Nat
    PROVE  /\ KM!Empty(k) \in EnclaveType /\ KM!Empty(k).next = <<>> /\ KM!Empty(k).eph = {}
           /\ KM!Empty(k).generation = -1 /\ KM!Empty(k).checksum = <<>>
           /\ KM!Reset(en) \in EnclaveType /\ KM!Reset(en).next = en.next /\ KM!Reset(en).eph = {}
           /\ KM!Reset(en).generation = -1 /\ KM!Reset(en).checksum = <<>>
<1>1. <<>> \in Checksums
  BY DEF Checksums
<1>2. ASSUME NEW j \in Nat
      PROVE  /\ KM!Empty(j) \in EnclaveType /\ KM!Empty(j).next = <<>> /\ KM!Empty(j).eph = {}
             /\ KM!Empty(j).generation = -1 /\ KM!Empty(j).checksum = <<>>
  BY <1>1 DEF KM!Empty, EnclaveType
<1>3. en.rek \in Nat /\ en.next \in Checksums /\ en.policy \in Nat
  BY DEF EnclaveType
<1>4. /\ KM!Reset(en) \in EnclaveType /\ KM!Reset(en).next = en.next /\ KM!Reset(en).eph = {}
      /\ KM!Reset(en).generation = -1 /\ KM!Reset(en).checksum = <<>>
  <2> DEFINE b == KM!Empty(en.rek)
  <2>1. b \in EnclaveType /\ b.eph = {} /\ b.generation = -1 /\ b.checksum = <<>>
    BY <1>2, <1>3
  <2>2. KM!Reset(en) = [b EXCEPT !.next = en.next, !.policy = en.policy]
    BY DEF KM!Reset
  <2> HIDE DEF b
  <2> QED
    BY <1>3, <2>1, <2>2 DEF EnclaveType
<1> QED
  BY <1>2, <1>4

\* A checksum that is none promises nothing.
LEMMA NoPromise ==
    ASSUME KM!KMSecretsAssumption, NEW d
    PROVE  /\ \A rsp : rsp.checksum = <<>> => ResponseOK(rsp, d)
           /\ \A p : NextOK(p, <<>>, d)
           /\ \A T, m : (\A x \in T : x.kind = "master" => x.secret.checksum # <<>>) => FreshIn(T, m, <<>>)
BY DEF ResponseOK, SecretsKept, NextOK, FreshIn, KM!Generations

\* No submitted secret is without a checksum.
LEMMA TxsHaveChecksums ==
    ASSUME KM!KMSecretsAssumption, KMInv
    PROVE  FreshIn(txs, made, <<>>)
<1>1. ASSUME NEW x \in txs, x.kind = "master" PROVE x.secret.checksum # <<>>
  <2>1. x.secret \in SecretType /\ TxOK(status, x.secret, made)
    BY <1>1 DEF KMInv, KMTypes, MasterInv, TxsOK, TxType
  <2>2. Len(x.secret.checksum) = x.secret.generation + 2 /\ x.secret.generation \in Nat
    BY <2>1 DEF TxOK, SecretChained, SecretType
  <2> QED
    BY <2>2
<1> QED
  BY <1>1 DEF FreshIn

\* A step of a node whose enclave gets the same secrets, or none, and whose
\* disk grows.
LEMMA EnclaveStep ==
    ASSUME KM!KMSecretsAssumption, KMInv, NEW n \in Nodes,
           UNCHANGED <<epoch, status, published, reg, txs, made>>, nodeFaults' \in 0..MaxNodeFaults,
           NEW w \in WorkerType, NEW en \in EnclaveType, NEW d \in DiskType,
           worker' = [worker EXCEPT ![n] = w], enclave' = [enclave EXCEPT ![n] = en], disk' = [disk EXCEPT ![n] = d],
           Grows(disk[n], d), DiskOK(status, d),
           EnclaveOK(status, en, d), InitOK(status, w.init, d), ResponseOK(w.rsp, d),
           en.next \in {enclave[n].next, <<>>}, w.rsp.next \in {enclave[n].next, worker[n].rsp.next, <<>>},
           \A x \in en.eph : \E o \in Nodes : x \in enclave[o].eph
    PROVE  KMInv'
<1>1. /\ NodeOK(status, published["master"], worker[n], enclave[n], disk[n], reg[n])
      /\ NodeFresh(txs, made, worker[n], enclave[n], reg[n]) /\ FreshIn(txs, made, <<>>)
      /\ reg[n] \in RegType /\ reg \in [Nodes -> RegType]
      /\ status \in StatusType /\ made \in 0..MaxSecrets /\ Chained(status, made)
  BY NodeParts, TxsHaveChecksums DEF KMInv, KMTypes
<1>2. /\ ResponseOK(reg[n].rsp, d) /\ NextOK(published["master"], enclave[n].next, d)
      /\ NextOK(published["master"], worker[n].rsp.next, d) /\ NextOK(published["master"], reg[n].rsp.next, d)
      /\ NextOK(published["master"], <<>>, d)
  BY <1>1, GrowsKeeps, NoPromise DEF NodeOK
<1>3. NodeOK(status, published["master"], w, en, d, reg[n])
  BY <1>2 DEF NodeOK
<1>4. NodeFresh(txs, made, w, en, reg[n])
  BY <1>1 DEF NodeFresh
<1>5. MemberOK(status, disk[n]) => MemberOK(status, d)
  BY <1>1, GrowsMember
<1>6. reg' = [reg EXCEPT ![n] = reg[n]] /\ UNCHANGED <<epoch, status, published, txs, made>>
  BY <1>1
<1>7. \A x \in en.eph :
         \/ \E o \in Nodes : x \in enclave[o].eph
         \/ x = [epoch |-> published["ephemeral"].epoch, secret |-> published["ephemeral"].secret]
  OBVIOUS
<1> QED
  BY <1>1, <1>3, <1>4, <1>5, <1>6, <1>7, NodeAlone

\* A disk is at least itself.
LEMMA GrowsItself == ASSUME NEW d \in DiskType PROVE Grows(d, d)
BY DEF Grows

\* The cardinality of the instance.
LEMMA SecretsCardinality == ASSUME NEW S PROVE KM!Cardinality(S) = Cardinality(S)
BY Zenon DEF KM!Cardinality, Cardinality

\* The secrets that are stored without a gap.
LEMMA StoredKept ==
    ASSUME KM!KMSecretsAssumption, NEW d \in DiskType
    PROVE  /\ Cardinality(KM!Stored(d)) \in 0..MaxSecrets + 1
           /\ SecretsKept(d, Cardinality(KM!Stored(d)) - 1)
<1> DEFINE S == KM!Stored(d)
           c == Cardinality(S)
<1>1. MaxSecrets \in Nat /\ KM!Generations = 0..MaxSecrets
  BY DEF KM!KMSecretsAssumption, KM!Generations
<1>2. S \subseteq 0..MaxSecrets
  BY <1>1 DEF KM!Stored
<1>3. IsFiniteSet(0..MaxSecrets) /\ Cardinality(0..MaxSecrets) = MaxSecrets + 1
  BY <1>1, FS_Interval
<1>4. c \in Nat /\ c <= MaxSecrets + 1
  BY <1>2, <1>3, FS_Subset, FS_CardinalityType
<1>5. ASSUME NEW h \in KM!Generations, h <= c - 1, d.secret[h] = 0 PROVE FALSE
  <2>1. h \in Nat
    BY <1>1, <1>5
  <2>2. S \subseteq 0..(h - 1)
    BY <1>1, <1>5, <2>1 DEF KM!Stored
  <2>3. IsFiniteSet(0..(h - 1)) /\ Cardinality(0..(h - 1)) = h
    BY <2>1, FS_Interval
  <2>4. c <= h
    BY <2>2, <2>3, FS_Subset
  <2> QED
    BY <1>4, <1>5, <2>1, <2>4
<1> HIDE DEF c
<1>6. SecretsKept(d, c - 1)
  BY <1>5 DEF SecretsKept
<1> QED
  BY <1>1, <1>4, <1>6 DEF c

\* The chain of an enclave.
LEMMA OwnChecksumTyped ==
    ASSUME KM!KMSecretsAssumption, KMInv, NEW n \in Nodes
    PROVE  /\ KM!OwnChecksum(n) \in Checksums /\ KM!NextMissing(n) \in Nat
           /\ SecretsKept(disk[n], KM!NextMissing(n) - 1)
<1> DEFINE d == disk[n]
           c == Cardinality(KM!Stored(d))
<1>1. d \in DiskType /\ enclave[n] \in EnclaveType /\ EnclaveOK(status, enclave[n], d) /\ MaxSecrets \in Nat
  BY NodeParts DEF NodeOK
<1>2. c \in Nat /\ c <= MaxSecrets + 1 /\ SecretsKept(d, c - 1)
  BY <1>1, StoredKept
<1>3. KM!Loaded(d) \in Seq(Nat)
  <2>1. d.secret \in [0..MaxSecrets -> Nat]
    BY <1>1 DEF DiskType, KM!Generations
  <2>2. KM!Loaded(d) = [i \in 1..c |-> d.secret[i - 1]]
    BY SecretsCardinality DEF KM!Loaded
  <2> HIDE DEF c
  <2>3. ASSUME NEW i \in 1..c PROVE d.secret[i - 1] \in Nat
    <3>1. i - 1 \in 0..MaxSecrets
      BY <1>1, <1>2
    <3> QED
      BY <2>1, <3>1
  <2> QED
    BY <1>2, <2>2, <2>3
<1>4. KM!ChainOf(d) \in Checksums
  <2>1. <<0>> \in Seq(Nat)
    OBVIOUS
  <2> QED
    BY <1>3, <2>1 DEF KM!ChainOf, KM!RuntimeID, Checksums
<1>5. KM!LastChecksum(enclave[n]) \in Checksums
  BY <1>1 DEF KM!LastChecksum, KM!RuntimeID, EnclaveType, Checksums
<1>6. KM!Startup(n) <=> enclave[n].generation = -1
  BY <1>1 DEF KM!Startup, KM!EnclaveNext, EnclaveType
<1>7. KM!NextMissing(n) \in Nat /\ SecretsKept(d, KM!NextMissing(n) - 1)
  <2>1. CASE KM!Startup(n)
    BY <1>2, <2>1, SecretsCardinality DEF KM!NextMissing
  <2>2. CASE ~KM!Startup(n)
    <3>1. enclave[n].generation \in Nat /\ SecretsKept(d, enclave[n].generation)
      BY <1>1, <1>6, <2>2 DEF EnclaveOK
    <3>2. KM!NextMissing(n) = enclave[n].generation + 1
      BY <2>2 DEF KM!NextMissing, KM!EnclaveNext
    <3> QED
      BY <3>1, <3>2
  <2> QED
    BY <2>1, <2>2
<1> QED
  BY <1>4, <1>5, <1>7 DEF KM!OwnChecksum

\* A disk on which a secret of consensus is stored.
LEMMA StoreKeeps ==
    ASSUME KM!KMSecretsAssumption, NEW s \in StatusType, NEW m \in 0..MaxSecrets, Chained(s, m), s.checksum # <<>>,
           NEW d \in DiskType, DiskOK(s, d), NEW g \in 0..s.generation, NEW x \in Nat, x # 0, x = s.checksum[g + 2],
           NEW c \in Checksums
    PROVE  /\ Grows(d, KM!StoreSecret(d, g, x)) /\ DiskOK(s, KM!StoreSecret(d, g, x))
           /\ Grows(d, KM!StoreSecretAndChecksum(d, g, x, c)) /\ DiskOK(s, KM!StoreSecretAndChecksum(d, g, x, c))
           /\ KM!StoreSecret(d, g, x).secret[g] # 0 /\ KM!StoreSecretAndChecksum(d, g, x, c).secret[g] # 0
<1> DEFINE a == [d EXCEPT !.secret[g] = x]
           b == [a EXCEPT !.checksum[g] = c]
<1>1. g \in KM!Generations /\ g <= s.generation
  BY GenerationBound DEF StatusType
<1>2. /\ a \in DiskType /\ a.proposal = d.proposal /\ a.secret[g] = x
      /\ \A h \in KM!Generations : h # g => a.secret[h] = d.secret[h]
  BY <1>1 DEF DiskType
<1> HIDE DEF a
<1>3. b \in DiskType /\ b.proposal = a.proposal /\ b.secret = a.secret
  BY <1>1, <1>2 DEF DiskType
<1> HIDE DEF b
<1>4. Grows(d, a) /\ Grows(d, b)
  BY <1>1, <1>2, <1>3 DEF Grows
<1>5. DiskOK(s, a) /\ DiskOK(s, b)
  BY <1>1, <1>2, <1>3 DEF DiskOK
<1>6. KM!StoreSecret(d, g, x) = a /\ KM!StoreSecretAndChecksum(d, g, x, c) = b
  BY DEF KM!StoreSecret, KM!StoreSecretAndChecksum, a, b
<1> QED
  BY <1>2, <1>3, <1>4, <1>5, <1>6

\* An init call that returns, and an enclave that got nothing else.
LEMMA InitReturns ==
    ASSUME KM!KMSecretsAssumption, KMInv, NEW n \in Nodes, NEW rsp \in ResponseType, NEW en \in EnclaveType,
           UNCHANGED <<epoch, status, published, reg, txs, made, nodeFaults, disk>>,
           KM!Returns(n, rsp), enclave' = [enclave EXCEPT ![n] = en],
           ResponseOK(rsp, disk[n]), rsp.next \in {enclave[n].next, <<>>}, en.next \in {enclave[n].next, <<>>},
           EnclaveOK(status, en, disk[n]),
           \A x \in en.eph : \E o \in Nodes : x \in enclave[o].eph
    PROVE  KMInv'
<1> DEFINE w == KM!HandleInitEnclaveDone(worker[n], rsp)
<1>1. /\ worker[n] \in WorkerType /\ disk[n] \in DiskType /\ disk \in [Nodes -> DiskType]
      /\ nodeFaults \in 0..MaxNodeFaults
      /\ NodeOK(status, published["master"], worker[n], enclave[n], disk[n], reg[n])
  BY NodeParts DEF KMInv, KMTypes
<1>2. w \in WorkerType /\ w.rsp \in {worker[n].rsp, rsp} /\ w.init.phase \in {"none", "call"}
  BY <1>1, HandleDone
<1>3. worker' = [worker EXCEPT ![n] = w]
  BY DEF KM!Returns
<1> HIDE DEF w
<1>4. Grows(disk[n], disk[n]) /\ DiskOK(status, disk[n]) /\ ResponseOK(w.rsp, disk[n])
  BY <1>1, <1>2, GrowsItself DEF NodeOK
<1>5. InitOK(status, w.init, disk[n])
  BY <1>2 DEF InitOK
<1>6. w.rsp.next \in {enclave[n].next, worker[n].rsp.next, <<>>}
  BY <1>2
<1>7. disk' = [disk EXCEPT ![n] = disk[n]] /\ nodeFaults' \in 0..MaxNodeFaults
      /\ UNCHANGED <<epoch, status, published, reg, txs, made>>
  BY <1>1
<1> QED
  BY <1>1, <1>2, <1>3, <1>4, <1>5, <1>6, <1>7, EnclaveStep

\* One that fails, and maybe resets the enclave.
LEMMA InitFails ==
    ASSUME KM!KMSecretsAssumption, KMInv, NEW n \in Nodes, NEW en \in EnclaveType,
           UNCHANGED <<epoch, status, published, reg, txs, made, nodeFaults, disk>>,
           KM!Fails(n), enclave' = [enclave EXCEPT ![n] = en],
           en.next = enclave[n].next, EnclaveOK(status, en, disk[n]),
           \A x \in en.eph : \E o \in Nodes : x \in enclave[o].eph
    PROVE  KMInv'
<1>1. KM!NoResponse \in ResponseType /\ KM!NoResponse.checksum = <<>> /\ KM!NoResponse.next = <<>>
  BY NothingTyped DEF KM!NoResponse
<1>2. ResponseOK(KM!NoResponse, disk[n]) /\ KM!Returns(n, KM!NoResponse)
  BY <1>1, NoPromise DEF KM!Fails
<1>3. KM!NoResponse.next \in {enclave[n].next, <<>>} /\ en.next \in {enclave[n].next, <<>>}
  BY <1>1
<1> QED
  BY <1>1, <1>2, <1>3, InitReturns

\* The proposal that is promoted is the last secret of consensus.
LEMMA PromotedRight ==
    ASSUME KM!KMSecretsAssumption, KMInv, NEW n \in Nodes, status.checksum # <<>>, KM!Promoted(n) # 0
    PROVE  /\ KM!Promoted(n) \in Nat /\ KM!Promoted(n) = status.checksum[status.generation + 2]
           /\ KM!NextMissing(n) = status.generation
<1> DEFINE p == KM!Proposal(disk[n], status.generation)
           c == KM!OwnChecksum(n)
<1>1. KM!Promoted(n) = p /\ KM!NextMissing(n) = status.generation /\ p # 0 /\ Append(c, p) = status.checksum
  BY DEF KM!Promoted, KM!ChecksumMasterSecret
<1>2. p \in Nat
  <2>1. disk[n].proposal.secret \in Nat
    BY NodeParts DEF DiskType, ProposalType
  <2> QED
    BY <2>1 DEF KM!Proposal
<1> HIDE DEF p
<1>3. c \in Seq(Nat)
  BY OwnChecksumTyped DEF Checksums
<1> HIDE DEF c
<1>4. Len(status.checksum) = status.generation + 2
  BY NodeParts, GenerationBound
<1>5. status.checksum[Len(c) + 1] = p /\ Len(status.checksum) = Len(c) + 1
  BY <1>1, <1>2, <1>3
<1> QED
  BY <1>1, <1>2, <1>4, <1>5

\* Where replication stands.
LEMMA ReplicationRight ==
    ASSUME KM!KMSecretsAssumption, KMInv, NEW n \in Nodes, worker[n].init.phase = "replicate"
    PROVE  LET i == worker[n].init
           IN  /\ status.checksum # <<>> /\ i \in InitType /\ i.status \in StatusType
               /\ i.generation \in -1..status.generation /\ i.generation \in -1..i.status.generation
               /\ i.next \in Nat
               /\ (i.generation >= i.next => i.generation \in KM!Generations /\ i.generation \in 0..status.generation)
               /\ \A g \in 0..status.generation : \A m \in KM!Replicas(i.status.nodes, g, i.last) :
                      /\ m \in Nodes /\ disk[m].secret[g] \in Nat /\ disk[m].secret[g] # 0
                      /\ disk[m].secret[g] = status.checksum[g + 2]
                      /\ KM!ChecksumOf(disk[m], g) \in Checksums
<1> DEFINE i == worker[n].init
<1>1. i \in InitType /\ InitOK(status, i, disk[n]) /\ status \in StatusType
  BY NodeParts DEF NodeOK, WorkerType
<1>2. i.status \in StatusType /\ i.next \in Nat /\ i.generation \in Int
  BY <1>1 DEF InitType
<1>3. /\ i.status.checksum # <<>> /\ Len(i.status.checksum) = i.status.generation + 2
      /\ Extends(i.status.checksum, status.checksum) /\ i.status.generation <= status.generation
      /\ i.generation \in -1..i.status.generation
  BY <1>1 DEF InitOK
<1> HIDE DEF i
<1>4. status.generation \in Nat /\ i.status.generation \in Nat /\ Len(status.checksum) \in Nat
  BY <1>1, <1>2 DEF StatusType, Checksums
<1>5. status.checksum # <<>>
  BY <1>3, <1>4 DEF Extends
<1>6. 0..status.generation \subseteq KM!Generations
  BY <1>5, NodeParts, GenerationBound
<1>7. i.generation \in -1..status.generation /\ (i.generation >= i.next => i.generation \in KM!Generations /\ i.generation \in 0..status.generation)
  BY <1>2, <1>3, <1>4, <1>6
<1>8. ASSUME NEW g \in 0..status.generation, NEW m \in KM!Replicas(i.status.nodes, g, i.last)
      PROVE  /\ m \in Nodes /\ disk[m].secret[g] \in Nat /\ disk[m].secret[g] # 0
             /\ disk[m].secret[g] = status.checksum[g + 2]
             /\ KM!ChecksumOf(disk[m], g) \in Checksums
  <2>1. m \in i.status.nodes /\ disk[m].secret[g] # 0
    BY DEF KM!Replicas
  <2>2. m \in Nodes
    BY <1>2, <2>1 DEF StatusType
  <2>3. disk[m] \in DiskType /\ DiskOK(status, disk[m])
    BY <2>2, NodeParts DEF NodeOK
  <2>4. g \in KM!Generations
    BY <1>6
  <2>5. disk[m].secret[g] \in Nat /\ disk[m].checksum[g] \in Checksums
    BY <2>3, <2>4 DEF DiskType
  <2>6. KM!ChecksumOf(disk[m], g) \in Checksums
    BY <2>5 DEF KM!ChecksumOf, KM!RuntimeID, Checksums
  <2> QED
    BY <2>1, <2>2, <2>3, <2>4, <2>5, <2>6 DEF DiskOK
<1> QED
  BY <1>1, <1>2, <1>3, <1>5, <1>7, <1>8 DEF i

\* Calling init: the enclave accepts the status, and knows what is missing.
LEMMA InitKdfKeeps == ASSUME KM!KMSecretsAssumption, KMInv, NEW n \in Nodes, KM!InitKdf(n) PROVE KMInv'
<1> DEFINE en == [enclave[n] EXCEPT !.policy = status.policy, !.ready = TRUE]
           d == disk[n]
           i == worker[n].init
           policy == IF status.nextPolicy # 0 THEN status.nextPolicy ELSE status.policy
           p == KM!Promoted(n)
           own == KM!OwnChecksum(n)
           missing == KM!NextMissing(n)
           goesOn == [i EXCEPT !.phase = "replicate", !.generation = status.generation, !.last = status.checksum,
                            !.startup = KM!Startup(n), !.policy = policy,
                            !.next = IF p = 0 THEN missing ELSE missing + 1,
                            !.checksum = IF p = 0 THEN own ELSE status.checksum]
           e == KM!StoreSecretAndChecksum(d, status.generation, p, own)
<1>1. /\ worker[n] \in WorkerType /\ enclave[n] \in EnclaveType /\ d \in DiskType /\ status \in StatusType
      /\ NodeOK(status, published["master"], worker[n], enclave[n], d, reg[n])
      /\ made \in 0..MaxSecrets /\ Chained(status, made)
      /\ worker \in [Nodes -> WorkerType] /\ enclave \in [Nodes -> EnclaveType] /\ disk \in [Nodes -> DiskType]
      /\ nodeFaults \in 0..MaxNodeFaults
  BY NodeParts DEF KMInv, KMTypes
<1>2. policy \in Nat /\ status.policy \in Nat /\ status.checksum \in Checksums /\ status.generation \in Nat
  BY <1>1 DEF StatusType
<1>3. /\ en \in EnclaveType /\ en.next = enclave[n].next /\ en.eph = enclave[n].eph /\ en.rek = enclave[n].rek
      /\ en.generation = enclave[n].generation /\ en.checksum = enclave[n].checksum
  BY <1>1, <1>2 DEF EnclaveType
<1>4. EnclaveOK(status, en, d) /\ EnclaveOK(status, enclave[n], d)
  BY <1>1, <1>3 DEF NodeOK, EnclaveOK
<1>5. \A x \in enclave[n].eph : \E o \in Nodes : x \in enclave[o].eph
  OBVIOUS
<1>6. own \in Checksums /\ missing \in Nat /\ SecretsKept(d, missing - 1)
  BY OwnChecksumTyped
<1>7. UNCHANGED <<epoch, status, published, reg, txs, made, nodeFaults>> /\ i.phase = "call"
  BY DEF KM!InitKdf
<1> HIDE DEF en, policy, own, missing, e, goesOn, p, d
<1>8. CASE KM!Fails(n) /\ UNCHANGED <<enclave, disk>>
  <2>1. enclave' = [enclave EXCEPT ![n] = enclave[n]]
    BY <1>1, <1>8
  <2> QED
    BY <1>1, <1>4, <1>5, <1>7, <1>8, <2>1, InitFails DEF d
<1>9. CASE enclave' = [enclave EXCEPT ![n] = en] /\ KM!Returns(n, KM!Response(en, policy, <<>>)) /\ UNCHANGED disk
  <2> DEFINE rsp == KM!Response(en, policy, <<>>)
  <2>1. <<>> \in Checksums /\ en.rek \in Nat /\ en.next \in Checksums
    BY <1>3 DEF Checksums, EnclaveType
  <2>2. rsp \in ResponseType /\ rsp.checksum = <<>> /\ rsp.next = en.next
    BY <1>2, <2>1 DEF KM!Response, ResponseType
  <2> HIDE DEF rsp
  <2>3. ResponseOK(rsp, d)
    BY <2>2, NoPromise
  <2>4. KM!Returns(n, rsp) /\ rsp.next \in {enclave[n].next, <<>>} /\ en.next \in {enclave[n].next, <<>>}
    BY <1>3, <1>9, <2>2 DEF rsp
  <2> QED
    BY <1>3, <1>4, <1>5, <1>7, <1>9, <2>2, <2>3, <2>4, InitReturns DEF d
<1>10. CASE enclave' = [enclave EXCEPT ![n] = KM!Reset(en)] /\ KM!Fails(n) /\ UNCHANGED disk
  <2> DEFINE b == KM!Reset(en)
  <2>1. b \in EnclaveType /\ b.next = en.next /\ b.eph = {} /\ b.generation = -1 /\ b.checksum = <<>>
    BY <1>2, <1>3, ResetTyped
  <2> HIDE DEF b
  <2>2. EnclaveOK(status, b, d) /\ \A x \in b.eph : \E o \in Nodes : x \in enclave[o].eph
    BY <2>1 DEF EnclaveOK
  <2>3. enclave' = [enclave EXCEPT ![n] = b]
    BY <1>10 DEF b
  <2> QED
    BY <1>3, <1>7, <1>10, <2>1, <2>2, <2>3, InitFails DEF d
<1>11. CASE /\ KM!Accepted(n) /\ status.checksum # <<>>
            /\ enclave' = [enclave EXCEPT ![n] = en]
            /\ worker' = [worker EXCEPT ![n].init = goesOn]
            /\ disk' = IF p = 0 THEN disk ELSE [disk EXCEPT ![n] = e]
  <2> DEFINE w == [worker[n] EXCEPT !.init = goesOn]
             f == IF p = 0 THEN d ELSE e
  <2>1. i.status = status /\ i \in InitType
    BY <1>1, <1>11 DEF KM!Accepted, WorkerType
  <2>2. KM!Startup(n) \in BOOLEAN /\ (IF p = 0 THEN missing ELSE missing + 1) \in Nat
        /\ (IF p = 0 THEN own ELSE status.checksum) \in Checksums
    BY <1>2, <1>6 DEF KM!Startup
  <2>3. /\ goesOn \in InitType /\ goesOn.status = status /\ goesOn.generation = status.generation
        /\ goesOn.next = IF p = 0 THEN missing ELSE missing + 1
    <3> DEFINE a == i
               st == KM!Startup(n)
               nx == IF p = 0 THEN missing ELSE missing + 1
               ck == IF p = 0 THEN own ELSE status.checksum
    <3>1. goesOn = [a EXCEPT !.phase = "replicate", !.generation = status.generation, !.last = status.checksum,
                             !.startup = st, !.policy = policy, !.next = nx, !.checksum = ck]
      BY DEF goesOn
    <3>2. /\ a \in InitType /\ a.status = status /\ st \in BOOLEAN /\ nx \in Nat /\ ck \in Checksums
          /\ status.generation \in Int /\ policy \in Nat /\ status.checksum \in Checksums
      BY <1>2, <2>1, <2>2
    <3> HIDE DEF a, st, nx, ck
    <3>3. goesOn \in InitType /\ goesOn.status = status /\ goesOn.generation = status.generation /\ goesOn.next = nx
      BY <3>1, <3>2 DEF InitType
    <3> QED
      BY <3>3 DEF nx
  <2>4. w \in WorkerType /\ w.init = goesOn /\ w.rsp = worker[n].rsp /\ worker' = [worker EXCEPT ![n] = w]
    BY <1>1, <1>11, <2>3 DEF WorkerType
  <2> HIDE DEF w
  <2>5. DiskOK(status, d) /\ ResponseOK(worker[n].rsp, d)
    BY <1>1 DEF NodeOK
  <2>6. f \in DiskType /\ Grows(d, f) /\ DiskOK(status, f) /\ SecretsKept(f, goesOn.next - 1)
    <3>1. CASE p = 0
      BY <1>1, <1>6, <2>3, <2>5, <3>1, GrowsItself
    <3>2. CASE p # 0
      <4>1. p \in Nat /\ p = status.checksum[status.generation + 2] /\ missing = status.generation
        BY <1>11, <3>2, PromotedRight DEF p, missing
      <4>2. status.generation \in 0..status.generation
        BY <1>2
      <4>3. Grows(d, e) /\ DiskOK(status, e) /\ e.secret[status.generation] # 0
        BY <1>1, <1>6, <1>11, <2>5, <3>2, <4>1, <4>2, StoreKeeps DEF e
      <4>4. SecretsKept(e, missing - 1)
        BY <1>6, <4>3, GrowsKeeps
      <4>5. SecretsKept(e, goesOn.next - 1)
        <5>1. goesOn.next - 1 = status.generation
          BY <1>2, <2>3, <3>2, <4>1
        <5>2. \A h \in KM!Generations : h <= status.generation => h = status.generation \/ h <= missing - 1
          BY <1>2, <4>1 DEF KM!Generations
        <5> QED
          BY <4>3, <4>4, <5>1, <5>2 DEF SecretsKept
      <4> QED
        BY <3>2, <4>3, <4>5 DEF Grows
    <3> QED
      BY <3>1, <3>2
  <2>7. InitOK(status, goesOn, f)
    <3>1. Len(status.checksum) = status.generation + 2
      BY <1>1, <1>11, GenerationBound
    <3>2. Extends(status.checksum, status.checksum)
      BY <1>2 DEF Extends, Checksums
    <3>3. /\ goesOn.generation \in -1..status.generation
          /\ \A h \in KM!Generations : ~(h > goesOn.generation /\ h <= status.generation)
      BY <1>2, <2>3 DEF KM!Generations
    <3> QED
      BY <1>2, <1>11, <2>3, <2>6, <3>1, <3>2, <3>3 DEF InitOK
  <2>8. EnclaveOK(status, en, f) /\ ResponseOK(w.rsp, f)
    BY <1>4, <2>4, <2>5, <2>6, GrowsKeeps
  <2>9. disk' = [disk EXCEPT ![n] = f] /\ nodeFaults' \in 0..MaxNodeFaults
    BY <1>1, <1>7, <1>11 DEF d
  <2> HIDE DEF f
  <2>10. en.next \in {enclave[n].next, <<>>} /\ w.rsp.next \in {enclave[n].next, worker[n].rsp.next, <<>>}
         /\ InitOK(status, w.init, f) /\ Grows(disk[n], f)
    BY <1>3, <2>4, <2>6, <2>7 DEF d
  <2>11. \A x \in en.eph : \E o \in Nodes : x \in enclave[o].eph
    BY <1>3, <1>5
  <2>12. UNCHANGED <<epoch, status, published, reg, txs, made>>
    BY <1>7
  <2> QED
    BY <1>3, <1>11, <2>4, <2>6, <2>8, <2>9, <2>10, <2>11, <2>12, EnclaveStep
<1>12. \/ KM!Fails(n) /\ UNCHANGED <<enclave, disk>>
       \/ enclave' = [enclave EXCEPT ![n] = en] /\ KM!Returns(n, KM!Response(en, policy, <<>>)) /\ UNCHANGED disk
       \/ enclave' = [enclave EXCEPT ![n] = KM!Reset(en)] /\ KM!Fails(n) /\ UNCHANGED disk
       \/ /\ KM!Accepted(n) /\ status.checksum # <<>>
          /\ enclave' = [enclave EXCEPT ![n] = en]
          /\ worker' = [worker EXCEPT ![n].init = goesOn]
          /\ disk' = IF p = 0 THEN disk ELSE [disk EXCEPT ![n] = e]
  BY DEF KM!InitKdf, en, policy, own, missing, e, goesOn, p, d
<1> QED
  BY <1>8, <1>9, <1>10, <1>11, <1>12

\* The next secret down is there, is replicated, or the call fails.
LEMMA ReplicateKeeps == ASSUME KM!KMSecretsAssumption, KMInv, NEW n \in Nodes, KM!ReplicateMasterSecret(n) PROVE KMInv'
<1> DEFINE i == worker[n].init
           g == i.generation
           d == disk[n]
           down(c) == worker' = [worker EXCEPT ![n].init.generation = g - 1, ![n].init.last = c]
<1>1. /\ worker[n] \in WorkerType /\ enclave[n] \in EnclaveType /\ d \in DiskType /\ status \in StatusType
      /\ NodeOK(status, published["master"], worker[n], enclave[n], d, reg[n])
      /\ made \in 0..MaxSecrets /\ Chained(status, made)
      /\ worker \in [Nodes -> WorkerType] /\ enclave \in [Nodes -> EnclaveType] /\ disk \in [Nodes -> DiskType]
      /\ nodeFaults \in 0..MaxNodeFaults
  BY NodeParts DEF KMInv, KMTypes
<1>2. UNCHANGED <<epoch, status, published, reg, txs, made, nodeFaults>> /\ i.phase = "replicate" /\ g >= i.next
  BY DEF KM!ReplicateMasterSecret
<1>3. status.checksum # <<>> /\ i \in InitType /\ g \in KM!Generations /\ g \in 0..status.generation
      /\ g \in -1..i.status.generation /\ i.status.generation \in Nat
  BY <1>2, ReplicationRight DEF StatusType
<1>4. \A x \in enclave[n].eph : \E o \in Nodes : x \in enclave[o].eph
  OBVIOUS
<1>5. /\ EnclaveOK(status, enclave[n], d) /\ DiskOK(status, d) /\ InitOK(status, i, d) /\ ResponseOK(worker[n].rsp, d)
  BY <1>1 DEF NodeOK
<1> HIDE DEF i, g, d
\* one generation down
<1>6. ASSUME NEW c \in Checksums, NEW f, Grows(d, f), DiskOK(status, f), f.secret[g] # 0,
             worker' = [worker EXCEPT ![n].init.generation = g - 1, ![n].init.last = c],
             disk' = [disk EXCEPT ![n] = f], UNCHANGED enclave
      PROVE  KMInv'
  <2> DEFINE j == [i EXCEPT !.generation = g - 1, !.last = c]
             w == [worker[n] EXCEPT !.init = j]
  <2>1. /\ j \in InitType /\ j.status = i.status /\ j.next = i.next /\ j.generation = g - 1
    <3>1. g - 1 \in Int
      BY <1>3 DEF KM!Generations
    <3> HIDE DEF i, g
    <3> QED
      BY <1>3, <1>6, <3>1 DEF InitType
  <2>2. worker' = [worker EXCEPT ![n] = w]
    BY <1>1, <1>6 DEF i, g, WorkerType, InitType
  <2> HIDE DEF j
  <2>3. w \in WorkerType /\ w.init = j /\ w.rsp = worker[n].rsp
    BY <1>1, <2>1 DEF WorkerType
  <2> HIDE DEF w
  <2>4. InitOK(status, i, f) /\ EnclaveOK(status, enclave[n], f) /\ ResponseOK(w.rsp, f)
    BY <1>5, <1>6, <2>3, GrowsKeeps
  <2>5. InitOK(status, j, f)
    <3>1. \A h \in KM!Generations : h > g - 1 => h = g \/ h > g
      BY <1>3 DEF KM!Generations
    <3>2. g - 1 \in -1..i.status.generation
      BY <1>3
    <3>3. g = i.generation
      BY DEF g
    <3> QED
      BY <1>2, <1>6, <2>1, <2>4, <3>1, <3>2, <3>3 DEF InitOK
  <2>6. f \in DiskType /\ Grows(disk[n], f)
    BY <1>6 DEF Grows, d
  <2>7. /\ enclave' = [enclave EXCEPT ![n] = enclave[n]] /\ nodeFaults' \in 0..MaxNodeFaults
        /\ UNCHANGED <<epoch, status, published, reg, txs, made>>
        /\ enclave[n].next \in {enclave[n].next, <<>>} /\ w.rsp.next \in {enclave[n].next, worker[n].rsp.next, <<>>}
        /\ InitOK(status, w.init, f)
    BY <1>1, <1>2, <1>6, <2>3, <2>5
  <2> QED
    BY <1>1, <1>4, <1>6, <2>2, <2>3, <2>4, <2>6, <2>7, EnclaveStep
<1>7. CASE d.secret[g] # 0 /\ down(d.checksum[g]) /\ UNCHANGED <<enclave, disk>>
  <2>1. d.checksum[g] \in Checksums
    BY <1>1, <1>3 DEF DiskType
  <2>2. Grows(d, d) /\ disk' = [disk EXCEPT ![n] = d]
    BY <1>1, <1>7, GrowsItself DEF d
  <2> QED
    BY <1>5, <1>6, <1>7, <2>1, <2>2
<1>8. CASE enclave' = [enclave EXCEPT ![n] = KM!Reset(enclave[n])] /\ KM!Fails(n) /\ UNCHANGED disk
  <2> DEFINE b == KM!Reset(enclave[n])
  <2>1. b \in EnclaveType /\ b.next = enclave[n].next /\ b.eph = {} /\ b.generation = -1 /\ b.checksum = <<>>
    BY <1>1, ResetTyped
  <2> HIDE DEF b
  <2>2. EnclaveOK(status, b, d) /\ \A x \in b.eph : \E o \in Nodes : x \in enclave[o].eph
    BY <2>1 DEF EnclaveOK
  <2>3. enclave' = [enclave EXCEPT ![n] = b]
    BY <1>8 DEF b
  <2> QED
    BY <1>2, <1>8, <2>1, <2>2, <2>3, InitFails DEF d
<1>9. CASE KM!Fails(n) /\ UNCHANGED <<enclave, disk>>
  <2>1. enclave' = [enclave EXCEPT ![n] = enclave[n]]
    BY <1>1, <1>9
  <2> QED
    BY <1>1, <1>2, <1>4, <1>5, <1>9, <2>1, InitFails DEF d
<1>10. ASSUME NEW m \in KM!Replicas(i.status.nodes, g, i.last),
              LET c == KM!ChecksumOf(disk[m], g)
              IN  /\ disk' = [disk EXCEPT ![n] = KM!StoreSecretAndChecksum(d, g, disk[m].secret[g], c)]
                  /\ down(c) /\ UNCHANGED enclave
       PROVE  KMInv'
  <2> DEFINE c == KM!ChecksumOf(disk[m], g)
             x == disk[m].secret[g]
             f == KM!StoreSecretAndChecksum(d, g, x, c)
  <2>1. x \in Nat /\ x # 0 /\ x = status.checksum[g + 2] /\ c \in Checksums
    BY <1>2, <1>3, ReplicationRight DEF i
  <2>2. disk' = [disk EXCEPT ![n] = f] /\ down(c) /\ UNCHANGED enclave
    BY <1>10
  <2> HIDE DEF c, x
  <2>3. Grows(d, f) /\ DiskOK(status, f) /\ f.secret[g] # 0
    BY <1>1, <1>3, <1>5, <2>1, StoreKeeps
  <2> HIDE DEF f
  <2> QED
    BY <1>6, <2>1, <2>2, <2>3
<1>11. \/ d.secret[g] # 0 /\ down(d.checksum[g]) /\ UNCHANGED <<enclave, disk>>
       \/ enclave' = [enclave EXCEPT ![n] = KM!Reset(enclave[n])] /\ KM!Fails(n) /\ UNCHANGED disk
       \/ KM!Fails(n) /\ UNCHANGED <<enclave, disk>>
       \/ \E m \in KM!Replicas(i.status.nodes, g, i.last) :
              LET c == KM!ChecksumOf(disk[m], g)
              IN  /\ disk' = [disk EXCEPT ![n] = KM!StoreSecretAndChecksum(d, g, disk[m].secret[g], c)]
                  /\ down(c) /\ UNCHANGED enclave
  BY DEF KM!ReplicateMasterSecret, i, g, d
<1> QED
  BY <1>7, <1>8, <1>9, <1>10, <1>11

\* Nothing is missing: the enclave has the secrets of the status, and the
\* ephemeral ones of other nodes when it has started.
LEMMA FinishInitKeeps == ASSUME KM!KMSecretsAssumption, KMInv, NEW n \in Nodes, KM!FinishInit(n) PROVE KMInv'
<1> DEFINE i == worker[n].init
           s == i.status
           en == enclave[n]
           d == disk[n]
           updated == [en EXCEPT !.generation = s.generation, !.checksum = s.checksum, !.next = <<>>]
           now == IF en.generation = s.generation THEN en ELSE updated
<1>1. /\ worker[n] \in WorkerType /\ en \in EnclaveType /\ d \in DiskType /\ status \in StatusType
      /\ NodeOK(status, published["master"], worker[n], en, d, reg[n])
      /\ enclave \in [Nodes -> EnclaveType]
  BY NodeParts DEF KMInv, KMTypes
<1>2. /\ UNCHANGED <<epoch, status, published, reg, txs, made, nodeFaults, disk>>
      /\ i.phase = "replicate" /\ i.generation < i.next
  BY DEF KM!FinishInit
<1>3. status.checksum # <<>> /\ i \in InitType /\ s \in StatusType /\ i.generation \in -1..s.generation /\ i.next \in Nat
  BY <1>2, ReplicationRight
<1>4. s.generation \in Nat /\ s.checksum \in Checksums /\ s.nodes \subseteq Nodes /\ i.policy \in Nat /\ status.generation \in Nat
  BY <1>1, <1>3 DEF StatusType, InitType
<1>5. EnclaveOK(status, en, d) /\ InitOK(status, i, d)
  BY <1>1 DEF NodeOK
<1>6. CASE enclave' = [enclave EXCEPT ![n] = KM!Reset(en)] /\ KM!Fails(n)
  <2> DEFINE b == KM!Reset(en)
  <2>1. b \in EnclaveType /\ b.next = en.next /\ b.eph = {} /\ b.generation = -1 /\ b.checksum = <<>>
    BY <1>1, ResetTyped
  <2> HIDE DEF b
  <2>2. EnclaveOK(status, b, d) /\ \A x \in b.eph : \E o \in Nodes : x \in enclave[o].eph
    BY <2>1 DEF EnclaveOK
  <2>3. enclave' = [enclave EXCEPT ![n] = b]
    BY <1>6 DEF b
  <2> QED
    BY <1>2, <1>6, <2>1, <2>2, <2>3, InitFails
<1>7. now \in EnclaveType /\ now.next \in {en.next, <<>>} /\ now.eph = en.eph /\ now.rek \in Nat /\ EnclaveOK(status, now, d)
  <2>1. CASE en.generation = s.generation
    BY <1>1, <1>5, <2>1 DEF EnclaveType
  <2>2. CASE en.generation # s.generation
    <3> DEFINE u == updated
    <3>1. <<>> \in Checksums
      BY DEF Checksums
    <3>2. /\ u \in EnclaveType /\ u.next = <<>> /\ u.eph = en.eph /\ u.rek \in Nat
          /\ u.generation = s.generation /\ u.checksum = s.checksum
      <4> DEFINE a == en
                 g == s.generation
                 c == s.checksum
      <4>1. u = [a EXCEPT !.generation = g, !.checksum = c, !.next = <<>>] /\ u.generation = g /\ u.checksum = c
        BY <1>1 DEF EnclaveType
      <4>2. a \in EnclaveType /\ g \in Int /\ c \in Checksums
        BY <1>1, <1>4
      <4> HIDE DEF a, g, c, u
      <4>3. u \in EnclaveType /\ u.next = <<>> /\ u.eph = a.eph /\ u.rek \in Nat
        BY <3>1, <4>1, <4>2 DEF EnclaveType
      <4> QED
        BY <4>1, <4>3 DEF a, g, c
    <3>3. now = u
      BY <2>2
    <3> HIDE DEF u
    <3>4. /\ Len(s.checksum) = s.generation + 2 /\ Extends(s.checksum, status.checksum) /\ s.generation <= status.generation
          /\ SecretsKept(d, i.next - 1) /\ \A h \in KM!Generations : h > i.generation /\ h <= s.generation => d.secret[h] # 0
      BY <1>2, <1>5 DEF InitOK
    <3>5. SecretsKept(d, s.generation)
      <4>1. \A h \in KM!Generations : h <= i.next - 1 \/ h > i.generation
        BY <1>2, <1>3 DEF KM!Generations
      <4> QED
        BY <3>4, <4>1 DEF SecretsKept
    <3>6. EnclaveOK(status, u, d)
      BY <1>3, <1>4, <3>2, <3>4, <3>5 DEF EnclaveOK
    <3> QED
      BY <3>2, <3>3, <3>6
  <2> QED
    BY <2>1, <2>2
<1>8. ASSUME NEW es \in IF i.startup THEN KM!Replicated(i) ELSE {{}},
             enclave' = [enclave EXCEPT ![n] = [now EXCEPT !.eph = KM!AddEphemeral(@, es)]],
             KM!Returns(n, KM!Response(now, i.policy, now.checksum))
      PROVE  KMInv'
  <2> DEFINE a == now
             b == [a EXCEPT !.eph = KM!AddEphemeral(@, es)]
             rsp == KM!Response(a, i.policy, a.checksum)
  <2>1. \A x \in es : \E o \in Nodes : x \in enclave[o].eph
    <3>1. es \subseteq UNION {enclave[m].eph : m \in s.nodes}
      BY <1>8 DEF KM!Replicated
    <3> QED
      BY <1>4, <3>1
  <2>2. \A o \in Nodes : enclave[o].eph \subseteq EphemeralType
    BY <1>1 DEF EnclaveType
  <2>3. enclave' = [enclave EXCEPT ![n] = b] /\ KM!Returns(n, rsp)
    BY <1>8
  <2>4. a \in EnclaveType /\ a.next \in {enclave[n].next, <<>>} /\ a.eph = enclave[n].eph /\ a.rek \in Nat
        /\ EnclaveOK(status, a, d)
    BY <1>7
  <2> HIDE DEF a
  <2>5. KM!AddEphemeral(a.eph, es) \subseteq EphemeralType
        /\ \A x \in KM!AddEphemeral(a.eph, es) : \E o \in Nodes : x \in enclave[o].eph
    BY <2>1, <2>2, <2>4 DEF KM!AddEphemeral
  <2>6. /\ b \in EnclaveType /\ b.next = a.next /\ b.eph = KM!AddEphemeral(a.eph, es)
        /\ b.generation = a.generation /\ b.checksum = a.checksum
    BY <2>4, <2>5 DEF EnclaveType
  <2> HIDE DEF b
  <2>7. EnclaveOK(status, b, d)
    BY <2>4, <2>6 DEF EnclaveOK
  <2>8. a.checksum \in Checksums /\ a.next \in Checksums
    BY <2>4 DEF EnclaveType
  <2>9. rsp \in ResponseType /\ rsp.checksum = a.checksum /\ rsp.next = a.next
    BY <1>4, <2>4, <2>8 DEF KM!Response, ResponseType
  <2> HIDE DEF rsp
  <2>10. ResponseOK(rsp, d)
    <3>1. CASE a.generation = -1 /\ a.checksum = <<>>
      BY <2>9, <3>1, NoPromise
    <3>2. CASE a.generation \in 0..status.generation /\ Len(a.checksum) = a.generation + 2 /\ SecretsKept(d, a.generation)
      <4>1. Len(a.checksum) - 2 = a.generation
        BY <1>4, <3>2
      <4> QED
        BY <2>9, <3>2, <4>1 DEF ResponseOK
    <3> QED
      BY <2>4, <3>1, <3>2 DEF EnclaveOK
  <2> QED
    BY <1>2, <2>3, <2>4, <2>5, <2>6, <2>7, <2>9, <2>10, InitReturns
<1>9. \/ enclave' = [enclave EXCEPT ![n] = KM!Reset(en)] /\ KM!Fails(n)
      \/ /\ \E es \in IF i.startup THEN KM!Replicated(i) ELSE {{}} :
               enclave' = [enclave EXCEPT ![n] = [now EXCEPT !.eph = KM!AddEphemeral(@, es)]]
         /\ KM!Returns(n, KM!Response(now, i.policy, now.checksum))
  BY DEF KM!FinishInit
<1> QED
  BY <1>6, <1>8, <1>9

\* A node whose enclave has started again.
LEMMA NodeRestartStep ==
    ASSUME KM!KMSecretsAssumption, KMInv, NEW n \in Nodes, KM!Restarted(n), NEW w \in WorkerType, NEW d,
           worker' = [worker EXCEPT ![n] = w], disk' = [disk EXCEPT ![n] = d], Grows(disk[n], d), DiskOK(status, d),
           w.init.phase \in {"none", "call"}, w.rsp \in {worker[n].rsp, KM!NoResponse}
    PROVE  KMInv'
<1> DEFINE b == KM!Empty(enclave[n].rek + 1)
<1>1. /\ enclave[n] \in EnclaveType /\ NodeOK(status, published["master"], worker[n], enclave[n], disk[n], reg[n])
      /\ nodeFaults \in 0..MaxNodeFaults /\ MaxNodeFaults \in Nat
  BY NodeParts DEF KMInv, KMTypes, KM!KMSecretsAssumption
<1>2. enclave[n].rek + 1 \in Nat
  BY <1>1 DEF EnclaveType
<1>3. b \in EnclaveType /\ b.next = <<>> /\ b.eph = {} /\ b.generation = -1 /\ b.checksum = <<>>
  BY <1>1, <1>2, ResetTyped
<1>4. enclave' = [enclave EXCEPT ![n] = b] /\ UNCHANGED <<epoch, status, published, reg, txs, made>>
      /\ nodeFaults < MaxNodeFaults /\ nodeFaults' = nodeFaults + 1
  BY DEF KM!Restarted
<1> HIDE DEF b
<1>5. nodeFaults' \in 0..MaxNodeFaults
  BY <1>1, <1>4
<1>6. EnclaveOK(status, b, d) /\ InitOK(status, w.init, d)
  BY <1>3 DEF EnclaveOK, InitOK
<1>7. KM!NoResponse.checksum = <<>> /\ KM!NoResponse.next = <<>>
  BY DEF KM!NoResponse
<1>8. ResponseOK(worker[n].rsp, d) /\ ResponseOK(KM!NoResponse, d)
  BY <1>1, <1>7, GrowsKeeps, NoPromise DEF NodeOK
<1>9. /\ ResponseOK(w.rsp, d) /\ d \in DiskType /\ b.next \in {enclave[n].next, <<>>}
      /\ w.rsp.next \in {enclave[n].next, worker[n].rsp.next, <<>>}
      /\ \A x \in b.eph : \E o \in Nodes : x \in enclave[o].eph
  BY <1>3, <1>7, <1>8 DEF Grows
<1> QED
  BY <1>3, <1>4, <1>5, <1>6, <1>9, EnclaveStep

\* A node is restarted.
LEMMA RestartNodeKeeps == ASSUME KM!KMSecretsAssumption, KMInv, NEW n \in Nodes, KM!RestartNode(n) PROVE KMInv'
<1>1. KM!Started \in WorkerType /\ KM!Started.init.phase = "none" /\ KM!Started.rsp = KM!NoResponse
  BY NothingTyped DEF KM!Started, KM!NoInit
<1>2. disk[n] \in DiskType /\ DiskOK(status, disk[n]) /\ disk \in [Nodes -> DiskType]
  BY NodeParts DEF NodeOK, KMInv, KMTypes
<1>3. KM!Restarted(n) /\ worker' = [worker EXCEPT ![n] = KM!Started] /\ disk' = [disk EXCEPT ![n] = disk[n]]
  BY <1>2 DEF KM!RestartNode
<1>4. Grows(disk[n], disk[n]) /\ KM!Started.init.phase \in {"none", "call"} /\ KM!Started.rsp \in {worker[n].rsp, KM!NoResponse}
  BY <1>1, <1>2, GrowsItself
<1> QED
  BY <1>1, <1>2, <1>3, <1>4, NodeRestartStep

\* Its enclave is restarted.
LEMMA RestartEnclaveKeeps == ASSUME KM!KMSecretsAssumption, KMInv, NEW n \in Nodes, KM!RestartEnclave(n) PROVE KMInv'
<1> DEFINE v == IF worker[n].init.phase = "none" THEN worker[n] ELSE KM!HandleInitEnclaveDone(worker[n], KM!NoResponse)
           w == KM!HandleInitEnclave(v)
<1>1. worker[n] \in WorkerType /\ disk[n] \in DiskType /\ DiskOK(status, disk[n]) /\ disk \in [Nodes -> DiskType]
  BY NodeParts DEF NodeOK, KMInv, KMTypes
<1>2. KM!NoResponse \in ResponseType
  BY NothingTyped
<1>3. v \in WorkerType /\ v.rsp \in {worker[n].rsp, KM!NoResponse} /\ v.init.phase \in {"none", "call"}
  <2> DEFINE x == KM!HandleInitEnclaveDone(worker[n], KM!NoResponse)
  <2>1. x \in WorkerType /\ x.rsp \in {worker[n].rsp, KM!NoResponse} /\ x.init.phase \in {"none", "call"}
    BY <1>1, <1>2, HandleDone
  <2> HIDE DEF x
  <2>2. (v = worker[n] /\ worker[n].init.phase = "none") \/ v = x
    BY DEF x
  <2> HIDE DEF v
  <2> QED
    BY <1>1, <2>1, <2>2
<1>4. KM!Restarted(n) /\ worker' = [worker EXCEPT ![n] = w] /\ disk' = [disk EXCEPT ![n] = disk[n]]
  BY <1>1 DEF KM!RestartEnclave
<1> HIDE DEF v
<1>5. w \in WorkerType /\ w.rsp = v.rsp /\ w.init.phase \in {"none", "call"}
  BY <1>3, HandleInitKeeps DEF WorkerKeeps
<1> HIDE DEF w
<1>6. Grows(disk[n], disk[n]) /\ w.rsp \in {worker[n].rsp, KM!NoResponse}
  BY <1>1, <1>3, <1>5, GrowsItself
<1> QED
  BY <1>1, <1>4, <1>5, <1>6, NodeRestartStep

\* A node crashes between storing a secret and storing its checksum.
LEMMA CrashKeeps == ASSUME KM!KMSecretsAssumption, KMInv, NEW n \in Nodes, KM!CrashWhileStoring(n) PROVE KMInv'
<1> DEFINE i == worker[n].init
<1>1. KM!Started \in WorkerType /\ KM!Started.init.phase = "none" /\ KM!Started.rsp = KM!NoResponse
  BY NothingTyped DEF KM!Started, KM!NoInit
<1>2. /\ disk[n] \in DiskType /\ DiskOK(status, disk[n]) /\ status \in StatusType /\ made \in 0..MaxSecrets
      /\ Chained(status, made) /\ status.generation \in Nat
  BY NodeParts DEF NodeOK, StatusType
<1>3. PICK x \in KM!Storing(n) : disk' = [disk EXCEPT ![n] = KM!StoreSecret(@, x[1], x[2])]
  BY DEF KM!CrashWhileStoring
<1>4. KM!Restarted(n) /\ worker' = [worker EXCEPT ![n] = KM!Started]
  BY DEF KM!CrashWhileStoring
<1>5. /\ status.checksum # <<>> /\ x[1] \in 0..status.generation /\ x[2] \in Nat /\ x[2] # 0
      /\ x[2] = status.checksum[x[1] + 2]
  <2>1. CASE i.phase = "call"
    <3>1. status.checksum # <<>> /\ KM!Promoted(n) # 0 /\ x = <<status.generation, KM!Promoted(n)>>
      BY <2>1 DEF KM!Storing
    <3>2. KM!Promoted(n) \in Nat /\ KM!Promoted(n) = status.checksum[status.generation + 2]
      BY <3>1, PromotedRight
    <3>3. x[1] = status.generation /\ x[2] = KM!Promoted(n)
      BY <3>1
    <3> QED
      BY <1>2, <3>1, <3>2, <3>3
  <2>2. CASE i.phase # "call"
    <3>1. /\ i.phase = "replicate" /\ i.generation >= i.next
          /\ x \in {<<i.generation, disk[m].secret[i.generation]>> : m \in KM!Replicas(i.status.nodes, i.generation, i.last)}
      BY <2>2 DEF KM!Storing
    <3>2. PICK m \in KM!Replicas(i.status.nodes, i.generation, i.last) : x = <<i.generation, disk[m].secret[i.generation]>>
      BY <3>1
    <3>3. /\ status.checksum # <<>> /\ i.generation \in 0..status.generation
          /\ disk[m].secret[i.generation] \in Nat /\ disk[m].secret[i.generation] # 0
          /\ disk[m].secret[i.generation] = status.checksum[i.generation + 2]
      BY <3>1, ReplicationRight
    <3>4. x[1] = i.generation /\ x[2] = disk[m].secret[i.generation]
      BY <3>2
    <3> QED
      BY <3>3, <3>4
  <2> QED
    BY <2>1, <2>2
<1> DEFINE d == KM!StoreSecret(disk[n], x[1], x[2])
<1>6. Grows(disk[n], d) /\ DiskOK(status, d)
  <2>1. <<>> \in Checksums
    BY DEF Checksums
  <2> QED
    BY <1>2, <1>5, <2>1, StoreKeeps
<1>7. disk' = [disk EXCEPT ![n] = d]
  BY <1>3
<1> HIDE DEF d
<1>8. KM!Started.init.phase \in {"none", "call"} /\ KM!Started.rsp \in {worker[n].rsp, KM!NoResponse}
  BY <1>1
<1> QED
  BY <1>1, <1>4, <1>6, <1>7, <1>8, NodeRestartStep

-----------------------------------------------------------------------------
\* The outcome of loading and generating secrets.
OutcomeType == [w : WorkerType, en : EnclaveType, d : DiskType, new : SUBSET TxType]

\* The ephemeral secret that was published.
PublishedEphemeral == [epoch |-> published["ephemeral"].epoch, secret |-> published["ephemeral"].secret]

\* What loading may change: the enclave gets the published secrets and no
\* other, and the master secret as the proposal of its next generation.
Loads(o, q) ==
    /\ q \in OutcomeType /\ q.new = o.new /\ WorkerKeeps(o.w, q.w)
    /\ q.en.rek = o.en.rek /\ q.en.generation = o.en.generation /\ q.en.checksum = o.en.checksum
    /\ \A x \in q.en.eph : x \in o.en.eph \/ x = PublishedEphemeral
    /\ \/ q.en.next = o.en.next /\ q.d = o.d
       \/ /\ published["master"].secret # 0 /\ published["master"].generation = o.en.generation + 1
          /\ q.en.next = published["master"].checksum
          /\ q.d.secret = o.d.secret
          /\ q.d.proposal = [generation |-> published["master"].generation, secret |-> published["master"].secret]

\* A worker keeps what it did when it has kept it twice.
LEMMA KeepsTwice == ASSUME NEW a, NEW b, NEW c, WorkerKeeps(a, b), WorkerKeeps(b, c) PROVE WorkerKeeps(a, c)
BY DEF WorkerKeeps

\* Loading twice.
LEMMA LoadsTwice == ASSUME NEW a, NEW b, NEW c, Loads(a, b), Loads(b, c) PROVE Loads(a, c)
<1>1. WorkerKeeps(a.w, c.w)
  BY KeepsTwice DEF Loads
<1>2. \A x \in c.en.eph : x \in a.en.eph \/ x = PublishedEphemeral
  BY DEF Loads
<1> QED
  BY <1>1, <1>2 DEF Loads

\* An outcome with another worker.
LEMMA OtherWorker ==
    ASSUME NEW o \in OutcomeType, NEW q, Loads(o, q), NEW w, WorkerKeeps(q.w, w)
    PROVE  Loads(o, [q EXCEPT !.w = w])
<1> DEFINE r == [q EXCEPT !.w = w]
<1>1. w \in WorkerType /\ q \in OutcomeType
  BY DEF WorkerKeeps, Loads
<1>2. r \in OutcomeType /\ r.w = w /\ r.en = q.en /\ r.d = q.d /\ r.new = q.new
  BY <1>1 DEF OutcomeType
<1>3. WorkerKeeps(o.w, w)
  BY KeepsTwice DEF Loads
<1> HIDE DEF r
<1>4. /\ q.new = o.new /\ q.en.rek = o.en.rek /\ q.en.generation = o.en.generation /\ q.en.checksum = o.en.checksum
      /\ \A x \in q.en.eph : x \in o.en.eph \/ x = PublishedEphemeral
  BY DEF Loads
<1>5. \A x \in r.en.eph : x \in o.en.eph \/ x = PublishedEphemeral
  BY <1>2, <1>4
<1>6. \/ r.en.next = o.en.next /\ r.d = o.d
      \/ /\ published["master"].secret # 0 /\ published["master"].generation = o.en.generation + 1
         /\ r.en.next = published["master"].checksum
         /\ r.d.secret = o.d.secret
         /\ r.d.proposal = [generation |-> published["master"].generation, secret |-> published["master"].secret]
  BY <1>2 DEF Loads
<1>7. /\ r \in OutcomeType /\ r.new = o.new /\ WorkerKeeps(o.w, r.w)
      /\ r.en.rek = o.en.rek /\ r.en.generation = o.en.generation /\ r.en.checksum = o.en.checksum
  BY <1>2, <1>3, <1>4
<1>8. Loads(o, r)
  BY <1>5, <1>6, <1>7 DEF Loads
<1> QED
  BY <1>8 DEF r

\* Loading a secret does what it may.
LEMMA LoadDoes ==
    ASSUME KM!KMSecretsAssumption, KMInv, NEW n \in Nodes, NEW k \in KM!AllKinds, NEW o \in OutcomeType,
           NEW q \in KM!Load(n, k, o)
    PROVE  Loads(o, q)
<1> DEFINE s == o.w.seen[k]
           fail(x) == [x EXCEPT !.w.load[k] = @ + 1]
           ok(x) == [x EXCEPT !.w.load[k] = KM!Done]
           reinit(x) == [ok(x) EXCEPT !.w = KM!HandleInitEnclave(@)]
           plus == [o EXCEPT !.en.eph = KM!AddEphemeral(@, {[epoch |-> s.epoch, secret |-> s.secret]})]
           prop == KM!AddMasterSecretProposal(o, s)
<1>1. /\ o.w \in WorkerType /\ o.en \in EnclaveType /\ o.d \in DiskType /\ s \in SecretType
      /\ published \in [KM!AllKinds -> SecretType] /\ KM!Done \in Nat
      /\ "master" \in KM!AllKinds /\ "ephemeral" \in KM!AllKinds
  BY DEF OutcomeType, WorkerType, KMInv, KMTypes, KM!KMSecretsAssumption, KM!Done, KM!AllKinds
<1>2. s.epoch \in Nat /\ s.secret \in Nat /\ s.generation \in Nat /\ s.checksum \in Checksums
  BY <1>1 DEF SecretType
<1>3. Loads(o, o)
  BY <1>1 DEF Loads, WorkerKeeps
<1> HIDE DEF s
<1>4. ASSUME NEW x, Loads(o, x) PROVE Loads(o, fail(x)) /\ Loads(o, ok(x)) /\ Loads(o, reinit(x))
  <2>1. x \in OutcomeType /\ x.w \in WorkerType
    BY <1>4 DEF Loads, OutcomeType
  <2>2. ASSUME NEW l \in Nat
        PROVE  WorkerKeeps(x.w, [x.w EXCEPT !.load[k] = l])
    <3>1. [x.w EXCEPT !.load[k] = l] \in WorkerType /\ [x.w EXCEPT !.load[k] = l].rsp = x.w.rsp
          /\ [x.w EXCEPT !.load[k] = l].init = x.w.init
      BY <2>1, <2>2 DEF WorkerType
    <3> QED
      BY <3>1 DEF WorkerKeeps
  <2>3. x.w.load[k] + 1 \in Nat
    BY <2>1 DEF WorkerType
  <2> DEFINE l == x.w.load[k] + 1
             u == [x.w EXCEPT !.load[k] = l]
             v == [x.w EXCEPT !.load[k] = KM!Done]
             t == KM!HandleInitEnclave(v)
  <2>4. fail(x) = [x EXCEPT !.w = u] /\ ok(x) = [x EXCEPT !.w = v]
    BY <2>1 DEF OutcomeType, WorkerType
  <2>5. WorkerKeeps(x.w, u) /\ WorkerKeeps(x.w, v)
    BY <1>1, <2>2, <2>3
  <2> HIDE DEF u, v
  <2>6. v \in WorkerType
    BY <2>5 DEF WorkerKeeps
  <2>7. WorkerKeeps(x.w, t)
    BY <2>5, <2>6, HandleInitKeeps, KeepsTwice
  <2>8. reinit(x) = [[x EXCEPT !.w = v] EXCEPT !.w = KM!HandleInitEnclave([x EXCEPT !.w = v].w)]
    BY <2>4
  <2>9. reinit(x) = [x EXCEPT !.w = t]
    <3>1. [x EXCEPT !.w = v].w = v
      BY <2>1 DEF OutcomeType
    <3> HIDE DEF t, ok
    <3>2. reinit(x) = [[x EXCEPT !.w = v] EXCEPT !.w = t]
      BY <2>8, <3>1 DEF t
    <3> HIDE DEF reinit
    <3> QED
      BY <2>1, <3>2 DEF OutcomeType
  <2> HIDE DEF t, fail, ok, reinit
  <2> QED
    BY <1>4, <2>4, <2>5, <2>7, <2>9, OtherWorker
<1>5. ASSUME k = "ephemeral", s = published[k] PROVE Loads(o, plus)
  <2> DEFINE y == [epoch |-> s.epoch, secret |-> s.secret]
             es == KM!AddEphemeral(o.en.eph, {y})
             b == [o.en EXCEPT !.eph = es]
  <2>1. y \in EphemeralType /\ y = PublishedEphemeral
    BY <1>2, <1>5 DEF EphemeralType, PublishedEphemeral
  <2>2. o.en.eph \subseteq EphemeralType
    BY <1>1 DEF EnclaveType
  <2>3. plus = [o EXCEPT !.en = b]
    BY <1>1 DEF OutcomeType, EnclaveType
  <2> HIDE DEF y, plus
  <2>4. es \subseteq EphemeralType /\ \A x \in es : x \in o.en.eph \/ x = y
    BY <2>1, <2>2 DEF KM!AddEphemeral
  <2> HIDE DEF es
  <2>5. /\ b \in EnclaveType /\ b.eph = es /\ b.rek = o.en.rek /\ b.generation = o.en.generation
        /\ b.checksum = o.en.checksum /\ b.next = o.en.next
    BY <1>1, <2>4 DEF EnclaveType
  <2> HIDE DEF b
  <2>6. plus \in OutcomeType /\ plus.w = o.w /\ plus.d = o.d /\ plus.new = o.new /\ plus.en = b
    BY <2>3, <2>5 DEF OutcomeType
  <2>7. WorkerKeeps(o.w, o.w)
    BY <1>1 DEF WorkerKeeps
  <2> QED
    BY <2>1, <2>4, <2>5, <2>6, <2>7 DEF Loads
<1>6. ASSUME k = "master", s = published[k], s.secret # 0, KM!EnclaveNext(o.en) = s.generation PROVE Loads(o, prop)
  <2> DEFINE y == [generation |-> s.generation, secret |-> s.secret]
             b == [o.en EXCEPT !.next = s.checksum]
             e == [o.d EXCEPT !.proposal = y]
  <2>1. prop = [[o EXCEPT !.d = e] EXCEPT !.en = b]
    BY <1>1 DEF KM!AddMasterSecretProposal, OutcomeType, EnclaveType, DiskType
  <2>2. y \in ProposalType
    BY <1>2 DEF ProposalType
  <2> HIDE DEF y, prop
  <2>3. /\ b \in EnclaveType /\ b.eph = o.en.eph /\ b.rek = o.en.rek /\ b.generation = o.en.generation
        /\ b.checksum = o.en.checksum /\ b.next = s.checksum
    BY <1>1, <1>2 DEF EnclaveType
  <2>4. e \in DiskType /\ e.secret = o.d.secret /\ e.proposal = y
    BY <1>1, <2>2 DEF DiskType
  <2> HIDE DEF b, e
  <2>5. prop \in OutcomeType /\ prop.w = o.w /\ prop.d = e /\ prop.new = o.new /\ prop.en = b
    BY <2>1, <2>3, <2>4 DEF OutcomeType
  <2>6. WorkerKeeps(o.w, o.w)
    BY <1>1 DEF WorkerKeeps
  <2>7. s = published["master"] /\ s.generation = o.en.generation + 1 /\ y = [generation |-> s.generation, secret |-> s.secret]
    BY <1>6 DEF KM!EnclaveNext, y
  <2> QED
    BY <1>6, <2>3, <2>4, <2>5, <2>6, <2>7 DEF Loads
<1>7. \/ q = o \/ q = fail(o) \/ q = reinit(o)
      \/ q = ok(plus) /\ k = "ephemeral" /\ s = published[k]
      \/ q = reinit(prop) /\ k = "master" /\ s = published[k] /\ s.secret # 0 /\ KM!EnclaveNext(o.en) = s.generation
  BY <1>1 DEF KM!Load, s, KM!AllKinds
<1> HIDE DEF fail, ok, reinit, plus, prop
<1> QED
  BY <1>3, <1>4, <1>5, <1>6, <1>7

\* A node that has loaded secrets.
LEMMA LoadKeeps ==
    ASSUME KM!KMSecretsAssumption, KMInv, NEW n \in Nodes, NEW o \in OutcomeType, NEW q, Loads(o, q),
           o.en = enclave[n], o.d = disk[n], WorkerKeeps(worker[n], o.w)
    PROVE  /\ q.w \in WorkerType /\ q.en \in EnclaveType /\ q.d \in DiskType
           /\ NodeOK(status, published["master"], q.w, q.en, q.d, reg[n])
           /\ NodeFresh(txs, made, q.w, q.en, reg[n])
           /\ MemberOK(status, disk[n]) => MemberOK(status, q.d)
           /\ \A x \in q.en.eph : (\E m \in Nodes : x \in enclave[m].eph) \/ x = PublishedEphemeral
<1> DEFINE p == published["master"]
<1>1. /\ NodeOK(status, p, worker[n], enclave[n], disk[n], reg[n]) /\ NodeFresh(txs, made, worker[n], enclave[n], reg[n])
      /\ FreshIn(txs, made, p.checksum) /\ PublishedOK(status, p, epoch, made) /\ Chained(status, made)
      /\ status \in StatusType /\ p \in SecretType /\ made \in 0..MaxSecrets
      /\ enclave[n] \in EnclaveType /\ disk[n] \in DiskType
  BY NodeParts
<1>2. q.w \in WorkerType /\ q.en \in EnclaveType /\ q.d \in DiskType
  BY DEF Loads, OutcomeType
<1>3. WorkerKeeps(worker[n], q.w)
  BY KeepsTwice DEF Loads
<1>4. q.w.rsp = worker[n].rsp /\ (q.w.init = worker[n].init \/ q.w.init.phase \in {"none", "call"})
  BY <1>3 DEF WorkerKeeps
<1>5. InitOK(status, q.w.init, disk[n])
  BY <1>1, <1>4 DEF NodeOK, InitOK
<1>6. q.en.generation = enclave[n].generation /\ q.en.checksum = enclave[n].checksum
  BY DEF Loads
<1>7. EnclaveOK(status, q.en, disk[n]) /\ DiskOK(status, disk[n]) /\ ResponseOK(worker[n].rsp, disk[n]) /\ ResponseOK(reg[n].rsp, disk[n])
  BY <1>1, <1>6 DEF NodeOK, EnclaveOK
<1>8. \A x \in q.en.eph : (\E m \in Nodes : x \in enclave[m].eph) \/ x = PublishedEphemeral
  BY DEF Loads
<1>9. CASE q.en.next = o.en.next /\ q.d = o.d
  <2>1. NodeOK(status, p, q.w, q.en, q.d, reg[n])
    BY <1>1, <1>4, <1>5, <1>7, <1>9 DEF NodeOK
  <2>2. NodeFresh(txs, made, q.w, q.en, reg[n])
    BY <1>1, <1>4, <1>9 DEF NodeFresh
  <2> QED
    BY <1>2, <1>8, <1>9, <2>1, <2>2
<1>10. CASE /\ p.secret # 0 /\ p.generation = o.en.generation + 1
            /\ q.en.next = p.checksum
            /\ q.d.secret = o.d.secret
            /\ q.d.proposal = [generation |-> p.generation, secret |-> p.secret]
  <2>1. q.d.secret = disk[n].secret
    BY <1>10
  <2>2. \A g : SecretsKept(disk[n], g) => SecretsKept(q.d, g)
    BY <2>1 DEF SecretsKept
  <2>3. EnclaveOK(status, q.en, q.d)
    BY <1>7, <2>2 DEF EnclaveOK
  <2>4. InitOK(status, q.w.init, q.d)
    BY <1>5, <2>1, <2>2 DEF InitOK
  <2>5. DiskOK(status, q.d) /\ ResponseOK(worker[n].rsp, q.d) /\ ResponseOK(reg[n].rsp, q.d)
    BY <1>7, <2>1, <2>2 DEF DiskOK, ResponseOK
  <2>6. \A c : NextOK(p, c, q.d)
    BY <1>10 DEF NextOK
  <2>7. NodeOK(status, p, q.w, q.en, q.d, reg[n])
    BY <1>4, <2>3, <2>4, <2>5, <2>6 DEF NodeOK
  <2>8. NodeFresh(txs, made, q.w, q.en, reg[n])
    BY <1>1, <1>4, <1>10 DEF NodeFresh
  <2>9. ASSUME MemberOK(status, disk[n]) PROVE MemberOK(status, q.d)
    <3>1. ASSUME status.checksum # <<>>, NEW g \in 0..status.generation
          PROVE  q.d.secret[g] # 0 \/ (g = status.generation /\ q.d.proposal = [generation |-> g, secret |-> status.checksum[g + 2]])
      <4>1. disk[n].secret[g] # 0 \/ g = status.generation
        BY <2>9, <3>1 DEF MemberOK
      <4>2. CASE disk[n].secret[g] # 0
        BY <2>1, <4>2
      <4>3. CASE g = status.generation /\ p.generation = status.generation
        <5>1. p.checksum = status.checksum /\ p.checksum[p.generation + 2] = p.secret
          BY <1>1, <1>10, <3>1, <4>3 DEF PublishedOK, SecretChained
        <5> QED
          BY <1>10, <4>3, <5>1
      <4>4. CASE g = status.generation /\ p.generation # status.generation
        <5>1. p.generation = status.generation + 1
          BY <1>1, <1>10, <3>1, <4>4 DEF PublishedOK, KM!NextGeneration
        <5>2. o.en.generation \in Int /\ status.generation \in Nat
          BY <1>1 DEF EnclaveType, StatusType
        <5>3. enclave[n].generation = status.generation
          BY <1>10, <5>1, <5>2
        <5>4. SecretsKept(disk[n], status.generation)
          BY <1>1, <5>2, <5>3 DEF NodeOK, EnclaveOK
        <5>5. status.generation \in KM!Generations /\ status.generation <= status.generation
          BY <1>1, <3>1, <5>2, GenerationBound
        <5> QED
          BY <2>1, <4>4, <5>4, <5>5 DEF SecretsKept
      <4> QED
        BY <4>1, <4>2, <4>3, <4>4
    <3> QED
      BY <3>1 DEF MemberOK
  <2> QED
    BY <1>2, <1>8, <2>7, <2>8, <2>9
<1> QED
  BY <1>9, <1>10 DEF Loads

\* A worker is notified of a secret and loads it.
LEMMA NewSecretKeeps ==
    ASSUME KM!KMSecretsAssumption, KMInv, NEW n \in Nodes, NEW k \in KM!AllKinds, KM!HandleNewSecret(n, k)
    PROVE  KMInv'
<1> DEFINE gn == IF k = "ephemeral" /\ published[k].epoch = epoch + 1 THEN KM!Done ELSE worker[n].gen[k]
           v == [worker[n] EXCEPT !.events = @ \ {k}, !.seen[k] = published[k], !.load[k] = 0, !.gen[k] = gn]
           o == [KM!Outcome(n) EXCEPT !.w = v]
<1>1. /\ worker[n] \in WorkerType /\ enclave[n] \in EnclaveType /\ disk[n] \in DiskType /\ reg \in [Nodes -> RegType]
      /\ published[k] \in SecretType /\ KM!Done \in Nat /\ nodeFaults \in 0..MaxNodeFaults
      /\ reg[n] \in RegType
  BY NodeParts DEF KMInv, KMTypes, KM!KMSecretsAssumption, KM!Done
<1>2. PICK q \in KM!Load(n, k, o) : KM!Apply(n, q)
  BY DEF KM!HandleNewSecret
<1>3. UNCHANGED <<epoch, status, published, reg, txs, made, nodeFaults>>
  BY DEF KM!HandleNewSecret
<1>4. gn \in Nat
  BY <1>1 DEF WorkerType
<1> HIDE DEF gn
<1>5. v \in WorkerType /\ v.rsp = worker[n].rsp /\ v.init = worker[n].init
  BY <1>1, <1>4 DEF WorkerType
<1> HIDE DEF v
<1>6. KM!Outcome(n) \in OutcomeType /\ KM!Outcome(n).en = enclave[n] /\ KM!Outcome(n).d = disk[n]
  BY <1>1 DEF KM!Outcome, OutcomeType
<1>7. o \in OutcomeType /\ o.w = v /\ o.en = enclave[n] /\ o.d = disk[n]
  BY <1>5, <1>6 DEF OutcomeType
<1> HIDE DEF o
<1>8. WorkerKeeps(worker[n], o.w)
  BY <1>5, <1>7 DEF WorkerKeeps
<1>9. Loads(o, q)
  BY <1>7, LoadDoes
<1>10. /\ q.w \in WorkerType /\ q.en \in EnclaveType /\ q.d \in DiskType
       /\ NodeOK(status, published["master"], q.w, q.en, q.d, reg[n])
       /\ NodeFresh(txs, made, q.w, q.en, reg[n])
       /\ MemberOK(status, disk[n]) => MemberOK(status, q.d)
       /\ \A x \in q.en.eph : (\E m \in Nodes : x \in enclave[m].eph) \/ x = PublishedEphemeral
  BY <1>7, <1>8, <1>9, LoadKeeps
<1>11. /\ worker' = [worker EXCEPT ![n] = q.w] /\ enclave' = [enclave EXCEPT ![n] = q.en]
       /\ disk' = [disk EXCEPT ![n] = q.d] /\ reg' = [reg EXCEPT ![n] = reg[n]] /\ nodeFaults' \in 0..MaxNodeFaults
       /\ UNCHANGED <<epoch, status, published, txs, made>>
  BY <1>1, <1>2, <1>3 DEF KM!Apply
<1>12. \A x \in q.en.eph :
          \/ \E m \in Nodes : x \in enclave[m].eph
          \/ x = [epoch |-> published["ephemeral"].epoch, secret |-> published["ephemeral"].secret]
  BY <1>10 DEF PublishedEphemeral
<1> QED
  BY <1>1, <1>10, <1>11, <1>12, NodeAlone

\* A secret that an enclave generates.
LEMMA NewTyped ==
    ASSUME KM!KMSecretsAssumption, KMInv, NEW n \in Nodes, NEW k \in KM!AllKinds, NEW x \in Nat
    PROVE  KM!NewSecret(n, k, x) \in SecretType /\ KM!NewSecret(n, k, x).secret = x
<1> DEFINE en == enclave[n]
           gn == IF k = "master" THEN KM!NextGeneration(worker[n].status) ELSE 0
           ck == IF k = "master" THEN KM!ChecksumMasterSecret(x, KM!LastChecksum(en)) ELSE <<x>>
           rk == {r \in KM!REKs(status.nodes) : r[2] # 0}
<1>1. worker[n] \in WorkerType /\ en \in EnclaveType /\ status \in StatusType /\ epoch \in Nat /\ reg \in [Nodes -> RegType]
  BY NodeParts DEF KMInv, KMTypes
<1>2. gn \in Nat
  <2>1. worker[n].status \in StatusType
    BY <1>1 DEF WorkerType
  <2>2. worker[n].status.generation \in Nat
    BY <2>1 DEF StatusType
  <2> QED
    BY <2>2 DEF KM!NextGeneration
<1>3. ck \in Checksums
  <2>1. KM!LastChecksum(en) \in Seq(Nat)
    BY <1>1 DEF KM!LastChecksum, KM!RuntimeID, EnclaveType, Checksums
  <2> QED
    BY <2>1 DEF KM!ChecksumMasterSecret, Checksums
<1>4. rk \in SUBSET (Nodes \X Nat)
  <2>1. \A m \in Nodes : reg[m].rek \in Nat
    BY <1>1 DEF RegType
  <2>2. status.nodes \subseteq Nodes
    BY <1>1 DEF StatusType
  <2> QED
    BY <2>1, <2>2 DEF KM!REKs
<1>5. en.rek \in Nat
  BY <1>1 DEF EnclaveType
<1>6. KM!NewSecret(n, k, x) = [generation |-> gn, epoch |-> epoch + 1, secret |-> x, checksum |-> ck, reks |-> rk, node |-> n, rak |-> en.rek]
  BY DEF KM!NewSecret
<1> HIDE DEF gn, ck, rk, en
<1> QED
  BY <1>1, <1>2, <1>3, <1>4, <1>5, <1>6 DEF SecretType

\* A master secret is made for the next generation of the enclave, on top of
\* the secrets that consensus has.
LEMMA NewMasterRight ==
    ASSUME KM!KMSecretsAssumption, KMInv, NEW n \in Nodes,
           KM!CanGenerate(n, "master", KM!NewSecret(n, "master", made + 1))
    PROVE  TxOK(status, KM!NewSecret(n, "master", made + 1), made + 1)
<1> DEFINE S == KM!NewSecret(n, "master", made + 1)
           en == enclave[n]
           x == made + 1
           c == KM!LastChecksum(en)
<1>1. /\ en \in EnclaveType /\ status \in StatusType /\ made \in 0..MaxSecrets /\ made \in Nat /\ Chained(status, made)
      /\ EnclaveOK(status, en, disk[n])
  BY NodeParts DEF NodeOK
<1>2. S.generation = en.generation + 1
  BY DEF KM!CanGenerate, KM!EnclaveNext
<1>3. S \in SecretType /\ S.secret = x /\ x \in Nat
  BY <1>1, NewTyped DEF KM!AllKinds
<1>4. S.checksum = Append(c, x)
  BY DEF KM!NewSecret, KM!ChecksumMasterSecret
<1>5. S.generation \in Nat
  BY <1>3 DEF SecretType
<1> HIDE DEF S
<1>6. ASSUME en.generation = -1 /\ en.checksum = <<>> PROVE TxOK(status, S, x)
  <2>1. c = <<0>>
    BY <1>6 DEF KM!LastChecksum, KM!RuntimeID
  <2>2. S.generation = 0
    BY <1>2, <1>6
  <2>3. Len(S.checksum) = 2 /\ S.checksum[1] = 0 /\ S.checksum[2] = x
    BY <1>3, <1>4, <2>1
  <2>4. \A i \in 1..Len(S.checksum) : S.checksum[i] \in 0..x
    BY <1>3, <2>3
  <2>5. SecretChained(S, x)
    BY <1>1, <1>3, <2>2, <2>3, <2>4 DEF SecretChained
  <2> QED
    BY <2>2, <2>5 DEF TxOK
<1>7. ASSUME en.generation \in 0..status.generation, status.checksum # <<>>,
             Len(en.checksum) = en.generation + 2, Extends(en.checksum, status.checksum)
      PROVE  TxOK(status, S, x)
  <2>0. en.generation \in Nat /\ status.generation \in Nat /\ en.checksum \in Seq(Nat) /\ en.generation <= status.generation
    BY <1>1, <1>7 DEF StatusType, EnclaveType, Checksums
  <2>1. c = en.checksum
    BY <1>7, <2>0 DEF KM!LastChecksum
  <2>2. /\ Len(S.checksum) = en.generation + 3 /\ S.checksum[en.generation + 3] = x
        /\ \A i \in 1..en.generation + 2 : S.checksum[i] = en.checksum[i]
    <3> DEFINE e == en.checksum
               g == en.generation
    <3>1. S.checksum = Append(e, x) /\ Len(e) = g + 2 /\ e \in Seq(Nat) /\ x \in Nat /\ g \in Nat
      BY <1>3, <1>4, <1>7, <2>0, <2>1
    <3> HIDE DEF e, g, x
    <3>2. Len(S.checksum) = g + 3 /\ S.checksum[g + 3] = x /\ \A i \in 1..g + 2 : S.checksum[i] = e[i]
      BY <3>1
    <3> QED
      BY <3>2 DEF e, g
  <2>3. \A i \in 1..en.generation + 2 : S.checksum[i] = status.checksum[i]
    BY <1>7, <2>2 DEF Extends
  <2>4. status.checksum[1] = 0 /\ \A g \in 0..status.generation : status.checksum[g + 2] \in (g + 1)..made
    BY <1>1, <1>7 DEF Chained
  <2>5. status.generation < made
    BY <1>1, <1>7, GenerationBound
  <2>6. \A i \in 1..en.generation + 2 : S.checksum[i] \in 0..x
    <3> SUFFICES ASSUME NEW i \in 1..en.generation + 2 PROVE S.checksum[i] \in 0..x
      OBVIOUS
    <3>1. CASE i = 1
      BY <1>3, <2>3, <2>4, <3>1
    <3>2. CASE i # 1
      <4>1. i - 2 \in 0..status.generation /\ (i - 2) + 2 = i
        BY <2>0, <3>2
      <4>2. status.checksum[i] \in (i - 2 + 1)..made
        BY <2>4, <4>1
      <4> QED
        BY <1>1, <2>0, <2>3, <4>2
    <3> QED
      BY <3>1, <3>2
  <2>7. \A i \in 1..Len(S.checksum) : S.checksum[i] \in 0..x
    <3>1. \A i \in 1..en.generation + 3 : i = en.generation + 3 \/ i \in 1..en.generation + 2
      BY <2>0
    <3> QED
      BY <1>3, <2>2, <2>6, <3>1
  <2>8. SecretChained(S, x)
    <3>1. S.generation + 2 = en.generation + 3 /\ S.secret \in (S.generation + 1)..x
      BY <1>1, <1>2, <1>3, <2>0, <2>5
    <3>2. S.checksum[1] = 0
      <4>1. 1 \in 1..en.generation + 2
        BY <2>0
      <4> QED
        BY <2>3, <2>4, <4>1
    <3> QED
      BY <1>3, <2>2, <2>7, <3>1, <3>2 DEF SecretChained
  <2>9. S.generation <= status.generation + 1 /\ \A i \in 1..S.generation + 1 : S.checksum[i] = status.checksum[i]
    BY <1>2, <2>0, <2>3
  <2> QED
    BY <1>7, <2>8, <2>9 DEF TxOK
<1>8. TxOK(status, S, x)
  BY <1>1, <1>6, <1>7 DEF EnclaveOK
<1> QED
  BY <1>8 DEF S

\* What an outcome has after a secret may have been generated.
LEMMA GenerateDoes ==
    ASSUME KM!KMSecretsAssumption, KMInv, NEW n \in Nodes, NEW k \in KM!AllKinds, NEW due, NEW o \in OutcomeType,
           Cardinality(o.new) \in Nat
    PROVE  LET q == KM!Generate(n, k, due, o)
               x == made + Cardinality(o.new) + 1
               S == KM!NewSecret(n, k, x)
           IN  /\ q \in OutcomeType /\ q.en = o.en /\ q.d = o.d /\ WorkerKeeps(o.w, q.w)
               /\ \/ q.new = o.new
                  \/ q.new = o.new \cup {[kind |-> k, secret |-> S]} /\ x <= MaxSecrets /\ KM!CanGenerate(n, k, S)
<1> DEFINE x == made + Cardinality(o.new) + 1
           S == KM!NewSecret(n, k, x)
           tx == [kind |-> k, secret |-> S]
           g == o.w.gen[k] + 1
           u == [o.w EXCEPT !.gen[k] = g]
           v == [o.w EXCEPT !.gen[k] = g, !.busy[k] = TRUE]
           a == [o EXCEPT !.w = u]
           b == [[o EXCEPT !.w = v] EXCEPT !.new = o.new \cup {tx}]
<1>1. o.w \in WorkerType /\ o.new \subseteq TxType /\ made \in Nat /\ MaxSecrets \in Nat
  BY NodeParts DEF OutcomeType
<1>2. x \in Nat
  BY <1>1
<1>3. S \in SecretType /\ S.secret = x
  BY <1>2, NewTyped
<1>4. tx \in TxType
  BY <1>3 DEF TxType
<1>5. g \in Nat
  BY <1>1 DEF WorkerType
<1>6. \/ KM!Generate(n, k, due, o) = o \/ KM!Generate(n, k, due, o) = a
      \/ KM!Generate(n, k, due, o) = b /\ ~(S.secret > MaxSecrets) /\ KM!CanGenerate(n, k, S)
  <2>1. KM!Cardinality(o.new) = Cardinality(o.new)
    BY SecretsCardinality
  <2>2. a = [o EXCEPT !.w.gen[k] = @ + 1]
    BY <1>1 DEF OutcomeType, WorkerType
  <2>3. b = [o EXCEPT !.w.gen[k] = @ + 1, !.w.busy[k] = TRUE, !.new = @ \cup {tx}]
    BY <1>1 DEF OutcomeType, WorkerType
  <2>4. S = KM!NewSecret(n, k, made + KM!Cardinality(o.new) + 1)
    BY <2>1
  <2> HIDE DEF a, b, S
  <2> QED
    BY <2>2, <2>3, <2>4 DEF KM!Generate
<1> HIDE DEF x, S, tx, g
<1>7. u \in WorkerType /\ u.rsp = o.w.rsp /\ u.init = o.w.init /\ v \in WorkerType /\ v.rsp = o.w.rsp /\ v.init = o.w.init
  BY <1>1, <1>5 DEF WorkerType
<1> HIDE DEF u, v
<1>8. WorkerKeeps(o.w, u) /\ WorkerKeeps(o.w, v) /\ WorkerKeeps(o.w, o.w)
  BY <1>1, <1>7 DEF WorkerKeeps
<1>9. a \in OutcomeType /\ a.w = u /\ a.en = o.en /\ a.d = o.d /\ a.new = o.new
  BY <1>7 DEF OutcomeType
<1>10. b \in OutcomeType /\ b.w = v /\ b.en = o.en /\ b.d = o.d /\ b.new = o.new \cup {tx}
  BY <1>1, <1>4, <1>7 DEF OutcomeType
<1> HIDE DEF a, b
<1>11. ~(S.secret > MaxSecrets) => x <= MaxSecrets
  BY <1>1, <1>2, <1>3
<1> QED
  BY <1>6, <1>8, <1>9, <1>10, <1>11 DEF x, S, tx

\* What may be submitted in a block: c secrets, among them at most one master
\* secret, the next one that is made.
NewOK(N, c) ==
    /\ N \subseteq TxType /\ IsFiniteSet(N) /\ Cardinality(N) = c /\ made + c <= MaxSecrets
    /\ \A x \in N : x.kind = "master" => c > 0 /\ TxOK(status, x.secret, made + 1) /\ x.secret.secret = made + 1
    /\ \A x, y \in N : x.kind = "master" /\ y.kind = "master" => x = y

\* Secrets that were generated, and what was submitted before.
LEMMA SubmitKeeps ==
    ASSUME KM!KMSecretsAssumption, KMInv, NEW N, NEW c \in Nat, NewOK(N, c)
    PROVE  /\ made + c \in 0..MaxSecrets /\ made <= made + c /\ txs \cup N \in SUBSET TxType
           /\ TxsOK(status, txs \cup N, made + c)
           /\ \A e \in Checksums : FreshIn(txs, made, e) => FreshIn(txs \cup N, made + c, e)
<1> DEFINE T == txs \cup N
           k == made + c
<1>1. /\ made \in Nat /\ MaxSecrets \in Nat /\ status \in StatusType /\ Chained(status, made)
      /\ TxsOK(status, txs, made) /\ txs \subseteq TxType
  BY DEF KMInv, KMTypes, MasterInv, KM!KMSecretsAssumption
<1>2. k \in Nat /\ made <= k /\ k <= MaxSecrets /\ T \subseteq TxType
  BY <1>1 DEF NewOK
<1>3. ASSUME NEW x \in txs, x.kind = "master"
      PROVE  x.secret \in SecretType /\ TxOK(status, x.secret, made) /\ x.secret.secret <= made
  <2>1. x.secret \in SecretType /\ TxOK(status, x.secret, made)
    BY <1>1, <1>3 DEF TxsOK, TxType
  <2>2. x.secret.secret \in (x.secret.generation + 1)..made
    BY <2>1 DEF TxOK, SecretChained
  <2> QED
    BY <2>1, <2>2
<1>4. ASSUME NEW x \in N, x.kind = "master"
      PROVE  x.secret \in SecretType /\ TxOK(status, x.secret, made + 1) /\ x.secret.secret = made + 1 /\ made + 1 <= k
  <2>1. x.secret \in SecretType
    BY DEF NewOK, TxType
  <2>2. c > 0 /\ TxOK(status, x.secret, made + 1) /\ x.secret.secret = made + 1
    BY <1>4 DEF NewOK
  <2> QED
    BY <1>1, <2>1, <2>2
<1>5. Chained(status, made + 1)
  BY <1>1, MadeGrows
<1> HIDE DEF k
<1>6. ASSUME NEW x \in T, x.kind = "master" PROVE TxOK(status, x.secret, k)
  <2>1. CASE x \in txs
    BY <1>1, <1>2, <1>3, <1>6, <2>1, MadeGrows
  <2>2. CASE x \in N
    <3>1. made + 1 \in Nat
      BY <1>1
    <3>2. x.secret \in SecretType /\ TxOK(status, x.secret, made + 1) /\ made + 1 <= k
      BY <1>4, <1>6, <2>2
    <3> QED
      BY <1>1, <1>2, <1>5, <3>1, <3>2, MadeGrows
  <2> QED
    BY <2>1, <2>2
<1>7. ASSUME NEW x \in T, NEW y \in T, x.kind = "master", y.kind = "master", x.secret.secret = y.secret.secret
      PROVE  x = y
  <2>1. CASE x \in txs /\ y \in txs
    BY <1>1, <1>7, <2>1 DEF TxsOK
  <2>2. CASE x \in N /\ y \in N
    BY <1>7, <2>2 DEF NewOK
  <2>3. CASE (x \in txs /\ y \in N) \/ (x \in N /\ y \in txs)
    <3>1. (x.secret.secret <= made /\ y.secret.secret = made + 1) \/ (x.secret.secret = made + 1 /\ y.secret.secret <= made)
      BY <1>3, <1>4, <1>7, <2>3
    <3> QED
      BY <1>1, <1>7, <3>1
  <2> QED
    BY <2>1, <2>2, <2>3
<1>8. TxsOK(status, T, k)
  BY <1>6, <1>7 DEF TxsOK
<1>9. ASSUME NEW e \in Checksums, FreshIn(txs, made, e) PROVE FreshIn(T, k, e)
  <2>1. \A i \in 1..Len(e) : e[i] \in Nat /\ e[i] <= made
    BY <1>9 DEF FreshIn, Checksums
  <2>2. \A i \in 1..Len(e) : e[i] <= k
    BY <1>1, <1>2, <2>1
  <2>3. ASSUME NEW x \in T, x.kind = "master", e = x.secret.checksum PROVE FALSE
    <3>1. CASE x \in txs
      BY <1>9, <2>3, <3>1 DEF FreshIn
    <3>2. CASE x \in N
      <4>1. x.secret.generation \in Nat /\ TxOK(status, x.secret, made + 1) /\ x.secret.secret = made + 1
        BY <1>4, <2>3, <3>2 DEF SecretType
      <4>2. Len(e) = x.secret.generation + 2 /\ e[x.secret.generation + 2] = made + 1
        BY <2>3, <4>1 DEF TxOK, SecretChained
      <4>3. x.secret.generation + 2 \in 1..Len(e)
        BY <4>1, <4>2
      <4>4. made + 1 <= made
        BY <2>1, <4>2, <4>3
      <4> QED
        BY <1>1, <4>4
    <3> QED
      BY <3>1, <3>2
  <2> QED
    BY <2>2, <2>3 DEF FreshIn
<1> QED
  BY <1>1, <1>2, <1>8, <1>9 DEF k

\* What a worker has generated when a block arrives.
LEMMA GeneratedRight ==
    ASSUME KM!KMSecretsAssumption, KMInv, NEW n \in Nodes, NEW due
    PROVE  LET q == KM!Generate(n, "ephemeral", due, KM!Generate(n, "master", due, KM!Outcome(n)))
           IN  /\ q \in OutcomeType /\ q.en = enclave[n] /\ q.d = disk[n] /\ WorkerKeeps(worker[n], q.w)
               /\ \E c \in Nat : NewOK(q.new, c)
<1> DEFINE o == KM!Outcome(n)
           a == KM!Generate(n, "master", due, o)
           q == KM!Generate(n, "ephemeral", due, a)
           M == [kind |-> "master", secret |-> KM!NewSecret(n, "master", made + 1)]
<1>1. /\ worker[n] \in WorkerType /\ enclave[n] \in EnclaveType /\ disk[n] \in DiskType
      /\ made \in 0..MaxSecrets /\ made \in Nat /\ MaxSecrets \in Nat
      /\ "master" \in KM!AllKinds /\ "ephemeral" \in KM!AllKinds
  BY NodeParts DEF KM!AllKinds
<1>2. o \in OutcomeType /\ o.w = worker[n] /\ o.en = enclave[n] /\ o.d = disk[n] /\ o.new = {}
  BY <1>1 DEF KM!Outcome, OutcomeType
<1>3. Cardinality(o.new) = 0 /\ made + Cardinality(o.new) + 1 = made + 1
  BY <1>1, <1>2, FS_EmptySet
<1> HIDE DEF o
<1>4. /\ a \in OutcomeType /\ a.en = o.en /\ a.d = o.d /\ WorkerKeeps(o.w, a.w)
      /\ \/ a.new = {}
         \/ a.new = {M} /\ made + 1 <= MaxSecrets /\ KM!CanGenerate(n, "master", KM!NewSecret(n, "master", made + 1))
  <2>1. Cardinality(o.new) \in Nat
    BY <1>3
  <2> DEFINE x == made + Cardinality(o.new) + 1
             S == KM!NewSecret(n, "master", x)
  <2>2. /\ a \in OutcomeType /\ a.en = o.en /\ a.d = o.d /\ WorkerKeeps(o.w, a.w)
        /\ \/ a.new = o.new
           \/ a.new = o.new \cup {[kind |-> "master", secret |-> S]} /\ x <= MaxSecrets /\ KM!CanGenerate(n, "master", S)
    BY <1>1, <1>2, <2>1, GenerateDoes
  <2>3. x = made + 1
    BY <1>3
  <2> HIDE DEF x, a
  <2> QED
    BY <1>2, <2>2, <2>3
<1> HIDE DEF a
<1>5. \E c \in Nat : NewOK(a.new, c)
  <2>1. CASE a.new = {}
    <3>1. NewOK({}, 0)
      BY <1>1, FS_EmptySet DEF NewOK
    <3> QED
      BY <2>1, <3>1
  <2>2. CASE a.new = {M} /\ made + 1 <= MaxSecrets /\ KM!CanGenerate(n, "master", KM!NewSecret(n, "master", made + 1))
    <3>1. M.kind = "master" /\ TxOK(status, M.secret, made + 1)
      BY <2>2, NewMasterRight
    <3>2. M.secret \in SecretType /\ M.secret.secret = made + 1
      BY <1>1, NewTyped
    <3>3. M \in TxType
      BY <1>4, <2>2 DEF OutcomeType
    <3> HIDE DEF M
    <3>4. IsFiniteSet({M}) /\ Cardinality({M}) = 1
      BY FS_Singleton
    <3>5. NewOK({M}, 1)
      BY <2>2, <3>1, <3>2, <3>3, <3>4 DEF NewOK
    <3> QED
      BY <2>2, <3>5
  <2> QED
    BY <1>4, <2>1, <2>2
<1>6. PICK c \in Nat : NewOK(a.new, c)
  BY <1>5
<1> DEFINE y == made + Cardinality(a.new) + 1
           E == [kind |-> "ephemeral", secret |-> KM!NewSecret(n, "ephemeral", y)]
<1>7. Cardinality(a.new) = c /\ IsFiniteSet(a.new) /\ y = made + c + 1
  BY <1>6 DEF NewOK
<1>8. /\ q \in OutcomeType /\ q.en = a.en /\ q.d = a.d /\ WorkerKeeps(a.w, q.w)
      /\ \/ q.new = a.new
         \/ q.new = a.new \cup {E} /\ y <= MaxSecrets
  BY <1>1, <1>4, <1>7, GenerateDoes
<1> HIDE DEF q, y
<1>9. \E e \in Nat : NewOK(q.new, e)
  <2>1. CASE q.new = a.new
    BY <1>6, <2>1
  <2>2. CASE q.new = a.new \cup {E} /\ E \in a.new
    <3>1. q.new = a.new
      BY <2>2
    <3> QED
      BY <1>6, <3>1
  <2>3. CASE q.new = a.new \cup {E} /\ y <= MaxSecrets /\ E \notin a.new
    <3>1. E.kind = "ephemeral" /\ E \in TxType
      BY <1>8, <2>3 DEF OutcomeType
    <3> HIDE DEF E
    <3>2. IsFiniteSet(q.new) /\ Cardinality(q.new) = c + 1
      <4> DEFINE A == a.new
                 B == q.new
      <4>1. IsFiniteSet(A) /\ Cardinality(A) = c /\ B = A \cup {E} /\ E \notin A
        BY <1>7, <2>3
      <4> HIDE DEF A, B
      <4>2. IsFiniteSet(A \cup {E}) /\ Cardinality(A \cup {E}) = Cardinality(A) + 1
        BY <4>1, FS_AddElement
      <4>3. IsFiniteSet(B) /\ Cardinality(B) = c + 1
        BY <4>1, <4>2
      <4> QED
        BY <4>3 DEF B
    <3>3. q.new \subseteq TxType /\ made + (c + 1) <= MaxSecrets /\ c + 1 \in Nat /\ c + 1 > 0
      BY <1>1, <1>6, <1>7, <2>3, <3>1 DEF NewOK
    <3>4. \A x \in q.new : x.kind = "master" => x \in a.new
      BY <2>3, <3>1
    <3>5. NewOK(q.new, c + 1)
      BY <1>6, <3>2, <3>3, <3>4 DEF NewOK
    <3> QED
      BY <3>3, <3>5
  <2> QED
    BY <1>8, <2>1, <2>2, <2>3
<1>10. WorkerKeeps(worker[n], q.w)
  BY <1>2, <1>4, <1>8, KeepsTwice
<1>11. q \in OutcomeType /\ q.en = enclave[n] /\ q.d = disk[n]
  BY <1>2, <1>4, <1>8
<1> QED
  BY <1>9, <1>10, <1>11 DEF q, a, o

\* A block: a worker generates and loads secrets.
LEMMA NewBlockKeeps == ASSUME KM!KMSecretsAssumption, KMInv, NEW n \in Nodes, KM!HandleNewBlock(n) PROVE KMInv'
<1>1. PICK due \in BOOLEAN :
        \E o1 \in KM!Load(n, "master", KM!Generate(n, "ephemeral", due, KM!Generate(n, "master", due, KM!Outcome(n)))) :
            \E o \in KM!Load(n, "ephemeral", o1) :
                /\ KM!Apply(n, o)
                /\ txs' = txs \cup o.new /\ made' = made + KM!Cardinality(o.new)
                /\ UNCHANGED <<epoch, status, published, reg, nodeFaults>>
  BY DEF KM!HandleNewBlock
<1> DEFINE g == KM!Generate(n, "ephemeral", due, KM!Generate(n, "master", due, KM!Outcome(n)))
<1>2. PICK a \in KM!Load(n, "master", g) :
            \E o \in KM!Load(n, "ephemeral", a) :
                /\ KM!Apply(n, o)
                /\ txs' = txs \cup o.new /\ made' = made + KM!Cardinality(o.new)
                /\ UNCHANGED <<epoch, status, published, reg, nodeFaults>>
  BY <1>1
<1>3. PICK q \in KM!Load(n, "ephemeral", a) :
                /\ KM!Apply(n, q)
                /\ txs' = txs \cup q.new /\ made' = made + KM!Cardinality(q.new)
                /\ UNCHANGED <<epoch, status, published, reg, nodeFaults>>
  BY <1>2
<1>4. g \in OutcomeType /\ g.en = enclave[n] /\ g.d = disk[n] /\ WorkerKeeps(worker[n], g.w) /\ \E c \in Nat : NewOK(g.new, c)
  BY GeneratedRight
<1> HIDE DEF g
<1>5. "master" \in KM!AllKinds /\ "ephemeral" \in KM!AllKinds
  BY DEF KM!AllKinds
<1>6. Loads(g, a)
  BY <1>4, <1>5, LoadDoes
<1>7. a \in OutcomeType
  BY <1>6 DEF Loads
<1>8. Loads(a, q)
  BY <1>5, <1>7, LoadDoes
<1>9. Loads(g, q) /\ q.new = g.new
  BY <1>6, <1>8, LoadsTwice DEF Loads
<1>10. PICK c \in Nat : NewOK(q.new, c)
  BY <1>4, <1>9
<1>11. Cardinality(q.new) = c /\ txs' = txs \cup q.new /\ made' = made + c
  BY <1>3, <1>10, SecretsCardinality DEF NewOK
<1>12. /\ made' \in 0..MaxSecrets /\ made <= made' /\ txs' \in SUBSET TxType
       /\ TxsOK(status, txs', made')
       /\ \A e \in Checksums : FreshIn(txs, made, e) => FreshIn(txs', made', e)
  BY <1>10, <1>11, SubmitKeeps
<1>13. /\ q.w \in WorkerType /\ q.en \in EnclaveType /\ q.d \in DiskType
       /\ NodeOK(status, published["master"], q.w, q.en, q.d, reg[n])
       /\ NodeFresh(txs, made, q.w, q.en, reg[n])
       /\ MemberOK(status, disk[n]) => MemberOK(status, q.d)
       /\ \A x \in q.en.eph : (\E m \in Nodes : x \in enclave[m].eph) \/ x = PublishedEphemeral
  BY <1>4, <1>9, LoadKeeps
<1>14. /\ worker \in [Nodes -> WorkerType] /\ enclave \in [Nodes -> EnclaveType] /\ disk \in [Nodes -> DiskType]
       /\ reg \in [Nodes -> RegType] /\ reg[n] \in RegType
  BY DEF KMInv, KMTypes
<1>15. /\ worker' = [worker EXCEPT ![n] = q.w] /\ enclave' = [enclave EXCEPT ![n] = q.en]
       /\ disk' = [disk EXCEPT ![n] = q.d] /\ reg' = reg /\ UNCHANGED <<epoch, status, published, nodeFaults>>
  BY <1>3 DEF KM!Apply
<1>16. /\ worker' \in [Nodes -> WorkerType] /\ enclave' \in [Nodes -> EnclaveType] /\ disk' \in [Nodes -> DiskType]
       /\ worker'[n] = q.w /\ enclave'[n] = q.en /\ disk'[n] = q.d /\ reg'[n] = reg[n]
       /\ \A o \in Nodes \ {n} : /\ worker'[o] = worker[o] /\ enclave'[o] = enclave[o]
                                 /\ disk'[o] = disk[o] /\ reg'[o] = reg[o]
  BY <1>13, <1>14, <1>15
<1>17. KMTypes'
  BY <1>12, <1>15, <1>16 DEF KMInv, KMTypes
<1>18. NodeFresh(txs', made', q.w, q.en, reg[n])
  <2>1. q.en.next \in Checksums /\ q.w.rsp.next \in Checksums /\ reg[n].rsp.next \in Checksums
    BY <1>13, <1>14 DEF EnclaveType, WorkerType, RegType, ResponseType
  <2> QED
    BY <1>12, <1>13, <2>1 DEF NodeFresh
<1>19. \A x \in enclave'[n].eph :
          \/ \E m \in Nodes : x \in enclave[m].eph
          \/ x = [epoch |-> published["ephemeral"].epoch, secret |-> published["ephemeral"].secret]
  BY <1>13, <1>16 DEF PublishedEphemeral
<1>20. /\ NodeOK(status, published["master"], worker'[n], enclave'[n], disk'[n], reg'[n])
       /\ NodeFresh(txs', made', worker'[n], enclave'[n], reg'[n])
       /\ MemberOK(status, disk[n]) => MemberOK(status, disk'[n])
       /\ UNCHANGED <<epoch, status, published>>
  BY <1>13, <1>15, <1>16, <1>18
<1> QED
  BY <1>12, <1>16, <1>17, <1>19, <1>20, OneNode

\* A secret is published, or its transaction fails.
LEMMA PublishKeeps == ASSUME KM!KMSecretsAssumption, KMInv, NEW tx \in txs, KM!PublishSecret(tx) PROVE KMInv'
<1> DEFINE k == tx.kind
           S == tx.secret
           ok == KM!MayPublish(k, S)
           told(w) == IF ~w.busy[k] THEN w
                      ELSE [w EXCEPT !.busy[k] = FALSE, !.gen[k] = IF ok /\ @ > 0 THEN KM!Done ELSE @]
           notified(w) == IF ok THEN [w EXCEPT !.events = @ \cup {k}] ELSE w
<1>1. /\ txs' = txs \ {tx}
      /\ published' = IF ok THEN [published EXCEPT ![k] = S] ELSE published
      /\ worker' = [n \in Nodes |-> notified(IF n = S.node THEN told(worker[n]) ELSE worker[n])]
      /\ UNCHANGED <<epoch, status, reg, enclave, disk, made, nodeFaults>>
  BY DEF KM!PublishSecret
<1>2. /\ k \in KM!AllKinds /\ S \in SecretType /\ tx \in TxType /\ txs \in SUBSET TxType
      /\ published \in [KM!AllKinds -> SecretType] /\ worker \in [Nodes -> WorkerType] /\ KM!Done \in Nat
      /\ epoch \in Nat /\ made \in Nat /\ status \in StatusType
      /\ "master" \in KM!AllKinds /\ "ephemeral" \in KM!AllKinds
  BY DEF KMInv, KMTypes, TxType, KM!KMSecretsAssumption, KM!Done, KM!AllKinds
<1>3. ASSUME NEW n \in Nodes
      PROVE  worker'[n] \in WorkerType /\ worker'[n].rsp = worker[n].rsp /\ worker'[n].init = worker[n].init
  <2> DEFINE w == worker[n]
             gn == IF ok /\ w.gen[k] > 0 THEN KM!Done ELSE w.gen[k]
             u == [w EXCEPT !.busy[k] = FALSE, !.gen[k] = gn]
             v == IF n = S.node THEN told(w) ELSE w
  <2>1. w \in WorkerType
    BY <1>2
  <2>2. gn \in Nat
    BY <1>2, <2>1 DEF WorkerType
  <2>3. v = w \/ v = u
    OBVIOUS
  <2>4. worker'[n] = notified(v)
    BY <1>1
  <2> HIDE DEF w, gn, v
  <2>5. u \in WorkerType /\ u.rsp = w.rsp /\ u.init = w.init
    BY <1>2, <2>1, <2>2 DEF WorkerType
  <2> HIDE DEF u
  <2>6. v \in WorkerType /\ v.rsp = w.rsp /\ v.init = w.init
    BY <2>1, <2>3, <2>5
  <2>7. notified(v) \in WorkerType /\ notified(v).rsp = v.rsp /\ notified(v).init = v.init
    <3>1. [v EXCEPT !.events = @ \cup {k}] \in WorkerType /\ [v EXCEPT !.events = @ \cup {k}].rsp = v.rsp
          /\ [v EXCEPT !.events = @ \cup {k}].init = v.init
      BY <1>2, <2>6 DEF WorkerType
    <3> HIDE DEF k, S
    <3> QED
      BY <2>6, <3>1
  <2> HIDE DEF notified
  <2> QED
    BY <2>4, <2>6, <2>7 DEF w
<1>4. worker' \in [Nodes -> WorkerType]
  BY <1>1, <1>3
<1>5. published' \in [KM!AllKinds -> SecretType]
  BY <1>1, <1>2
<1>6. KMTypes'
  BY <1>1, <1>2, <1>4, <1>5 DEF KMInv, KMTypes
<1> DEFINE p == published["master"]
           r == published'["master"]
<1> HIDE DEF k, S, ok, told, notified
<1>7. /\ Chained(status, made) /\ PublishedOK(status, p, epoch, made)
      /\ TxsOK(status, txs, made) /\ FreshIn(txs, made, p.checksum)
      /\ \A n \in Nodes : /\ NodeOK(status, p, worker[n], enclave[n], disk[n], reg[n])
                          /\ NodeFresh(txs, made, worker[n], enclave[n], reg[n])
      /\ \A n \in status.nodes : MemberOK(status, disk[n])
  BY DEF KMInv, MasterInv
<1>8. TxsOK(status, txs', made) /\ \A c : FreshIn(txs, made, c) => FreshIn(txs', made, c)
  BY <1>1, <1>7 DEF TxsOK, FreshIn
<1>9. ok => /\ S.epoch = epoch + 1 /\ published[k].epoch # S.epoch
            /\ k = "master" => KM!VerifyRotationEpoch(status, S.epoch) /\ S.generation = KM!NextGeneration(status)
  BY DEF ok, KM!MayPublish, KM!OncePerEpoch
\* the published master secret
<1>10. /\ PublishedOK(status, r, epoch, made) /\ FreshIn(txs', made, r.checksum)
       /\ \A c, d : FreshIn(txs, made, c) /\ NextOK(p, c, d) => NextOK(r, c, d)
  <2>1. CASE ~(ok /\ k = "master")
    <3>1. r = p
      BY <1>1, <1>2, <2>1
    <3> QED
      BY <1>7, <1>8, <3>1
  <2>2. CASE ok /\ k = "master"
    <3>1. r = S /\ tx.kind = "master" /\ S = tx.secret
      BY <1>1, <1>2, <2>2 DEF k, S
    <3>2. TxOK(status, S, made) /\ SecretChained(S, made)
      BY <1>7, <3>1 DEF TxsOK, TxOK
    <3>3. S.generation = KM!NextGeneration(status) /\ S.generation \in Nat /\ status.generation \in Nat /\ S.epoch = epoch + 1
          /\ S.secret \in Nat /\ status.checksum \in Seq(Nat)
      BY <1>2, <1>9, <2>2 DEF SecretType, StatusType, Checksums
    <3>4. S.secret # 0
      BY <3>2, <3>3 DEF SecretChained
    <3>5. status.checksum # <<>> => Len(status.checksum) = status.generation + 2 /\ S.generation = status.generation + 1
      BY <1>7, <3>3 DEF Chained, KM!NextGeneration
    <3>6. Extends(status.checksum, S.checksum)
      <4>1. CASE status.checksum = <<>>
        BY <3>2, <3>3, <4>1 DEF Extends, SecretChained
      <4>2. CASE status.checksum # <<>>
        <5>1. Len(S.checksum) = status.generation + 3 /\ \A i \in 1..S.generation + 1 : S.checksum[i] = status.checksum[i]
          <6>1. S.generation # 0 /\ S.generation + 2 = status.generation + 3
            BY <3>3, <3>5, <4>2
          <6>2. Len(S.checksum) = S.generation + 2
            BY <3>2 DEF SecretChained
          <6> QED
            BY <3>2, <6>1, <6>2 DEF TxOK
        <5>2. S.generation + 1 = Len(status.checksum) /\ Len(status.checksum) <= Len(S.checksum)
          BY <3>3, <3>5, <4>2, <5>1
        <5> QED
          BY <5>1, <5>2 DEF Extends
      <4> QED
        BY <4>1, <4>2
    <3>7. status.checksum # <<>> => KM!RotationDue(status, S.epoch)
      <4>1. KM!VerifyRotationEpoch(status, S.epoch)
        BY <1>9, <2>2
      <4>2. status.checksum # <<>> => KM!NextGeneration(status) # 0
        BY <3>3 DEF KM!NextGeneration
      <4> QED
        BY <4>1, <4>2 DEF KM!VerifyRotationEpoch
    <3>8. PublishedOK(status, S, epoch, made)
      <4>1. S.epoch <= epoch + 1
        BY <1>2, <3>3
      <4>2. ~(status.checksum # <<>> /\ S.generation = status.generation)
        BY <3>3, <3>5
      <4> QED
        BY <3>2, <3>3, <3>4, <3>6, <3>7, <4>1, <4>2 DEF PublishedOK
    <3>9. FreshIn(txs', made, S.checksum)
      <4>1. \A i \in 1..Len(S.checksum) : S.checksum[i] <= made
        BY <1>2, <3>2 DEF SecretChained
      <4>2. ASSUME NEW x \in txs', x.kind = "master", S.checksum = x.secret.checksum PROVE FALSE
        <5>1. x \in txs /\ x # tx
          BY <1>1
        <5>2. TxOK(status, x.secret, made) /\ x.secret \in SecretType
          BY <1>2, <1>7, <4>2, <5>1 DEF TxsOK, TxType
        <5>3. Len(S.checksum) = x.secret.generation + 2 /\ x.secret.secret = S.checksum[x.secret.generation + 2]
              /\ x.secret.generation \in Nat
          BY <4>2, <5>2 DEF TxOK, SecretChained, SecretType
        <5>4. Len(S.checksum) = S.generation + 2 /\ S.secret = S.checksum[S.generation + 2]
          BY <3>2 DEF SecretChained
        <5>5. x.secret.generation = S.generation
          BY <3>3, <5>3, <5>4
        <5>6. x.secret.secret = tx.secret.secret
          BY <3>1, <5>3, <5>4, <5>5
        <5> QED
          BY <1>7, <3>1, <4>2, <5>1, <5>6 DEF TxsOK
      <4> QED
        BY <4>1, <4>2 DEF FreshIn
    <3>10. \A c, d : FreshIn(txs, made, c) => NextOK(S, c, d)
      BY <3>1 DEF FreshIn, NextOK
    <3> QED
      BY <3>1, <3>8, <3>9, <3>10
  <2> QED
    BY <2>1, <2>2
<1> HIDE DEF p, r
<1>11. ASSUME NEW n \in Nodes
       PROVE  /\ NodeOK(status, r, worker'[n], enclave[n], disk[n], reg[n])
              /\ NodeFresh(txs', made, worker'[n], enclave[n], reg[n])
  <2>1. NodeOK(status, p, worker[n], enclave[n], disk[n], reg[n]) /\ NodeFresh(txs, made, worker[n], enclave[n], reg[n])
    BY <1>7
  <2>2. NextOK(r, enclave[n].next, disk[n]) /\ NextOK(r, worker[n].rsp.next, disk[n]) /\ NextOK(r, reg[n].rsp.next, disk[n])
    BY <1>10, <2>1 DEF NodeOK, NodeFresh
  <2>3. worker'[n].rsp = worker[n].rsp /\ worker'[n].init = worker[n].init
    BY <1>3
  <2>4. NodeOK(status, r, worker'[n], enclave[n], disk[n], reg[n])
    BY <2>1, <2>2, <2>3 DEF NodeOK
  <2>5. NodeFresh(txs', made, worker'[n], enclave[n], reg[n])
    BY <1>8, <2>1, <2>3 DEF NodeFresh
  <2> QED
    BY <2>4, <2>5
<1>12. MasterInv'
  <2>1. UNCHANGED <<epoch, status, reg, enclave, disk, made>>
    BY <1>1
  <2> QED
    BY <1>7, <1>8, <1>10, <1>11, <2>1 DEF MasterInv, r
<1>13. EphemeralAgree'
  <2> DEFINE pe == published["ephemeral"]
             re == published'["ephemeral"]
  <2>1. /\ pe \in SecretType /\ pe.epoch \in Nat /\ enclave \in [Nodes -> EnclaveType]
    BY <1>2 DEF KMInv, KMTypes, SecretType
  <2>2. /\ pe.epoch <= epoch + 1 /\ \A n \in Nodes : EphemeralOK(pe, enclave[n].eph)
        /\ \A n, m \in Nodes : \A x \in enclave[n].eph, y \in enclave[m].eph : x.epoch = y.epoch => x = y
    BY DEF KMInv, EphemeralAgree
  <2>3. re.epoch <= epoch + 1 /\ \A n \in Nodes : EphemeralOK(re, enclave[n].eph)
    <3>1. CASE ~(ok /\ k = "ephemeral")
      <4>1. re = pe
        BY <1>1, <1>2, <3>1
      <4> QED
        BY <2>2, <4>1
    <3>2. CASE ok /\ k = "ephemeral"
      <4>1. re = S /\ S.epoch = epoch + 1 /\ pe.epoch # epoch + 1
        BY <1>1, <1>2, <1>9, <3>2
      <4>2. ASSUME NEW n \in Nodes, NEW x \in enclave[n].eph PROVE x.epoch < epoch + 1
        <5>1. x.epoch \in Nat
          BY <2>1 DEF EnclaveType, EphemeralType
        <5>2. x.epoch <= pe.epoch
          BY <2>2 DEF EphemeralOK
        <5> QED
          BY <1>2, <2>1, <2>2, <4>1, <5>1, <5>2
      <4>3. \A n \in Nodes : \A x \in enclave[n].eph : x.epoch \in Nat
        BY <2>1 DEF EnclaveType, EphemeralType
      <4>4. ASSUME NEW n \in Nodes, NEW x \in enclave[n].eph
            PROVE  x.epoch <= re.epoch /\ (x.epoch = re.epoch => x.secret = re.secret)
        <5>1. x.epoch \in Nat /\ x.epoch < epoch + 1 /\ re.epoch = epoch + 1
          BY <4>1, <4>2, <4>3
        <5>2. x.epoch <= re.epoch /\ x.epoch # re.epoch
          BY <1>2, <5>1
        <5> QED
          BY <5>2
      <4>5. re.epoch <= epoch + 1
        BY <1>2, <4>1
      <4> QED
        BY <4>4, <4>5 DEF EphemeralOK
    <3> QED
      BY <3>1, <3>2
  <2>4. UNCHANGED <<epoch, enclave>>
    BY <1>1
  <2> QED
    BY <2>2, <2>3, <2>4 DEF EphemeralAgree
<1> QED
  BY <1>6, <1>12, <1>13 DEF KMInv

-----------------------------------------------------------------------------
\* A status with the secrets of the other one, and maybe one more.
Rotates(s, z) ==
    /\ Extends(s.checksum, z.checksum) /\ s.generation <= z.generation
    /\ s.checksum # <<>> => z.checksum # <<>>

\* What holds of a node holds with more secrets.
LEMMA RotatesKeeps ==
    ASSUME NEW s \in StatusType, NEW z \in StatusType, NEW m \in Nat, Chained(s, m), Chained(z, m), Rotates(s, z)
    PROVE  /\ \A en \in EnclaveType : \A d : EnclaveOK(s, en, d) => EnclaveOK(z, en, d)
           /\ \A d : DiskOK(s, d) => DiskOK(z, d)
           /\ \A i \in InitType : \A d : InitOK(s, i, d) => InitOK(z, i, d)
           /\ \A x \in SecretType : TxOK(s, x, m) => TxOK(z, x, m)
<1>1. /\ s.checksum \in Checksums /\ z.checksum \in Checksums /\ s.generation \in Nat /\ z.generation \in Nat
      /\ Len(s.checksum) \in Nat /\ Extends(s.checksum, z.checksum) /\ s.generation <= z.generation
      /\ s.checksum # <<>> => z.checksum # <<>> /\ Len(s.checksum) = s.generation + 2
  <2>1. s.checksum \in Checksums /\ z.checksum \in Checksums /\ s.generation \in Nat /\ z.generation \in Nat
    BY DEF StatusType
  <2>2. Len(s.checksum) \in Nat
    BY <2>1 DEF Checksums
  <2>3. /\ Extends(s.checksum, z.checksum) /\ s.generation <= z.generation
        /\ s.checksum # <<>> => z.checksum # <<>>
    BY DEF Rotates
  <2>4. s.checksum # <<>> => Len(s.checksum) = s.generation + 2
    BY DEF Chained
  <2> QED
    BY <2>1, <2>2, <2>3, <2>4
<1>2. ASSUME NEW en \in EnclaveType, NEW d, EnclaveOK(s, en, d) PROVE EnclaveOK(z, en, d)
  <2>1. CASE en.generation = -1 /\ en.checksum = <<>>
    BY <2>1 DEF EnclaveOK
  <2>2. CASE /\ en.generation \in 0..s.generation /\ s.checksum # <<>>
             /\ Len(en.checksum) = en.generation + 2 /\ Extends(en.checksum, s.checksum)
             /\ SecretsKept(d, en.generation)
    <3>1. en.checksum \in Checksums
      BY DEF EnclaveType
    <3>2. Extends(en.checksum, z.checksum)
      BY <1>1, <2>2, <3>1, ExtendsTransitive
    <3>3. en.generation \in 0..z.generation
      BY <1>1, <2>2
    <3> QED
      BY <1>1, <2>2, <3>2, <3>3 DEF EnclaveOK
  <2> QED
    BY <1>2, <2>1, <2>2 DEF EnclaveOK
<1>3. ASSUME NEW d, DiskOK(s, d) PROVE DiskOK(z, d)
  <2>1. ASSUME NEW g \in KM!Generations, d.secret[g] # 0
        PROVE  z.checksum # <<>> /\ g <= z.generation /\ d.secret[g] = z.checksum[g + 2]
    <3>1. s.checksum # <<>> /\ g <= s.generation /\ d.secret[g] = s.checksum[g + 2] /\ g \in Nat
      BY <1>3, <2>1 DEF DiskOK, KM!Generations
    <3>2. g + 2 \in 1..Len(s.checksum) /\ g <= z.generation
      BY <1>1, <3>1
    <3> QED
      BY <1>1, <3>1, <3>2 DEF Extends
  <2> QED
    BY <2>1 DEF DiskOK
<1>4. ASSUME NEW i \in InitType, NEW d, InitOK(s, i, d) PROVE InitOK(z, i, d)
  <2>1. i.status.checksum \in Checksums /\ i.status.generation \in Nat
    BY DEF InitType, StatusType
  <2>2. i.phase = "replicate" => Extends(i.status.checksum, z.checksum) /\ i.status.generation <= z.generation
    <3> SUFFICES ASSUME i.phase = "replicate" PROVE Extends(i.status.checksum, z.checksum) /\ i.status.generation <= z.generation
      OBVIOUS
    <3>1. Extends(i.status.checksum, s.checksum) /\ i.status.generation <= s.generation
      BY <1>4 DEF InitOK
    <3> QED
      BY <1>1, <2>1, <3>1, ExtendsTransitive
  <2> QED
    BY <1>4, <2>2 DEF InitOK
<1>5. ASSUME NEW x \in SecretType, TxOK(s, x, m) PROVE TxOK(z, x, m)
  <2>1. x.generation \in Nat /\ SecretChained(x, m)
    BY <1>5 DEF SecretType, TxOK
  <2>2. ASSUME x.generation # 0
        PROVE  /\ z.checksum # <<>> /\ x.generation <= z.generation + 1
               /\ \A i \in 1..x.generation + 1 : x.checksum[i] = z.checksum[i]
    <3>1. /\ s.checksum # <<>> /\ x.generation <= s.generation + 1
          /\ \A i \in 1..x.generation + 1 : x.checksum[i] = s.checksum[i]
      BY <1>5, <2>2 DEF TxOK
    <3>2. \A i \in 1..x.generation + 1 : i \in 1..Len(s.checksum)
      BY <1>1, <2>1, <3>1
    <3>3. \A i \in 1..x.generation + 1 : x.checksum[i] = z.checksum[i]
      BY <1>1, <3>1, <3>2 DEF Extends
    <3> QED
      BY <1>1, <2>1, <3>1, <3>3
  <2> QED
    BY <2>1, <2>2 DEF TxOK
<1> QED
  BY <1>2, <1>3, <1>4, <1>5

\* The next status: a rotation, to nodes that have confirmed the secret, or
\* none.
LEMMA NextStatus ==
    ASSUME KM!KMSecretsAssumption, NEW s \in StatusType, NEW p \in SecretType, NEW r \in [Nodes -> RegType], NEW e \in Nat
    PROVE  LET z == KM!GenerateStatus(s, p, r, e)
           IN  /\ z \in StatusType
               /\ \A n \in z.nodes : n \in Nodes /\ r[n].rsp.checksum = s.checksum
               /\ \/ z.generation = s.generation /\ z.checksum = s.checksum /\ z.rotationEpoch = s.rotationEpoch
                  \/ /\ p.generation = KM!NextGeneration(s) /\ p.epoch = e /\ p.checksum # <<>>
                     /\ z.generation = p.generation /\ z.checksum = p.checksum /\ z.rotationEpoch = e
                     /\ \A n \in z.nodes : r[n].rsp.next = p.checksum
<1> DEFINE policy == IF s.nextPolicy # 0 THEN s.nextPolicy ELSE s.policy
           valid == KM!ValidNodes(s, policy, r)
           next == IF p.generation = KM!NextGeneration(s) /\ p.epoch = e THEN p.checksum ELSE <<>>
           updated == {n \in valid : r[n].rsp.next = next}
           kept == [s EXCEPT !.policy = policy, !.nextPolicy = 0, !.nodes = valid]
           rotated == KM!Rotate(kept, next, updated, e)
<1>1. policy \in Nat /\ s.generation \in Nat
  BY DEF StatusType
<1>2. valid \subseteq Nodes /\ \A n \in valid : r[n].rsp.checksum = s.checksum
  BY DEF KM!ValidNodes
<1>3. next \in Checksums
  BY DEF SecretType, Checksums
<1>4. KM!GenerateStatus(s, p, r, e) = kept \/ (KM!GenerateStatus(s, p, r, e) = rotated /\ next # <<>>)
  BY DEF KM!GenerateStatus
<1>5. next # <<>> => p.generation = KM!NextGeneration(s) /\ p.epoch = e /\ next = p.checksum
  OBVIOUS
<1> HIDE DEF policy, valid, next
<1>6. /\ kept \in StatusType /\ kept.nodes = valid /\ kept.generation = s.generation /\ kept.checksum = s.checksum
      /\ kept.rotationEpoch = s.rotationEpoch
  BY <1>1, <1>2 DEF StatusType
<1> HIDE DEF kept
<1>7. KM!NextGeneration(kept) = KM!NextGeneration(s) /\ KM!NextGeneration(s) \in Nat
  BY <1>1, <1>6 DEF KM!NextGeneration
<1>8. updated \subseteq Nodes /\ \A n \in updated : r[n].rsp.checksum = s.checksum /\ r[n].rsp.next = next
  BY <1>2
<1> HIDE DEF updated
<1>9. /\ rotated \in StatusType /\ rotated.generation = KM!NextGeneration(s) /\ rotated.checksum = next
      /\ rotated.rotationEpoch = e /\ rotated.nodes = updated
  <2> DEFINE g == KM!NextGeneration(kept)
  <2>1. rotated = [kept EXCEPT !.generation = g, !.rotationEpoch = e, !.checksum = next, !.nodes = updated]
    BY DEF KM!Rotate
  <2>2. g \in Nat /\ g = KM!NextGeneration(s)
    BY <1>7
  <2> HIDE DEF g, rotated
  <2> QED
    BY <1>3, <1>6, <1>8, <2>1, <2>2 DEF StatusType
<1> HIDE DEF rotated
<1>10. CASE KM!GenerateStatus(s, p, r, e) = kept
  BY <1>2, <1>6, <1>10
<1>11. CASE KM!GenerateStatus(s, p, r, e) = rotated /\ next # <<>>
  BY <1>5, <1>8, <1>9, <1>11
<1> QED
  BY <1>4, <1>10, <1>11

\* The next status is a chain, with one more secret when there is a rotation.
LEMMA NextStatusRight ==
    ASSUME KM!KMSecretsAssumption, KMInv, NEW r \in [Nodes -> RegType],
           \A n \in Nodes : ResponseOK(r[n].rsp, disk[n]) /\ NextOK(published["master"], r[n].rsp.next, disk[n])
    PROVE  LET z == KM!GenerateStatus(status, published["master"], r, epoch + 1)
           IN  /\ z \in StatusType /\ Chained(z, made) /\ Rotates(status, z)
               /\ PublishedOK(z, published["master"], epoch + 1, made)
               /\ \A n \in z.nodes : MemberOK(z, disk[n])
               /\ z.checksum # status.checksum =>
                     /\ z.generation = KM!NextGeneration(status) /\ Len(z.checksum) = z.generation + 2
                     /\ z.rotationEpoch = epoch + 1
                     /\ status.checksum # <<>> => KM!RotationDue(status, epoch + 1)
<1> DEFINE s == status
           p == published["master"]
           z == KM!GenerateStatus(s, p, r, epoch + 1)
<1>1. /\ s \in StatusType /\ p \in SecretType /\ epoch \in Nat /\ epoch + 1 \in Nat /\ made \in Nat /\ made \in 0..MaxSecrets
      /\ Chained(s, made) /\ PublishedOK(s, p, epoch, made) /\ disk \in [Nodes -> DiskType]
  BY DEF KMInv, KMTypes, MasterInv, KM!AllKinds, KM!KMSecretsAssumption
<1>2. /\ z \in StatusType /\ \A n \in z.nodes : n \in Nodes /\ r[n].rsp.checksum = s.checksum
      /\ \/ z.generation = s.generation /\ z.checksum = s.checksum /\ z.rotationEpoch = s.rotationEpoch
         \/ /\ p.generation = KM!NextGeneration(s) /\ p.epoch = epoch + 1 /\ p.checksum # <<>>
            /\ z.generation = p.generation /\ z.checksum = p.checksum /\ z.rotationEpoch = epoch + 1
            /\ \A n \in z.nodes : r[n].rsp.next = p.checksum
  BY <1>1, NextStatus
<1>3. /\ s.generation \in Nat /\ s.checksum \in Checksums /\ p.generation \in Nat /\ p.secret \in Nat /\ p.epoch \in Nat
      /\ p.checksum \in Checksums /\ s.rotationEpoch \in Nat
  BY <1>1 DEF StatusType, SecretType
<1> HIDE DEF z, p
\* a node of the next committee has the secrets of the last status
<1>4. ASSUME NEW n \in z.nodes, s.checksum # <<>>, NEW g \in 0..s.generation PROVE disk[n].secret[g] # 0
  <2>1. g \in KM!Generations /\ Len(s.checksum) - 2 = s.generation /\ g <= s.generation
    <3>1. Len(s.checksum) = s.generation + 2 /\ 0..s.generation \subseteq KM!Generations
      BY <1>1, <1>4, GenerationBound
    <3> QED
      BY <1>3, <3>1
  <2>2. SecretsKept(disk[n], s.generation)
    BY <1>2, <2>1 DEF ResponseOK
  <2> QED
    BY <2>1, <2>2 DEF SecretsKept
<1>5. CASE z.generation = s.generation /\ z.checksum = s.checksum /\ z.rotationEpoch = s.rotationEpoch
  <2>1. Chained(z, made)
    BY <1>1, <1>5 DEF Chained
  <2>2. Rotates(s, z)
    BY <1>3, <1>5 DEF Rotates, Extends, Checksums
  <2>3. PublishedOK(z, p, epoch + 1, made)
    <3>1. p.epoch <= (epoch + 1) + 1
      BY <1>1, <1>3 DEF PublishedOK
    <3>2. KM!NextGeneration(z) = KM!NextGeneration(s)
      BY <1>5 DEF KM!NextGeneration
    <3>3. p.epoch # (epoch + 1) + 1
      BY <1>1, <1>3 DEF PublishedOK
    <3> QED
      BY <1>1, <1>5, <3>1, <3>2, <3>3 DEF PublishedOK
  <2>4. \A n \in z.nodes : MemberOK(z, disk[n])
    BY <1>4, <1>5 DEF MemberOK
  <2> QED
    BY <1>2, <1>5, <2>1, <2>2, <2>3, <2>4 DEF z, p
<1>6. CASE /\ p.generation = KM!NextGeneration(s) /\ p.epoch = epoch + 1 /\ p.checksum # <<>>
           /\ z.generation = p.generation /\ z.checksum = p.checksum /\ z.rotationEpoch = epoch + 1
           /\ \A n \in z.nodes : r[n].rsp.next = p.checksum
  <2>1. p.secret # 0
    BY <1>1, <1>6 DEF PublishedOK
  <2>2. SecretChained(p, made) /\ Extends(s.checksum, p.checksum)
    BY <1>1, <1>6, <2>1 DEF PublishedOK
  <2>3. /\ Len(z.checksum) = z.generation + 2 /\ z.checksum[1] = 0 /\ z.checksum[z.generation + 2] = p.secret
        /\ p.secret \in (z.generation + 1)..made
    BY <1>6, <2>2 DEF SecretChained
  <2>4. IF s.checksum = <<>> THEN z.generation = 0 /\ s.generation = 0
        ELSE z.generation = s.generation + 1 /\ Len(s.checksum) = s.generation + 2
    BY <1>1, <1>6 DEF KM!NextGeneration, Chained
  <2>5. ASSUME NEW g \in 0..z.generation PROVE z.checksum[g + 2] \in (g + 1)..made
    <3>1. CASE g = z.generation
      BY <2>3, <3>1
    <3>2. CASE g # z.generation
      <4>1. s.checksum # <<>> /\ g \in 0..s.generation
        BY <1>3, <2>4, <3>2
      <4>2. s.checksum[g + 2] \in (g + 1)..made
        BY <1>1, <4>1 DEF Chained
      <4>3. g + 2 \in 1..Len(s.checksum)
        BY <1>3, <2>4, <4>1
      <4>4. p.checksum[g + 2] = s.checksum[g + 2]
        BY <2>2, <4>3 DEF Extends
      <4> QED
        BY <1>6, <4>2, <4>4
    <3> QED
      BY <3>1, <3>2
  <2>6. Chained(z, made)
    BY <1>6, <2>3, <2>5 DEF Chained
  <2>7. Rotates(s, z)
    <3>1. s.generation <= z.generation
      BY <1>3, <2>4
    <3> QED
      BY <1>6, <2>2, <3>1 DEF Rotates
  <2>8. PublishedOK(z, p, epoch + 1, made)
    <3>1. p.epoch <= (epoch + 1) + 1
      BY <1>1, <1>6
    <3>2. KM!NextGeneration(z) = z.generation + 1 /\ p.generation # z.generation + 1 /\ p.generation = z.generation
      BY <1>3, <1>6 DEF KM!NextGeneration
    <3> QED
      BY <1>6, <2>1, <2>2, <3>1, <3>2 DEF PublishedOK
  <2>9. ASSUME NEW n \in z.nodes PROVE MemberOK(z, disk[n])
    <3>1. disk[n].proposal = [generation |-> p.generation, secret |-> p.secret]
      BY <1>2, <1>6 DEF NextOK, p
    <3>2. ASSUME NEW g \in 0..z.generation
          PROVE  disk[n].secret[g] # 0 \/ (g = z.generation /\ disk[n].proposal = [generation |-> g, secret |-> z.checksum[g + 2]])
      <4>1. CASE g = z.generation
        BY <1>6, <2>3, <3>1, <4>1
      <4>2. CASE g # z.generation
        <5>1. s.checksum # <<>> /\ g \in 0..s.generation
          BY <1>3, <2>4, <4>2
        <5> QED
          BY <1>4, <5>1
      <4> QED
        BY <4>1, <4>2
    <3> QED
      BY <3>2 DEF MemberOK
  <2>10. s.checksum # <<>> => KM!RotationDue(s, epoch + 1)
    BY <1>1, <1>6, <2>1, <2>4 DEF PublishedOK
  <2> QED
    BY <1>2, <1>6, <2>3, <2>6, <2>7, <2>8, <2>9, <2>10 DEF z, p
<1> QED
  BY <1>2, <1>5, <1>6

\* Finiteness in the instance.
LEMMA NodesFinite == ASSUME KM!KMSecretsAssumption PROVE IsFiniteSet(Nodes)
<1>1. KM!IsFiniteSet(Nodes)
  BY DEF KM!KMSecretsAssumption
<1> QED
  BY <1>1, Zenon DEF KM!IsFiniteSet, IsFiniteSet

\* An epoch: registrations expire, and the committee and its secrets may
\* change.
LEMMA EpochChangeKeeps == ASSUME KM!KMSecretsAssumption, KMInv, KM!EpochChange PROVE KMInv'
<1> DEFINE p == published["master"]
<1>1. PICK expired \in SUBSET Faulty :
        /\ nodeFaults + KM!Cardinality(expired) <= MaxNodeFaults
        /\ nodeFaults' = nodeFaults + KM!Cardinality(expired)
        /\ reg' = [n \in Nodes |-> IF n \in expired THEN [rek |-> 0, rsp |-> KM!NoResponse] ELSE reg[n]]
  BY DEF KM!EpochChange
<1>2. /\ epoch < MaxEpoch /\ epoch' = epoch + 1
      /\ status' = KM!GenerateStatus(status, p, reg', epoch + 1)
      /\ worker' = [n \in Nodes |-> [worker[n] EXCEPT !.gen = [k \in DOMAIN @ |-> 0]]]
      /\ UNCHANGED <<published, txs, enclave, disk, made>>
  BY DEF KM!EpochChange
<1>3. /\ epoch \in 1..MaxEpoch /\ MaxEpoch \in Nat /\ made \in Nat /\ nodeFaults \in 0..MaxNodeFaults /\ MaxNodeFaults \in Nat
      /\ status \in StatusType /\ published \in [KM!AllKinds -> SecretType] /\ p \in SecretType
      /\ reg \in [Nodes -> RegType] /\ worker \in [Nodes -> WorkerType] /\ enclave \in [Nodes -> EnclaveType]
      /\ disk \in [Nodes -> DiskType] /\ txs \in SUBSET TxType /\ Faulty \subseteq Nodes
  BY DEF KMInv, KMTypes, KM!KMSecretsAssumption, KM!AllKinds
<1>4. /\ Chained(status, made) /\ PublishedOK(status, p, epoch, made) /\ TxsOK(status, txs, made) /\ FreshIn(txs, made, p.checksum)
      /\ \A n \in Nodes : /\ NodeOK(status, p, worker[n], enclave[n], disk[n], reg[n])
                          /\ NodeFresh(txs, made, worker[n], enclave[n], reg[n])
  BY DEF KMInv, MasterInv
<1>5. nodeFaults' \in 0..MaxNodeFaults
  <2>1. IsFiniteSet(expired)
    BY <1>3, NodesFinite, FS_Subset
  <2>2. KM!Cardinality(expired) \in Nat
    BY <2>1, SecretsCardinality, FS_CardinalityType
  <2> QED
    BY <1>1, <1>3, <2>2
<1>6. KM!NoResponse \in ResponseType /\ KM!NoResponse.checksum = <<>> /\ KM!NoResponse.next = <<>>
  BY NothingTyped DEF KM!NoResponse
<1>7. ASSUME NEW n \in Nodes
      PROVE  /\ reg'[n] \in RegType
             /\ reg'[n].rsp = reg[n].rsp \/ reg'[n].rsp = KM!NoResponse
             /\ worker'[n] \in WorkerType /\ worker'[n].rsp = worker[n].rsp /\ worker'[n].init = worker[n].init
  <2>1. reg'[n] \in RegType /\ (reg'[n].rsp = reg[n].rsp \/ reg'[n].rsp = KM!NoResponse)
    <3> DEFINE x == [rek |-> 0, rsp |-> KM!NoResponse]
    <3>1. x \in RegType /\ x.rsp = KM!NoResponse
      BY <1>6 DEF RegType
    <3>2. reg'[n] = x \/ reg'[n] = reg[n]
      BY <1>1
    <3> HIDE DEF x
    <3> QED
      BY <1>3, <3>1, <3>2
  <2>2. worker'[n] \in WorkerType /\ worker'[n].rsp = worker[n].rsp /\ worker'[n].init = worker[n].init
    <3> DEFINE w == worker[n]
               f == [k \in DOMAIN w.gen |-> 0]
    <3>1. w \in WorkerType
      BY <1>3
    <3>2. f \in [KM!AllKinds -> Nat]
      BY <3>1 DEF WorkerType
    <3>3. worker'[n] = [w EXCEPT !.gen = f]
      BY <1>2
    <3> HIDE DEF f, w
    <3>4. worker'[n] \in WorkerType /\ worker'[n].rsp = w.rsp /\ worker'[n].init = w.init
      BY <3>1, <3>2, <3>3 DEF WorkerType
    <3> QED
      BY <3>4 DEF w
  <2> QED
    BY <2>1, <2>2
<1>8. reg' \in [Nodes -> RegType] /\ worker' \in [Nodes -> WorkerType]
  BY <1>1, <1>2, <1>7
<1>9. ASSUME NEW n \in Nodes
      PROVE  /\ ResponseOK(reg'[n].rsp, disk[n]) /\ NextOK(p, reg'[n].rsp.next, disk[n])
             /\ FreshIn(txs, made, reg'[n].rsp.next)
  <2>1. ResponseOK(reg[n].rsp, disk[n]) /\ NextOK(p, reg[n].rsp.next, disk[n]) /\ FreshIn(txs, made, reg[n].rsp.next)
    BY <1>4 DEF NodeOK, NodeFresh
  <2>2. ResponseOK(KM!NoResponse, disk[n]) /\ NextOK(p, KM!NoResponse.next, disk[n]) /\ FreshIn(txs, made, KM!NoResponse.next)
    BY <1>6, NoPromise, TxsHaveChecksums
  <2> QED
    BY <1>7, <2>1, <2>2
<1>10. /\ status' \in StatusType /\ Chained(status', made) /\ Rotates(status, status')
       /\ PublishedOK(status', p, epoch + 1, made)
       /\ \A n \in status'.nodes : MemberOK(status', disk[n])
  BY <1>2, <1>8, <1>9, NextStatusRight
<1>11. /\ \A en \in EnclaveType : \A d : EnclaveOK(status, en, d) => EnclaveOK(status', en, d)
       /\ \A d : DiskOK(status, d) => DiskOK(status', d)
       /\ \A i \in InitType : \A d : InitOK(status, i, d) => InitOK(status', i, d)
       /\ \A x \in SecretType : TxOK(status, x, made) => TxOK(status', x, made)
  BY <1>3, <1>4, <1>10, RotatesKeeps
<1>12. TxsOK(status', txs, made)
  <2>1. \A x \in txs : x.secret \in SecretType
    BY <1>3 DEF TxType
  <2> QED
    BY <1>4, <1>11, <2>1 DEF TxsOK
<1>13. ASSUME NEW n \in Nodes
       PROVE  /\ NodeOK(status', p, worker'[n], enclave[n], disk[n], reg'[n])
              /\ NodeFresh(txs, made, worker'[n], enclave[n], reg'[n])
  <2>1. NodeOK(status, p, worker[n], enclave[n], disk[n], reg[n]) /\ NodeFresh(txs, made, worker[n], enclave[n], reg[n])
    BY <1>4
  <2>2. worker[n].init \in InitType /\ enclave[n] \in EnclaveType
    BY <1>3 DEF WorkerType
  <2>3. EnclaveOK(status', enclave[n], disk[n]) /\ DiskOK(status', disk[n]) /\ InitOK(status', worker[n].init, disk[n])
    BY <1>11, <2>1, <2>2 DEF NodeOK
  <2>4. worker'[n].rsp = worker[n].rsp /\ worker'[n].init = worker[n].init
    BY <1>7
  <2>5. NodeOK(status', p, worker'[n], enclave[n], disk[n], reg'[n])
    BY <1>9, <2>1, <2>3, <2>4 DEF NodeOK
  <2>6. NodeFresh(txs, made, worker'[n], enclave[n], reg'[n])
    BY <1>9, <2>1, <2>4 DEF NodeFresh
  <2> QED
    BY <2>5, <2>6
<1>14. KMTypes'
  <2>1. epoch' \in 1..MaxEpoch
    BY <1>2, <1>3
  <2> QED
    BY <1>2, <1>5, <1>8, <1>10, <2>1 DEF KMInv, KMTypes
<1>15. MasterInv'
  <2>1. UNCHANGED <<published, txs, enclave, disk, made>> /\ epoch' = epoch + 1
    BY <1>2
  <2> QED
    BY <1>4, <1>10, <1>12, <1>13, <2>1 DEF MasterInv
<1>16. EphemeralAgree'
  <2>1. published["ephemeral"].epoch \in Nat
    BY <1>3 DEF SecretType, KM!AllKinds
  <2>2. published["ephemeral"].epoch <= epoch + 1
    BY DEF KMInv, EphemeralAgree
  <2>3. published["ephemeral"].epoch <= (epoch + 1) + 1
    BY <1>3, <2>1, <2>2
  <2> QED
    BY <1>2, <2>3 DEF KMInv, EphemeralAgree
<1> QED
  BY <1>14, <1>15, <1>16 DEF KMInv

\* A policy: it is the next one.
LEMMA UpdatePolicyKeeps == ASSUME KM!KMSecretsAssumption, KMInv, KM!UpdatePolicy PROVE KMInv'
<1>1. PICK serial \in status.policy + 1..MaxPolicy : status' = [status EXCEPT !.nextPolicy = serial]
  BY DEF KM!UpdatePolicy
<1>2. UNCHANGED <<epoch, published, reg, txs, worker, enclave, disk, made, nodeFaults>>
  BY DEF KM!UpdatePolicy
<1>3. status \in StatusType
  BY DEF KMInv, KMTypes
<1>4. serial \in Nat
  <2>1. status.policy \in Nat
    BY <1>3 DEF StatusType
  <2> QED
    BY <2>1
<1>5. /\ status' \in StatusType /\ status'.generation = status.generation /\ status'.checksum = status.checksum
      /\ status'.nodes = status.nodes /\ status'.rotationEpoch = status.rotationEpoch /\ status'.policy = status.policy
  BY <1>1, <1>3, <1>4 DEF StatusType
<1>6. KMTypes'
  BY <1>2, <1>5 DEF KMInv, KMTypes
<1>7. /\ Chained(status, made) => Chained(status', made)
      /\ \A p, e : PublishedOK(status, p, e, made) => PublishedOK(status', p, e, made)
      /\ \A x : TxOK(status, x, made) => TxOK(status', x, made)
      /\ \A en, d : EnclaveOK(status, en, d) => EnclaveOK(status', en, d)
      /\ \A d : DiskOK(status, d) => DiskOK(status', d)
      /\ \A i, d : InitOK(status, i, d) => InitOK(status', i, d)
      /\ \A d : MemberOK(status, d) => MemberOK(status', d)
  <2>1. KM!NextGeneration(status') = KM!NextGeneration(status)
    BY <1>5 DEF KM!NextGeneration
  <2>2. Chained(status, made) => Chained(status', made)
    BY <1>5 DEF Chained
  <2>3. \A p, e : PublishedOK(status, p, e, made) => PublishedOK(status', p, e, made)
    BY <1>5, <2>1 DEF PublishedOK, KM!RotationDue
  <2>4. \A x : TxOK(status, x, made) => TxOK(status', x, made)
    BY <1>5 DEF TxOK
  <2>5. \A en, d : EnclaveOK(status, en, d) => EnclaveOK(status', en, d)
    BY <1>5 DEF EnclaveOK
  <2>6. \A d : (DiskOK(status, d) => DiskOK(status', d)) /\ (MemberOK(status, d) => MemberOK(status', d))
    BY <1>5 DEF DiskOK, MemberOK
  <2>7. \A i, d : InitOK(status, i, d) => InitOK(status', i, d)
    BY <1>5 DEF InitOK
  <2> QED
    BY <2>2, <2>3, <2>4, <2>5, <2>6, <2>7
<1>8. TxsOK(status', txs, made)
  BY <1>7 DEF KMInv, MasterInv, TxsOK
<1>9. ASSUME NEW n \in Nodes
      PROVE  /\ NodeOK(status', published["master"], worker[n], enclave[n], disk[n], reg[n])
             /\ NodeFresh(txs, made, worker[n], enclave[n], reg[n])
  <2>1. /\ NodeOK(status, published["master"], worker[n], enclave[n], disk[n], reg[n])
        /\ NodeFresh(txs, made, worker[n], enclave[n], reg[n])
    BY DEF KMInv, MasterInv
  <2> QED
    BY <1>7, <2>1 DEF NodeOK
<1>10. \A n \in status'.nodes : MemberOK(status', disk[n])
  BY <1>5, <1>7 DEF KMInv, MasterInv
<1>11. /\ Chained(status', made) /\ PublishedOK(status', published["master"], epoch, made)
       /\ FreshIn(txs, made, published["master"].checksum)
  BY <1>7 DEF KMInv, MasterInv
<1>12. MasterInv'
  BY <1>2, <1>8, <1>9, <1>10, <1>11 DEF MasterInv
<1>13. EphemeralAgree'
  BY <1>2 DEF KMInv, EphemeralAgree
<1> QED
  BY <1>6, <1>12, <1>13 DEF KMInv

\* A committee without secrets.
LEMMA SecretsInit == ASSUME KM!KMSecretsAssumption, KM!Init PROVE KMInv
<1> DEFINE rsp == [KM!NoResponse EXCEPT !.rak = 1, !.policy = 1]
           s == [KM!NoStatus EXCEPT !.nodes = Committee, !.policy = 1]
           r1 == [rek |-> 1, rsp |-> rsp]
           r0 == [rek |-> 0, rsp |-> KM!NoResponse]
           w1 == [KM!Started EXCEPT !.up = TRUE, !.status = s, !.rsp = rsp]
           e1 == [KM!Empty(1) EXCEPT !.ready = TRUE, !.policy = 1]
<1>1. /\ epoch = 1 /\ status = s /\ published = [k \in KM!AllKinds |-> KM!NoSecret]
      /\ reg = [n \in Nodes |-> IF n \in Committee THEN r1 ELSE r0]
      /\ worker = [n \in Nodes |-> IF n \in Committee THEN w1 ELSE KM!Started]
      /\ enclave = [n \in Nodes |-> IF n \in Committee THEN e1 ELSE KM!Empty(1)]
      /\ disk = [n \in Nodes |-> KM!Blank] /\ txs = {} /\ made = 0 /\ nodeFaults = 0
  BY DEF KM!Init
<1>2. /\ KM!NoResponse \in ResponseType /\ KM!NoStatus \in StatusType /\ KM!Started \in WorkerType
      /\ KM!Blank \in DiskType /\ KM!NoSecret \in SecretType /\ Committee \subseteq Nodes
      /\ MaxEpoch \in Nat \ {0} /\ MaxSecrets \in Nat /\ MaxNodeFaults \in Nat
  BY NothingTyped DEF KM!KMSecretsAssumption
<1>3. /\ KM!NoResponse.checksum = <<>> /\ KM!NoResponse.next = <<>>
      /\ KM!NoStatus.generation = 0 /\ KM!NoStatus.checksum = <<>>
      /\ KM!NoSecret.generation = 0 /\ KM!NoSecret.epoch = 0 /\ KM!NoSecret.secret = 0 /\ KM!NoSecret.checksum = <<>>
      /\ KM!Started.init.phase = "none" /\ KM!Started.rsp = KM!NoResponse
  BY DEF KM!NoResponse, KM!NoStatus, KM!NoSecret, KM!Started, KM!NoInit
<1>4. rsp \in ResponseType /\ rsp.checksum = <<>> /\ rsp.next = <<>>
  BY <1>2, <1>3 DEF ResponseType
<1>5. s \in StatusType /\ s.checksum = <<>> /\ s.generation = 0
  BY <1>2, <1>3 DEF StatusType
<1> HIDE DEF rsp, s
<1>6. r1 \in RegType /\ r1.rsp = rsp /\ r0 \in RegType /\ r0.rsp = KM!NoResponse
  BY <1>2, <1>4 DEF RegType
<1>7. w1 \in WorkerType /\ w1.rsp = rsp /\ w1.init.phase = "none"
  BY <1>2, <1>3, <1>4, <1>5 DEF WorkerType
<1>8. /\ KM!Empty(1) \in EnclaveType /\ KM!Empty(1).next = <<>> /\ KM!Empty(1).eph = {}
      /\ KM!Empty(1).generation = -1 /\ KM!Empty(1).checksum = <<>>
  <2>1. <<>> \in Checksums
    BY DEF Checksums
  <2> QED
    BY <2>1 DEF KM!Empty, EnclaveType
<1>9. e1 \in EnclaveType /\ e1.next = <<>> /\ e1.eph = {} /\ e1.generation = -1 /\ e1.checksum = <<>>
  <2> DEFINE b == KM!Empty(1)
  <2>1. b \in EnclaveType /\ b.next = <<>> /\ b.eph = {} /\ b.generation = -1 /\ b.checksum = <<>>
    BY <1>8
  <2>2. e1 = [b EXCEPT !.ready = TRUE, !.policy = 1]
    OBVIOUS
  <2> HIDE DEF b, e1
  <2> QED
    BY <2>1, <2>2 DEF EnclaveType
<1> HIDE DEF r0, r1, w1, e1
<1>10. ASSUME NEW n \in Nodes
       PROVE  /\ reg[n] \in RegType /\ reg[n].rsp.checksum = <<>> /\ reg[n].rsp.next = <<>>
              /\ worker[n] \in WorkerType /\ worker[n].rsp.checksum = <<>> /\ worker[n].rsp.next = <<>> /\ worker[n].init.phase = "none"
              /\ enclave[n] \in EnclaveType /\ enclave[n].next = <<>> /\ enclave[n].eph = {}
              /\ enclave[n].generation = -1 /\ enclave[n].checksum = <<>>
              /\ disk[n] = KM!Blank
  <2>1. reg[n] \in {r0, r1} /\ worker[n] \in {w1, KM!Started} /\ enclave[n] \in {e1, KM!Empty(1)} /\ disk[n] = KM!Blank
    BY <1>1
  <2> QED
    BY <1>2, <1>3, <1>4, <1>6, <1>7, <1>8, <1>9, <2>1
<1>11. KMTypes
  <2>1. /\ reg \in [Nodes -> RegType] /\ worker \in [Nodes -> WorkerType] /\ enclave \in [Nodes -> EnclaveType]
        /\ disk \in [Nodes -> DiskType]
    BY <1>1, <1>2, <1>10
  <2>2. published \in [KM!AllKinds -> SecretType] /\ txs \in SUBSET TxType
    BY <1>1, <1>2
  <2>3. epoch \in 1..MaxEpoch /\ made \in 0..MaxSecrets /\ nodeFaults \in 0..MaxNodeFaults
    BY <1>1, <1>2
  <2> QED
    BY <1>1, <1>5, <2>1, <2>2, <2>3 DEF KMTypes
<1>12. published["master"] = KM!NoSecret /\ published["ephemeral"] = KM!NoSecret
  BY <1>1 DEF KM!AllKinds
<1>13. Chained(status, made) /\ PublishedOK(status, KM!NoSecret, epoch, made) /\ TxsOK(status, txs, made)
       /\ FreshIn(txs, made, <<>>)
  BY <1>1, <1>3, <1>5 DEF Chained, PublishedOK, TxsOK, FreshIn
<1>14. \A g \in KM!Generations : KM!Blank.secret[g] = 0
  BY DEF KM!Blank
<1>15. ASSUME NEW n \in Nodes
       PROVE  /\ NodeOK(status, KM!NoSecret, worker[n], enclave[n], disk[n], reg[n])
              /\ NodeFresh(txs, made, worker[n], enclave[n], reg[n])
  <2>1. EnclaveOK(status, enclave[n], disk[n]) /\ InitOK(status, worker[n].init, disk[n])
    BY <1>10 DEF EnclaveOK, InitOK
  <2>2. DiskOK(status, disk[n])
    BY <1>10, <1>14 DEF DiskOK
  <2>3. ResponseOK(worker[n].rsp, disk[n]) /\ ResponseOK(reg[n].rsp, disk[n])
    BY <1>10, NoPromise
  <2>4. NextOK(KM!NoSecret, <<>>, disk[n])
    BY NoPromise
  <2> QED
    BY <1>10, <1>13, <2>1, <2>2, <2>3, <2>4 DEF NodeOK, NodeFresh
<1>16. \A n \in status.nodes : MemberOK(status, disk[n])
  BY <1>1, <1>5 DEF MemberOK
<1>17. MasterInv
  BY <1>3, <1>12, <1>13, <1>15, <1>16 DEF MasterInv
<1>18. EphemeralAgree
  BY <1>1, <1>3, <1>10, <1>12 DEF EphemeralAgree, EphemeralOK
<1> QED
  BY <1>11, <1>17, <1>18 DEF KMInv

\* Every step of the secrets of the key manager.
LEMMA SecretsStep == ASSUME KM!KMSecretsAssumption, KMInv, [KM!Next]_(KM!vars) PROVE KMInv'
<1>1. CASE UNCHANGED KM!vars
  <2>1. UNCHANGED <<epoch, status, published, reg, txs, worker, enclave, disk, made, nodeFaults>>
    BY <1>1 DEF KM!vars
  <2> QED
    BY <2>1 DEF KMInv, KMTypes, MasterInv, EphemeralAgree
<1>2. CASE KM!EpochChange
  BY <1>2, EpochChangeKeeps
<1>3. CASE KM!UpdatePolicy
  BY <1>3, UpdatePolicyKeeps
<1>4. CASE \E tx \in txs : KM!PublishSecret(tx)
  BY <1>4, PublishKeeps
<1>5. ASSUME NEW n \in Nodes,
             \/ KM!HandleStatusUpdate(n) \/ KM!InitEnclaveRetry(n) \/ KM!RegisterNode(n)
             \/ KM!InitKdf(n) \/ KM!ReplicateMasterSecret(n) \/ KM!FinishInit(n) \/ KM!HandleNewBlock(n)
             \/ \E k \in KM!AllKinds : KM!HandleNewSecret(n, k)
             \/ KM!RestartNode(n) \/ KM!RestartEnclave(n) \/ KM!CrashWhileStoring(n)
      PROVE  KMInv'
  <2>1. CASE KM!HandleStatusUpdate(n)
    BY <2>1, StatusUpdateKeeps
  <2>2. CASE KM!InitEnclaveRetry(n)
    BY <2>2, InitRetryKeeps
  <2>3. CASE KM!RegisterNode(n)
    BY <2>3, RegisterKeeps
  <2>4. CASE KM!InitKdf(n)
    BY <2>4, InitKdfKeeps
  <2>5. CASE KM!ReplicateMasterSecret(n)
    BY <2>5, ReplicateKeeps
  <2>6. CASE KM!FinishInit(n)
    BY <2>6, FinishInitKeeps
  <2>7. CASE KM!HandleNewBlock(n)
    BY <2>7, NewBlockKeeps
  <2>8. CASE \E k \in KM!AllKinds : KM!HandleNewSecret(n, k)
    BY <2>8, NewSecretKeeps
  <2>9. CASE KM!RestartNode(n)
    BY <2>9, RestartNodeKeeps
  <2>10. CASE KM!RestartEnclave(n)
    BY <2>10, RestartEnclaveKeeps
  <2>11. CASE KM!CrashWhileStoring(n)
    BY <2>11, CrashKeeps
  <2> QED
    BY <1>5, <2>1, <2>2, <2>3, <2>4, <2>5, <2>6, <2>7, <2>8, <2>9, <2>10, <2>11
<1> QED
  BY <1>1, <1>2, <1>3, <1>4, <1>5 DEF KM!Next

\* The invariant of the secrets of the key manager.
THEOREM SecretsInvariance == ASSUME KM!KMSecretsAssumption PROVE KM!Spec => []KMInv
<1>1. KM!Init => KMInv
  BY SecretsInit
<1>2. KMInv /\ [KM!Next]_(KM!vars) => KMInv'
  BY SecretsStep
<1> QED
  BY <1>1, <1>2, PTL DEF KM!Spec

\* The part of a checksum that another one extends.
LEMMA ExtendsIsPart ==
    ASSUME NEW c \in Checksums, NEW d \in Checksums, Extends(c, d)
    PROVE  c = SubSeq(d, 1, Len(c))
<1>1. c \in Seq(Nat) /\ d \in Seq(Nat) /\ Len(c) \in Nat /\ Len(d) \in Nat /\ Len(c) <= Len(d) /\ \A i \in 1..Len(c) : d[i] = c[i]
  BY DEF Checksums, Extends
<1> DEFINE e == SubSeq(d, 1, Len(c))
<1>2. Len(e) = Len(c) /\ e \in Seq(Nat) /\ \A i \in 1..Len(c) : e[i] = d[i]
  BY <1>1
<1> HIDE DEF e
<1>3. e = c
  BY <1>1, <1>2, SeqEqual
<1> QED
  BY <1>3 DEF e

\* What the invariant says about the committee and the enclaves.
LEMMA InvSecrets == ASSUME KM!KMSecretsAssumption, KMInv PROVE KM!CommitteeHasSecrets /\ KM!SecretsAgree
<1>1. /\ status \in StatusType /\ made \in 0..MaxSecrets /\ Chained(status, made) /\ status.generation \in Nat
      /\ status.checksum \in Checksums /\ MaxSecrets \in Nat
  BY DEF KMInv, KMTypes, MasterInv, StatusType, KM!KMSecretsAssumption
<1>2. status.checksum # <<>> => 0..status.generation \subseteq KM!Generations /\ Len(status.checksum) = status.generation + 2
  BY <1>1, GenerationBound
<1>3. KM!Rotated = IF status.checksum = <<>> THEN {} ELSE 0..status.generation
  BY DEF KM!Rotated
<1>4. \A n \in Nodes : DiskOK(status, disk[n]) /\ EnclaveOK(status, enclave[n], disk[n]) /\ enclave[n] \in EnclaveType
  BY DEF KMInv, KMTypes, MasterInv, NodeOK
<1>5. ASSUME NEW n \in Nodes, NEW g \in KM!Generations, disk[n].secret[g] # 0
      PROVE  g \in KM!Rotated /\ disk[n].secret[g] = KM!MasterSecret(g)
  <2>1. status.checksum # <<>> /\ g <= status.generation /\ disk[n].secret[g] = status.checksum[g + 2]
    BY <1>4, <1>5 DEF DiskOK
  <2>2. g \in 0..status.generation
    BY <1>1, <2>1 DEF KM!Generations
  <2> QED
    BY <1>3, <2>1, <2>2 DEF KM!MasterSecret
<1>6. KM!CommitteeHasSecrets
  <2> SUFFICES ASSUME NEW n \in status.nodes, NEW g \in KM!Rotated
               PROVE  \/ disk[n].secret[g] = KM!MasterSecret(g)
                      \/ g = status.generation /\ KM!Proposal(disk[n], g) = KM!MasterSecret(g)
    BY DEF KM!CommitteeHasSecrets
  <2>1. status.checksum # <<>> /\ g \in 0..status.generation /\ g \in KM!Generations /\ n \in Nodes
    BY <1>1, <1>2, <1>3 DEF StatusType
  <2>2. \/ disk[n].secret[g] # 0
        \/ g = status.generation /\ disk[n].proposal = [generation |-> g, secret |-> status.checksum[g + 2]]
    BY <2>1 DEF KMInv, MasterInv, MemberOK
  <2>3. CASE disk[n].secret[g] # 0
    BY <1>5, <2>1, <2>3
  <2>4. CASE g = status.generation /\ disk[n].proposal = [generation |-> g, secret |-> status.checksum[g + 2]]
    BY <2>4 DEF KM!Proposal, KM!MasterSecret
  <2> QED
    BY <2>2, <2>3, <2>4
<1>7. ASSUME NEW n \in Nodes, enclave[n].generation >= 0
      PROVE  /\ enclave[n].generation \in KM!Rotated
             /\ enclave[n].checksum = SubSeq(status.checksum, 1, enclave[n].generation + 2)
  <2>1. /\ enclave[n].generation \in 0..status.generation /\ status.checksum # <<>>
        /\ Len(enclave[n].checksum) = enclave[n].generation + 2 /\ Extends(enclave[n].checksum, status.checksum)
    <3>1. enclave[n].generation # -1
      BY <1>7
    <3> QED
      BY <1>4, <3>1 DEF EnclaveOK
  <2>2. enclave[n].checksum \in Checksums
    BY <1>4 DEF EnclaveType
  <2>3. enclave[n].checksum = SubSeq(status.checksum, 1, Len(enclave[n].checksum))
    BY <1>1, <2>1, <2>2, ExtendsIsPart
  <2> QED
    BY <1>3, <2>1, <2>3
<1>8. \A n, m \in Nodes : \A x \in enclave[n].eph, y \in enclave[m].eph : x.epoch = y.epoch => x = y
  BY DEF KMInv, EphemeralAgree
<1>9. KM!SecretsAgree
  BY <1>5, <1>7, <1>8 DEF KM!SecretsAgree
<1> QED
  BY <1>6, <1>9

\* No master secret is lost and no two are used: every member of the
\* committee has stored every master secret, whatever was restarted or has
\* crashed, and enclaves only use what consensus has accepted.
THEOREM SecretsAlwaysKept ==
    ASSUME KM!KMSecretsAssumption PROVE KM!Spec => [](KM!CommitteeHasSecrets /\ KM!SecretsAgree)
<1>1. KMInv => KM!CommitteeHasSecrets /\ KM!SecretsAgree
  BY InvSecrets
<1> QED
  BY <1>1, SecretsInvariance, PTL

\* What a step does to the checksum of consensus.
LEMMA StepRotates == ASSUME KM!KMSecretsAssumption, KMInv, [KM!Next]_(KM!vars) PROVE KM!RotationsRight
<1> SUFFICES ASSUME status'.checksum # status.checksum
             PROVE  /\ status'.generation = KM!NextGeneration(status)
                    /\ Len(status'.checksum) = status'.generation + 2
                    /\ status.checksum # <<>> =>
                          /\ SubSeq(status'.checksum, 1, Len(status.checksum)) = status.checksum
                          /\ status'.rotationEpoch = epoch' /\ KM!RotationDue(status, epoch')
  BY DEF KM!RotationsRight
<1>1. status \in StatusType /\ published \in [KM!AllKinds -> SecretType] /\ reg \in [Nodes -> RegType]
  BY DEF KMInv, KMTypes
<1>2. KM!EpochChange \/ UNCHANGED status \/ KM!UpdatePolicy
  <2>1. \A tx \in txs : KM!PublishSecret(tx) => UNCHANGED status
    BY DEF KM!PublishSecret
  <2>2. ASSUME NEW n \in Nodes
        PROVE  /\ KM!HandleStatusUpdate(n) \/ KM!InitEnclaveRetry(n) \/ KM!RegisterNode(n) => UNCHANGED status
               /\ KM!InitKdf(n) => UNCHANGED status
               /\ KM!ReplicateMasterSecret(n) => UNCHANGED status
               /\ KM!FinishInit(n) => UNCHANGED status
               /\ KM!HandleNewBlock(n) => UNCHANGED status
               /\ \A k \in KM!AllKinds : KM!HandleNewSecret(n, k) => UNCHANGED status
               /\ KM!RestartNode(n) \/ KM!RestartEnclave(n) \/ KM!CrashWhileStoring(n) => UNCHANGED status
    <3>1. KM!HandleStatusUpdate(n) \/ KM!InitEnclaveRetry(n) \/ KM!RegisterNode(n) => UNCHANGED status
      BY DEF KM!HandleStatusUpdate, KM!InitEnclaveRetry, KM!RegisterNode
    <3>2. KM!InitKdf(n) => UNCHANGED status
      BY DEF KM!InitKdf
    <3>3. KM!ReplicateMasterSecret(n) => UNCHANGED status
      BY DEF KM!ReplicateMasterSecret
    <3>4. KM!FinishInit(n) => UNCHANGED status
      BY DEF KM!FinishInit
    <3>5. KM!HandleNewBlock(n) => UNCHANGED status
      BY DEF KM!HandleNewBlock
    <3>6. \A k \in KM!AllKinds : KM!HandleNewSecret(n, k) => UNCHANGED status
      BY DEF KM!HandleNewSecret
    <3>7. KM!RestartNode(n) \/ KM!RestartEnclave(n) \/ KM!CrashWhileStoring(n) => UNCHANGED status
      BY DEF KM!RestartNode, KM!RestartEnclave, KM!CrashWhileStoring, KM!Restarted
    <3> QED
      BY <3>1, <3>2, <3>3, <3>4, <3>5, <3>6, <3>7
  <2>3. UNCHANGED KM!vars => UNCHANGED status
    BY DEF KM!vars
  <2> QED
    BY <2>1, <2>2, <2>3 DEF KM!Next
<1>3. ~KM!UpdatePolicy
  BY <1>1 DEF KM!UpdatePolicy, StatusType
<1>4. KM!EpochChange
  BY <1>2, <1>3
<1>5. /\ status' = KM!GenerateStatus(status, published["master"], reg', epoch + 1)
      /\ UNCHANGED disk /\ UNCHANGED published /\ epoch' = epoch + 1
  BY <1>4 DEF KM!EpochChange
<1>6. KMInv'
  BY SecretsStep
<1>7. reg' \in [Nodes -> RegType]
  BY <1>6 DEF KMInv, KMTypes
<1>8. \A n \in Nodes : ResponseOK(reg'[n].rsp, disk[n]) /\ NextOK(published["master"], reg'[n].rsp.next, disk[n])
  BY <1>5, <1>6 DEF KMInv, MasterInv, NodeOK
<1>9. /\ Rotates(status, status') /\ status' \in StatusType
      /\ status'.generation = KM!NextGeneration(status) /\ Len(status'.checksum) = status'.generation + 2
      /\ status'.rotationEpoch = epoch + 1 /\ (status.checksum # <<>> => KM!RotationDue(status, epoch + 1))
  BY <1>5, <1>7, <1>8, NextStatusRight
<1>10. status.checksum = SubSeq(status'.checksum, 1, Len(status.checksum))
  BY <1>1, <1>9, ExtendsIsPart DEF Rotates, StatusType
<1> QED
  BY <1>5, <1>9, <1>10

\* Consensus only adds master secrets, one at a time and never sooner than the
\* policy says that was in force until then, whatever policies come.
THEOREM RotationsAlwaysRight ==
    ASSUME KM!KMSecretsAssumption PROVE KM!Spec => [][KM!RotationsRight]_(KM!vars)
<1>1. KMInv /\ [KM!Next]_(KM!vars) => [KM!RotationsRight]_(KM!vars)
  BY StepRotates
<1> QED
  BY <1>1, SecretsInvariance, PTL DEF KM!Spec
=============================================================================

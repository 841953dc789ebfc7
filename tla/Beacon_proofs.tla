---------------------------- MODULE Beacon_proofs ----------------------------
(***************************************************************************)
(* The beacon, for every set of nodes and keys, every length of an epoch,   *)
(* threshold of proofs and genesis.  What protects the lottery is spread     *)
(* over three applications and two epoch transitions; the invariant below    *)
(* says what each of them leaves behind for the next.  Further down, the     *)
(* elections that the lottery is for.                                        *)
(***************************************************************************)
EXTENDS Beacon, Sequences, SumTheorems

Keyed == UNION {[S -> VRFKeys] : S \in SUBSET Nodes}

Record == [key : VRFKeys, eligibleAfter : 0..EpochInvalid, keyEpoch : Int]

\* The types, and that a transition is always ahead, so that none is missed.
Timed ==
    /\ height \in Nat /\ epoch \in 0..MaxEpoch
    /\ future = [epoch |-> epoch + 1, height |-> future.height]
    /\ future.height \in height + 1..height + Interval
    /\ vrf = [epoch |-> epoch, pi |-> vrf.pi, hq |-> vrf.hq,
              submitAfter |-> vrf.submitAfter, prev |-> vrf.prev]
    /\ vrf.pi \in Keyed /\ vrf.prev = [pi |-> vrf.prev.pi, canElect |-> vrf.prev.canElect]
    /\ vrf.prev.pi \in Keyed
    /\ nodes \in UNION {[S -> Record] : S \in SUBSET Nodes}
    /\ DOMAIN proofs = 0..epoch
    /\ failed = "ok"

\* A node is eligible only for epochs that begin after one in which its key
\* was registered already.
EligibleLate ==
    \A n \in DOMAIN nodes :
        /\ nodes[n].eligibleAfter # EpochInvalid =>
              nodes[n].keyEpoch < nodes[n].eligibleAfter /\ nodes[n].eligibleAfter <= epoch
        /\ nodes[n].keyEpoch <= epoch

\* A proof of this epoch is by the registered key, or the node has to wait; the
\* same for the proofs of the epoch before, an epoch later.
ProvedWithKey ==
    /\ \A n \in DOMAIN vrf.pi \cap DOMAIN nodes :
           vrf.pi[n] = nodes[n].key \/ nodes[n].eligibleAfter = EpochInvalid
    /\ \A n \in DOMAIN vrf.prev.pi \cap DOMAIN nodes :
           vrf.prev.pi[n] = nodes[n].key \/ nodes[n].eligibleAfter >= epoch

\* The quality of alpha is that of the proofs it was made from.
QualityEarned ==
    /\ proofs[epoch] = Cardinality(DOMAIN vrf.pi)
    /\ vrf.hq => epoch >= 1 /\ proofs[epoch - 1] >= AlphaHighQualityThreshold
    /\ vrf.prev.canElect => epoch >= 2 /\ proofs[epoch - 2] >= AlphaHighQualityThreshold

IInv == Timed /\ EligibleLate /\ ProvedWithKey /\ QualityEarned /\ BeaconUnbiased

-----------------------------------------------------------------------------
\* A function with one more value keeps its type.
LEMMA WithTyped ==
    ASSUME NEW R, NEW S, NEW f \in UNION {[T -> R] : T \in SUBSET S}, NEW k \in S, NEW v \in R
    PROVE  With(f, k, v) \in UNION {[T -> R] : T \in SUBSET S}
<1>1. PICK T \in SUBSET S : f \in [T -> R]
  OBVIOUS
<1>2. With(f, k, v) \in [T \cup {k} -> R]
  BY <1>1 DEF With
<1>3. T \cup {k} \in SUBSET S
  OBVIOUS
<1> QED
  BY <1>2, <1>3

LEMMA NoneTyped == ASSUME NEW R, NEW S PROVE None \in UNION {[T -> R] : T \in SUBSET S}
<1>1. None \in [{} -> R] /\ {} \in SUBSET S
  BY DEF None
<1> QED
  BY <1>1

\* Whoever can be elected proved with the key it has, and had that key before
\* the epoch of the proof; and there are such nodes only after a good alpha.
LEMMA ElectionSafe ==
    ASSUME NEW prev, NEW ns, NEW e \in Nat, NEW members \in SUBSET CanBeElected(prev, ns, e),
           \A n \in DOMAIN ns : ns[n] \in Record,
           \A n \in DOMAIN ns : ns[n].eligibleAfter # EpochInvalid =>
               ns[n].keyEpoch < ns[n].eligibleAfter /\ ns[n].eligibleAfter <= e,
           \A n \in DOMAIN prev.pi \cap DOMAIN ns :
               prev.pi[n] = ns[n].key \/ ns[n].eligibleAfter >= e,
           e <= MaxEpoch
    PROVE  /\ \A c \in Elected(prev, ns, e, members) : c.proof = c.key /\ c.keyEpoch < e - 1
           /\ Elected(prev, ns, e, members) # {} => prev.canElect
<1>1. ASSUME NEW n \in members
      PROVE  prev.canElect /\ prev.pi[n] = ns[n].key /\ ns[n].keyEpoch < e - 1
  <2>1. prev.canElect /\ n \in DOMAIN prev.pi \cap DOMAIN ns /\ e > ns[n].eligibleAfter
    BY <1>1 DEF CanBeElected, IsEligibleForElection
  <2>2. ns[n].eligibleAfter \in 0..EpochInvalid /\ ns[n].keyEpoch \in Int
    BY <2>1 DEF Record
  <2>3. MaxEpoch \in Nat
    BY BeaconAssumed DEF BeaconAssumption
  <2>4. ns[n].eligibleAfter # EpochInvalid
    BY <2>1, <2>2, <2>3 DEF EpochInvalid
  <2>5. ns[n].keyEpoch < ns[n].eligibleAfter
    BY <2>1, <2>4
  <2>6. ns[n].keyEpoch < e - 1
    BY <2>1, <2>2, <2>3, <2>5 DEF EpochInvalid
  <2>7. ~(ns[n].eligibleAfter >= e)
    BY <2>1, <2>2, <2>3 DEF EpochInvalid
  <2> QED
    BY <2>1, <2>6, <2>7
<1> QED
  BY <1>1 DEF Elected

-----------------------------------------------------------------------------
LEMMA InitInv == Init => IInv
<1> SUFFICES ASSUME Init PROVE IInv
  OBVIOUS
<1> USE BeaconAssumed DEF BeaconAssumption
<1>1. PICK key \in [Genesis -> VRFKeys] :
          nodes = [n \in Genesis |-> [key |-> key[n], eligibleAfter |-> 0, keyEpoch |-> -1]]
  BY DEF Init
<1>2. height = 1 /\ epoch = 0 /\ future = [epoch |-> 1, height |-> 1 + Interval] /\ failed = "ok"
  BY DEF Init, ScheduleEpochTransitionBlock
<1>3. /\ vrf = [epoch |-> 0, pi |-> None, hq |-> FALSE, submitAfter |-> 1 + ProofSubmissionDelay,
                prev |-> [pi |-> None, canElect |-> FALSE]]
      /\ committee = {} /\ proofs = [e \in {0} |-> 0]
  BY DEF Init
<1>4. DOMAIN None = {}
  BY DEF None
<1>5. Timed
  <2>1. None \in Keyed
    BY NoneTyped DEF Keyed
  <2>2. nodes \in [Genesis -> Record]
    BY <1>1 DEF Record, EpochInvalid
  <2>3. nodes \in UNION {[S -> Record] : S \in SUBSET Nodes}
    BY <2>2
  <2>4. DOMAIN proofs = 0..epoch
    BY <1>2, <1>3
  <2> QED
    BY <1>2, <1>3, <2>1, <2>3, <2>4 DEF Timed
<1>6. EligibleLate
  BY <1>1, <1>2 DEF EligibleLate
<1>7. ProvedWithKey
  BY <1>3, <1>4 DEF ProvedWithKey
<1>8. QualityEarned
  BY <1>2, <1>3, <1>4, FS_EmptySet DEF QualityEarned
<1>9. BeaconUnbiased
  BY <1>3 DEF BeaconUnbiased, KeyFixedBeforeAlpha, CommitteesNeedProofs
<1> QED
  BY <1>5, <1>6, <1>7, <1>8, <1>9 DEF IInv

\* A block in the middle of an epoch, or the first one of the next epoch.
LEMMA BeginBlockInv == IInv /\ BeginBlock => IInv'
<1> SUFFICES ASSUME IInv, BeginBlock PROVE IInv'
  OBVIOUS
<1> USE BeaconAssumed DEF BeaconAssumption
<1> USE DEF IInv
<1>1. CASE future.height # height + 1
  <2>1. UNCHANGED <<epoch, future, vrf, nodes, committee, proofs>> /\ height' = height + 1
    BY <1>1 DEF BeginBlock
  <2>2. future.height > height + 1
    BY <1>1 DEF Timed
  <2>3. failed' = "ok"
    <3>1. ~(future.height < height + 1)
      BY <2>2 DEF Timed
    <3>2. failed' = failed
      BY <1>1, <3>1, Zenon DEF BeginBlock
    <3> QED
      BY <3>2 DEF Timed
  <2>4. Timed'
    <3>1. (future.height \in height + 1..height + Interval)'
      BY <2>1, <2>2 DEF Timed
    <3> QED
      BY <2>1, <2>3, <3>1 DEF Timed
  <2>5. EligibleLate' /\ ProvedWithKey' /\ QualityEarned' /\ BeaconUnbiased'
    BY <2>1 DEF EligibleLate, ProvedWithKey, QualityEarned, BeaconUnbiased, KeyFixedBeforeAlpha,
                CommitteesNeedProofs
  <2> QED
    BY <2>4, <2>5
<1>2. CASE future.height = height + 1
  <2> DEFINE e == epoch + 1
             h == height + 1
  <2>1. /\ height' = h /\ epoch' = e /\ failed' = "ok"
        /\ future' = [epoch |-> e + 1, height |-> h + Interval]
        /\ nodes' = UpdateNodeStatus(e) /\ vrf' = NextVRFState(h) /\ proofs' = With(proofs, e, 0)
    BY <1>2 DEF BeginBlock, Timed, ScheduleEpochTransitionBlock
  <2>2. /\ vrf'.epoch = e /\ vrf'.pi = None /\ vrf'.prev = [pi |-> vrf.pi, canElect |-> vrf.hq]
        /\ vrf'.hq = (Cardinality(DOMAIN vrf.pi) >= AlphaHighQualityThreshold)
        /\ vrf' = [epoch |-> e, pi |-> vrf'.pi, hq |-> vrf'.hq,
                   submitAfter |-> vrf'.submitAfter, prev |-> vrf'.prev]
    BY <2>1 DEF NextVRFState, Timed
  <2>3. PICK m \in SUBSET CanBeElected(vrf'.prev, nodes', e) :
            committee' = Elected(vrf'.prev, nodes', e, m)
    BY <1>2, <2>1 DEF BeginBlock
  <2>4. e \in 0..MaxEpoch /\ epoch \in Nat /\ height \in Nat
    <3>1. epoch < MaxEpoch
      BY Zenon DEF BeginBlock
    <3> QED
      BY <3>1 DEF Timed
  <2>5. DOMAIN nodes' = DOMAIN nodes
    BY <2>1 DEF UpdateNodeStatus
  <2>6. ASSUME NEW n \in DOMAIN nodes
        PROVE  /\ nodes'[n] \in Record /\ nodes[n] \in Record
               /\ nodes'[n].key = nodes[n].key /\ nodes'[n].keyEpoch = nodes[n].keyEpoch
               /\ nodes'[n].eligibleAfter = IF nodes[n].eligibleAfter # EpochInvalid
                                            THEN nodes[n].eligibleAfter ELSE e
    <3>1. nodes[n] \in Record
      BY DEF Timed
    <3>2. e \in 0..EpochInvalid
      BY <2>4 DEF EpochInvalid
    <3>3. nodes'[n] = IF nodes[n].eligibleAfter # EpochInvalid THEN nodes[n]
                      ELSE [nodes[n] EXCEPT !.eligibleAfter = e]
      BY <2>1 DEF UpdateNodeStatus
    <3> QED
      BY <3>1, <3>2, <3>3 DEF Record
  <2>7. Timed'
    <3>1. None \in Keyed
      BY NoneTyped DEF Keyed
    <3>2. nodes' \in [DOMAIN nodes -> Record]
      BY <2>1, <2>6 DEF UpdateNodeStatus
    <3>3. DOMAIN nodes \in SUBSET Nodes
      BY DEF Timed
    <3>4. nodes' \in UNION {[S -> Record] : S \in SUBSET Nodes}
      BY <3>2, <3>3
    <3>5. DOMAIN proofs' = 0..e
      <4>1. DOMAIN With(proofs, e, 0) = DOMAIN proofs \cup {e}
        BY DEF With
      <4>2. 0..e = 0..epoch \cup {e}
        BY <2>4
      <4> QED
        BY <2>1, <4>1, <4>2 DEF Timed
    <3> QED
      BY <2>1, <2>2, <2>4, <3>1, <3>4, <3>5 DEF Timed
  <2>8. EligibleLate'
    <3> SUFFICES ASSUME NEW n \in DOMAIN nodes
                 PROVE  /\ nodes'[n].eligibleAfter # EpochInvalid =>
                              nodes'[n].keyEpoch < nodes'[n].eligibleAfter /\ nodes'[n].eligibleAfter <= e
                        /\ nodes'[n].keyEpoch <= e
      BY <2>1, <2>5 DEF EligibleLate
    <3>1. nodes[n].keyEpoch \in Int /\ nodes[n].eligibleAfter \in Int
      BY <2>6 DEF Record, EpochInvalid
    <3> QED
      BY <2>4, <2>6, <3>1 DEF EligibleLate
  <2>9. ProvedWithKey'
    <3>1. \A n \in DOMAIN vrf.pi \cap DOMAIN nodes :
              vrf.pi[n] = nodes'[n].key \/ nodes'[n].eligibleAfter >= e
      BY <2>4, <2>6 DEF ProvedWithKey
    <3>2. DOMAIN vrf'.pi = {}
      BY <2>2 DEF None
    <3> QED
      BY <2>1, <2>2, <2>5, <3>1, <3>2 DEF ProvedWithKey
  <2>10. QualityEarned'
    <3>1. proofs'[e] = 0 /\ \A x \in 0..epoch : proofs'[x] = proofs[x]
      <4> HIDE DEF e
      <4>1. With(proofs, e, 0)[e] = 0 /\ \A x \in DOMAIN proofs : x # e => With(proofs, e, 0)[x] = proofs[x]
        BY DEF With
      <4>2. \A x \in 0..epoch : x # e
        BY <2>4 DEF e
      <4> QED
        BY <2>1, <4>1, <4>2 DEF Timed
    <3>2. DOMAIN vrf'.pi = {}
      BY <2>2 DEF None
    <3>3. proofs'[e] = Cardinality(DOMAIN vrf'.pi)
      BY <3>1, <3>2, FS_EmptySet
    <3>4. vrf'.hq => e >= 1 /\ proofs'[e - 1] >= AlphaHighQualityThreshold
      <4>1. e >= 1 /\ e - 1 = epoch /\ epoch \in 0..epoch
        BY <2>4
      <4>2. proofs'[epoch] = Cardinality(DOMAIN vrf.pi)
        BY <3>1, <4>1 DEF QualityEarned
      <4> QED
        BY <2>2, <4>1, <4>2
    <3>5. vrf'.prev.canElect => e >= 2 /\ proofs'[e - 2] >= AlphaHighQualityThreshold
      BY <2>2, <2>4, <3>1 DEF QualityEarned
    <3> QED
      BY <2>1, <3>3, <3>4, <3>5 DEF QualityEarned
  <2>11. BeaconUnbiased'
    <3>1. /\ \A c \in committee' : c.proof = c.key /\ c.keyEpoch < e - 1
          /\ committee' # {} => vrf'.prev.canElect
      <4>1. \A n \in DOMAIN nodes' : nodes'[n] \in Record
        BY <2>5, <2>6
      <4>2. \A n \in DOMAIN nodes' : nodes'[n].eligibleAfter # EpochInvalid =>
                nodes'[n].keyEpoch < nodes'[n].eligibleAfter /\ nodes'[n].eligibleAfter <= e
        BY <2>1, <2>8 DEF EligibleLate
      <4>3. \A n \in DOMAIN vrf'.prev.pi \cap DOMAIN nodes' :
                vrf'.prev.pi[n] = nodes'[n].key \/ nodes'[n].eligibleAfter >= e
        BY <2>1, <2>9 DEF ProvedWithKey
      <4>4. e \in Nat /\ e <= MaxEpoch
        BY <2>4
      <4> HIDE DEF e
      <4> QED
        BY <2>3, <4>1, <4>2, <4>3, <4>4, ElectionSafe
    <3>2. committee' # {} => epoch' >= 2 /\ proofs'[epoch' - 2] >= AlphaHighQualityThreshold
      BY <2>10, <3>1 DEF QualityEarned
    <3> QED
      BY <2>1, <3>1, <3>2 DEF BeaconUnbiased, KeyFixedBeforeAlpha, CommitteesNeedProofs
  <2> QED
    BY <2>7, <2>8, <2>9, <2>10, <2>11
<1> QED
  BY <1>1, <1>2

\* An election in the middle of an epoch uses what was proved in the last one
\* and who is registered now.
LEMMA ReelectAfterSlashInv == IInv /\ ReelectAfterSlash => IInv'
<1> SUFFICES ASSUME IInv, ReelectAfterSlash PROVE IInv'
  OBVIOUS
<1> USE BeaconAssumed DEF BeaconAssumption
<1>1. PICK m \in SUBSET CanBeElected(vrf.prev, nodes, epoch) :
          committee' = Elected(vrf.prev, nodes, epoch, m)
  BY DEF ReelectAfterSlash
<1>2. UNCHANGED <<height, epoch, future, vrf, nodes, proofs, failed>>
  BY DEF ReelectAfterSlash
<1>3. /\ \A c \in committee' : c.proof = c.key /\ c.keyEpoch < epoch - 1
      /\ committee' # {} => vrf.prev.canElect
  <2>1. \A n \in DOMAIN nodes : nodes[n] \in Record
    BY DEF IInv, Timed
  <2>2. epoch \in Nat /\ epoch <= MaxEpoch
    BY DEF IInv, Timed
  <2> QED
    BY <1>1, <2>1, <2>2, ElectionSafe DEF IInv, EligibleLate, ProvedWithKey
<1>4. BeaconUnbiased'
  BY <1>2, <1>3 DEF IInv, QualityEarned, BeaconUnbiased, KeyFixedBeforeAlpha, CommitteesNeedProofs
<1>5. Timed' /\ EligibleLate' /\ ProvedWithKey' /\ QualityEarned'
  BY <1>2 DEF IInv, Timed, EligibleLate, ProvedWithKey, QualityEarned
<1> QED
  BY <1>4, <1>5 DEF IInv

LEMMA DoProveTxInv == ASSUME NEW n \in Nodes, NEW e PROVE IInv /\ DoProveTx(n, e) => IInv'
<1> SUFFICES ASSUME IInv, DoProveTx(n, e) PROVE IInv'
  OBVIOUS
<1> USE BeaconAssumed DEF BeaconAssumption
<1> DEFINE p == With(vrf.pi, n, nodes[n].key)
<1>1. /\ UNCHANGED <<height, epoch, future, nodes, committee, failed>>
      /\ n \in DOMAIN nodes /\ vrf' = [vrf EXCEPT !.pi = p]
      /\ proofs' = [proofs EXCEPT ![epoch] = Cardinality(DOMAIN vrf'.pi)]
  BY DEF DoProveTx
<1>2. epoch \in 0..MaxEpoch /\ epoch \in Nat /\ DOMAIN proofs = 0..epoch
  BY DEF IInv, Timed
<1>3. /\ vrf' = [epoch |-> epoch, pi |-> p, hq |-> vrf.hq, submitAfter |-> vrf.submitAfter,
                 prev |-> vrf.prev]
  <2>1. vrf = [epoch |-> epoch, pi |-> vrf.pi, hq |-> vrf.hq, submitAfter |-> vrf.submitAfter,
               prev |-> vrf.prev]
    BY DEF IInv, Timed
  <2> HIDE DEF p
  <2> QED
    BY <1>1, <2>1
<1>4. /\ vrf'.pi = p /\ vrf'.hq = vrf.hq /\ vrf'.prev = vrf.prev
      /\ vrf'.submitAfter = vrf.submitAfter /\ vrf'.epoch = epoch
  BY <1>3
<1>5. Timed'
  <2>1. nodes[n].key \in VRFKeys
    BY <1>1 DEF IInv, Timed, Record
  <2>2. p \in Keyed
    BY <2>1, WithTyped DEF IInv, Timed, Keyed
  <2>3. DOMAIN proofs' = 0..epoch
    BY <1>1, <1>2
  <2> HIDE DEF p
  <2> QED
    BY <1>1, <1>3, <1>4, <2>2, <2>3 DEF IInv, Timed
<1>6. EligibleLate'
  BY <1>1 DEF IInv, EligibleLate
<1>7. ProvedWithKey'
  <2>1. \A m \in DOMAIN p \cap DOMAIN nodes :
            p[m] = nodes[m].key \/ nodes[m].eligibleAfter = EpochInvalid
    <3> DEFINE k == nodes[n].key
    <3> HIDE DEF k
    <3>1. /\ DOMAIN With(vrf.pi, n, k) = DOMAIN vrf.pi \cup {n} /\ With(vrf.pi, n, k)[n] = k
          /\ \A x \in DOMAIN vrf.pi : x # n => With(vrf.pi, n, k)[x] = vrf.pi[x]
      BY DEF With
    <3> QED
      BY <3>1 DEF IInv, ProvedWithKey, k
  <2> HIDE DEF p
  <2> QED
    BY <1>1, <1>4, <2>1 DEF IInv, ProvedWithKey
<1>8. QualityEarned' /\ BeaconUnbiased'
  <2>1. proofs'[epoch] = Cardinality(DOMAIN vrf'.pi) /\ \A x \in 0..epoch - 1 : proofs'[x] = proofs[x]
    BY <1>1, <1>2
  <2>2. QualityEarned'
    BY <1>1, <1>2, <1>4, <2>1 DEF IInv, QualityEarned
  <2>3. BeaconUnbiased'
    BY <1>1, <1>2, <2>1 DEF IInv, BeaconUnbiased, KeyFixedBeforeAlpha, CommitteesNeedProofs
  <2> QED
    BY <2>2, <2>3
<1> QED
  BY <1>5, <1>6, <1>7, <1>8 DEF IInv

LEMMA RegisterNodeInv ==
    ASSUME NEW n \in Nodes, NEW k \in VRFKeys PROVE IInv /\ RegisterNode(n, k) => IInv'
<1> SUFFICES ASSUME IInv, RegisterNode(n, k) PROVE IInv'
  OBVIOUS
<1> USE BeaconAssumed DEF BeaconAssumption
<1> DEFINE r == [key |-> k,
                 eligibleAfter |-> IF n \in DOMAIN nodes THEN Renewal(n, k) ELSE EpochInvalid,
                 keyEpoch |-> IF n \in DOMAIN nodes /\ nodes[n].key = k
                              THEN nodes[n].keyEpoch ELSE epoch]
<1>1. nodes' = With(nodes, n, r) /\ UNCHANGED <<height, epoch, future, vrf, committee, proofs, failed>>
  BY DEF RegisterNode
<1>2. \A m \in DOMAIN nodes : nodes[m] \in Record
  BY DEF IInv, Timed
<1>3. epoch \in 0..MaxEpoch /\ EpochInvalid \in Nat /\ epoch < EpochInvalid
  BY DEF IInv, Timed, EpochInvalid
<1>4. r \in Record
  <2>1. r.eligibleAfter \in 0..EpochInvalid
    BY <1>2, <1>3 DEF Renewal, Record
  <2>2. r.keyEpoch \in Int
    BY <1>2, <1>3 DEF Record
  <2> QED
    BY <2>1, <2>2 DEF Record
<1>5. /\ DOMAIN nodes' = DOMAIN nodes \cup {n} /\ nodes'[n] = r
      /\ \A m \in DOMAIN nodes : m # n => nodes'[m] = nodes[m]
  <2> HIDE DEF r
  <2> QED
    BY <1>1 DEF With
<1>6. \/ r.eligibleAfter = EpochInvalid /\ r.keyEpoch <= epoch
      \/ n \in DOMAIN nodes /\ r.key = nodes[n].key /\ r.eligibleAfter = nodes[n].eligibleAfter
         /\ r.keyEpoch = nodes[n].keyEpoch
  <2>1. CASE n \in DOMAIN nodes /\ nodes[n].key = k
    BY <2>1 DEF Renewal
  <2>2. CASE ~(n \in DOMAIN nodes /\ nodes[n].key = k)
    BY <1>3, <2>2 DEF Renewal
  <2> QED
    BY <2>1, <2>2
<1> HIDE DEF r
<1>7. Timed'
  <2>1. nodes' \in UNION {[S -> Record] : S \in SUBSET Nodes}
    BY <1>1, <1>4, WithTyped DEF IInv, Timed
  <2> QED
    BY <1>1, <2>1 DEF IInv, Timed
<1>8. EligibleLate'
  BY <1>1, <1>5, <1>6 DEF IInv, EligibleLate
<1>9. ProvedWithKey'
  <2>1. \A m \in DOMAIN vrf.pi \cap DOMAIN nodes' :
            vrf.pi[m] = nodes'[m].key \/ nodes'[m].eligibleAfter = EpochInvalid
    BY <1>5, <1>6 DEF IInv, ProvedWithKey
  <2>2. \A m \in DOMAIN vrf.prev.pi \cap DOMAIN nodes' :
            vrf.prev.pi[m] = nodes'[m].key \/ nodes'[m].eligibleAfter >= epoch
    BY <1>3, <1>5, <1>6 DEF IInv, ProvedWithKey
  <2> QED
    BY <1>1, <2>1, <2>2 DEF ProvedWithKey
<1>10. QualityEarned' /\ BeaconUnbiased'
  BY <1>1 DEF IInv, QualityEarned, BeaconUnbiased, KeyFixedBeforeAlpha, CommitteesNeedProofs
<1> QED
  BY <1>7, <1>8, <1>9, <1>10 DEF IInv

LEMMA RemoveNodeInv == ASSUME NEW n \in Nodes PROVE IInv /\ RemoveNode(n) => IInv'
<1> SUFFICES ASSUME IInv, RemoveNode(n) PROVE IInv'
  OBVIOUS
<1>1. /\ nodes' = [m \in DOMAIN nodes \ {n} |-> nodes[m]]
      /\ UNCHANGED <<height, epoch, future, vrf, committee, proofs, failed>>
  BY DEF RemoveNode
<1>2. Timed'
  <2>1. nodes' \in [DOMAIN nodes \ {n} -> Record] /\ DOMAIN nodes \ {n} \in SUBSET Nodes
    BY <1>1 DEF IInv, Timed
  <2>2. nodes' \in UNION {[S -> Record] : S \in SUBSET Nodes}
    BY <2>1
  <2> QED
    BY <1>1, <2>2 DEF IInv, Timed
<1>3. EligibleLate' /\ ProvedWithKey'
  BY <1>1 DEF IInv, EligibleLate, ProvedWithKey
<1>4. QualityEarned' /\ BeaconUnbiased'
  BY <1>1 DEF IInv, QualityEarned, BeaconUnbiased, KeyFixedBeforeAlpha, CommitteesNeedProofs
<1> QED
  BY <1>2, <1>3, <1>4 DEF IInv

-----------------------------------------------------------------------------
\* The invariant that the other results rest on holds in every reachable state.
THEOREM Invariance == Spec => []IInv
<1>1. IInv /\ [Next]_vars => IInv'
  <2> SUFFICES ASSUME IInv, [Next]_vars PROVE IInv'
    OBVIOUS
  <2>1. CASE UNCHANGED vars
    BY <2>1 DEF vars, IInv, Timed, EligibleLate, ProvedWithKey, QualityEarned, BeaconUnbiased,
                KeyFixedBeforeAlpha, CommitteesNeedProofs
  <2> QED
    BY <2>1, BeginBlockInv, ReelectAfterSlashInv, DoProveTxInv, RegisterNodeInv, RemoveNodeInv DEF Next
<1> QED
  BY <1>1, InitInv, PTL DEF Spec

\* Every variable of the beacon keeps its type; the next transition is always
\* the one of the next epoch, at most an interval away.
THEOREM TypeCorrect == Spec => []TypeOK
<1>1. IInv => TypeOK
  <2> SUFFICES ASSUME IInv PROVE TypeOK
    OBVIOUS
  <2>1. height \in Nat /\ epoch \in 0..MaxEpoch /\ DOMAIN proofs = 0..epoch
    BY DEF IInv, Timed
  <2>2. vrf.epoch = epoch /\ future.epoch = epoch + 1
    BY DEF IInv, Timed
  <2>3. future.height \in height..height + Interval
    BY <2>1, BeaconAssumed DEF IInv, Timed, BeaconAssumption
  <2>4. \A n \in DOMAIN nodes : nodes[n].eligibleAfter \in 0..EpochInvalid
    BY DEF IInv, Timed, Record
  <2>5. DOMAIN vrf.pi \subseteq Nodes
    BY DEF IInv, Timed, Keyed
  <2> QED
    BY <2>1, <2>2, <2>3, <2>4, <2>5 DEF TypeOK
<1> QED
  BY <1>1, Invariance, PTL

\* For every number of nodes and every schedule of registrations, renewals,
\* removals, proofs and slashes, nobody is elected with a key that it could
\* choose knowing the alpha it proves, and committees need proofs.
THEOREM AlwaysUnbiased == Spec => []BeaconUnbiased
<1>1. IInv => BeaconUnbiased
  BY DEF IInv
<1> QED
  BY <1>1, Invariance, PTL

\* BeginBlock never finds that it has missed the height of a transition.
THEOREM TransitionNeverMissed == Spec => [](failed = "ok" /\ future.height > height)
<1>1. IInv => failed = "ok" /\ future.height > height
  BY BeaconAssumed DEF IInv, Timed, BeaconAssumption
<1> QED
  BY <1>1, Invariance, PTL

\* Epochs begin Interval blocks after each other, counted from genesis: neither
\* proofs, registrations nor slashes move a transition.
THEOREM EpochsOnSchedule == Spec => [](future.height = 1 + (epoch + 1) * Interval)
<1> DEFINE OnSchedule == future.height = 1 + (epoch + 1) * Interval
<1>1. Init => OnSchedule
  BY BeaconAssumed DEF BeaconAssumption, Init, ScheduleEpochTransitionBlock
<1>2. IInv /\ OnSchedule /\ [Next]_vars => OnSchedule'
  <2> SUFFICES ASSUME IInv, OnSchedule, [Next]_vars PROVE OnSchedule'
    OBVIOUS
  <2>1. CASE UNCHANGED <<epoch, future>>
    BY <2>1
  <2>2. CASE ~UNCHANGED <<epoch, future>>
    <3>1. /\ future.height = height + 1 /\ epoch' = future.epoch
          /\ future' = ScheduleEpochTransitionBlock(future.epoch + 1, height + 1)
      BY <2>2, Zenon DEF Next, BeginBlock, ReelectAfterSlash, DoProveTx, RegisterNode, RemoveNode, vars
    <3>2. future.epoch = epoch + 1 /\ epoch \in Nat /\ height \in Nat
      BY BeaconAssumed DEF BeaconAssumption, IInv, Timed
    <3>3. future'.height = future.height + Interval
      BY <3>1, BeaconAssumed DEF ScheduleEpochTransitionBlock
    <3>4. \A n, i \in Nat : 1 + (n + 1) * i + i = 1 + (n + 1 + 1) * i
      OBVIOUS
    <3> QED
      BY <3>1, <3>2, <3>3, <3>4, BeaconAssumed DEF BeaconAssumption
  <2> QED
    BY <2>1, <2>2
<1> QED
  BY <1>1, <1>2, Invariance, PTL DEF Spec

-----------------------------------------------------------------------------
(***************************************************************************)
(* Elections (Scheduler), for every set of nodes and entities, every limit   *)
(* and every outcome of the lotteries.  An election only takes the first of  *)
(* each entity in one order and the first overall in another; that this      *)
(* respects stake and limits is counting, done once for orders of any finite *)
(* set.  Committees are sequences in one order of what another order leaves. *)
(***************************************************************************)
CONSTANTS Entities, EntityOf, MaxStake, BaseUnitsPerVotingPower, MinValidators,
          MaxValidators, MaxValidatorsPerEntity, Groups, MaxNodes, ValidatorsOnly

VARIABLES input, pending, current, cometbft, members, stopped

Sch == INSTANCE Scheduler WITH committee <- members, failed <- stopped

\* Seen through the instance, the operators on finite sets are the same ones.
LEMMA SchedulerFinite == ASSUME NEW S PROVE Sch!IsFiniteSet(S) <=> IsFiniteSet(S)
BY DEF Sch!IsFiniteSet, IsFiniteSet

\* The same for the number of elements.
LEMMA SchedulerCardinality == ASSUME NEW S PROVE Sch!Cardinality(S) = Cardinality(S)
BY Zenon DEF Sch!Cardinality, Cardinality

-----------------------------------------------------------------------------
(***************************************************************************)
(* Orders.                                                                   *)
(***************************************************************************)
\* A set of positions has a last one.
LEMMA LastPosition ==
    ASSUME NEW c \in Nat, NEW P \in SUBSET (1..c), P # {}
    PROVE  \E p \in P : \A q \in P : q <= p
<1> DEFINE D == {k \in Nat : \E q \in P : k = c - q}
<1>1. D \subseteq Nat /\ D # {}
  <2>1. PICK q \in P : TRUE
    OBVIOUS
  <2>2. c - q \in Nat
    OBVIOUS
  <2>3. c - q \in D
    BY <2>2
  <2> QED
    BY <2>3
<1>2. PICK d \in D : \A k \in D : <<k, d>> \notin OpToRel(<, Nat)
  <2> HIDE DEF D
  <2> QED
    BY <1>1, NatLessThanWellFounded, WFMin
<1>3. PICK p \in P : d = c - p
  OBVIOUS
<1>4. ASSUME NEW q \in P PROVE q <= p
  <2>1. c - q \in D /\ c - q \in Nat /\ d \in Nat
    OBVIOUS
  <2>2. <<c - q, d>> \notin OpToRel(<, Nat)
    BY <1>2, <2>1
  <2>3. ~(c - q < d)
    BY <2>1, <2>2 DEF OpToRel
  <2> QED
    BY <1>3, <2>1, <2>3
<1> QED
  BY <1>4

\* And a first one.
LEMMA FirstPosition ==
    ASSUME NEW c \in Nat, NEW P \in SUBSET (1..c), P # {}
    PROVE  \E p \in P : \A q \in P : p <= q
<1>1. P \subseteq Nat
  OBVIOUS
<1>2. PICK p \in P : \A q \in P : <<q, p>> \notin OpToRel(<, Nat)
  BY <1>1, NatLessThanWellFounded, WFMin
<1>3. ASSUME NEW q \in P PROVE p <= q
  <2>1. ~(q < p)
    BY <1>1, <1>2 DEF OpToRel
  <2> QED
    BY <2>1
<1> QED
  BY <1>3

\* An order of a finite set is a sequence that holds each of its elements once.
Ordered(f, S) ==
    /\ Cardinality(S) \in Nat /\ f \in [1..Cardinality(S) -> S]
    /\ \A i, j \in 1..Cardinality(S) : f[i] = f[j] => i = j
    /\ \A x \in S : \E i \in 1..Cardinality(S) : f[i] = x
    /\ f \in Seq(S) /\ Len(f) = Cardinality(S) /\ DOMAIN f = 1..Cardinality(S)

LEMMA OrdersOrdered ==
    ASSUME NEW S, IsFiniteSet(S), NEW f \in Sch!Orders(S)
    PROVE  Ordered(f, S) /\ Sch!ToSet(f) = S
<1>1. Cardinality(S) \in Nat
  BY FS_CardinalityType
<1>2. f \in [1..Cardinality(S) -> S] /\ \A i, j \in 1..Cardinality(S) : f[i] = f[j] => i = j
  BY SchedulerCardinality DEF Sch!Orders
<1>3. f \in Injection(1..Cardinality(S), S)
  BY <1>2 DEF Injection, IsInjective
<1>4. Cardinality(1..Cardinality(S)) = Cardinality(S)
  BY <1>1, FS_Interval
<1>5. f \in Surjection(1..Cardinality(S), S)
  BY <1>3, <1>4, FS_Injection
<1>6. \A x \in S : \E i \in 1..Cardinality(S) : f[i] = x
  BY <1>5 DEF Surjection
<1>7. f \in Seq(S) /\ Len(f) = Cardinality(S) /\ DOMAIN f = 1..Cardinality(S)
  BY <1>1, <1>2
<1>8. Sch!ToSet(f) = S
  BY <1>2, <1>6, <1>7 DEF Sch!ToSet
<1> QED
  BY <1>1, <1>2, <1>6, <1>7, <1>8 DEF Ordered

\* Of a set each of whose elements has fewer than k others of the set before it
\* in an order, there are at most k.
LEMMA FewBefore ==
    ASSUME NEW T, IsFiniteSet(T), NEW f, Ordered(f, T), NEW S \in SUBSET T, NEW k \in Nat,
           \A n \in S : Cardinality({m \in S : Sch!Before(f, m, n)}) < k
    PROVE  Cardinality(S) <= k
<1>1. IsFiniteSet(S) /\ Cardinality(S) \in Nat
  BY FS_Subset, FS_CardinalityType
<1>2. CASE S = {}
  BY <1>2, FS_EmptySet
<1>3. CASE S # {}
  <2> DEFINE c == Cardinality(T)
             P == {i \in 1..c : f[i] \in S}
  <2>1. c \in Nat /\ P \subseteq 1..c /\ P # {}
    BY <1>3 DEF Ordered
  <2>2. PICK p \in P : \A q \in P : q <= p
    <3> HIDE DEF P, c
    <3> QED
      BY <2>1, LastPosition
  <2> DEFINE n == f[p]
             B == {m \in S : Sch!Before(f, m, n)}
  <2>3. n \in S /\ B \subseteq S
    OBVIOUS
  <2>4. ASSUME NEW m \in S, m # n PROVE m \in B
    <3>1. PICK i \in 1..c : f[i] = m
      BY DEF Ordered
    <3>2. i < p
      BY <2>2, <2>4, <3>1
    <3>3. Sch!Before(f, m, n)
      BY <3>1, <3>2 DEF Sch!Before, Ordered
    <3> QED
      BY <3>3
  <2>5. S \ {n} \subseteq B
    BY <2>4
  <2>6. IsFiniteSet(B) /\ Cardinality(B) \in Nat
    BY <1>1, <2>3, FS_Subset, FS_CardinalityType
  <2>7. Cardinality(S \ {n}) <= Cardinality(B)
    BY <2>5, <2>6, FS_Subset
  <2>8. Cardinality(S \ {n}) = Cardinality(S) - 1
    BY <1>1, <2>3, FS_RemoveElement
  <2>9. Cardinality(B) < k
    BY <2>3
  <2> HIDE DEF B, n
  <2> QED
    BY <1>1, <2>6, <2>7, <2>8, <2>9
<1> QED
  BY <1>2, <1>3

-----------------------------------------------------------------------------
(***************************************************************************)
(* The election of validators.                                               *)
(***************************************************************************)
\* The first k nodes of each entity are at most k of each entity.
LEMMA FirstFew ==
    ASSUME NEW T, IsFiniteSet(T), NEW f \in Sch!Orders(T), NEW k \in Nat, NEW e
    PROVE  /\ Sch!FirstOfEntities(f, k) \subseteq T
           /\ Cardinality({n \in Sch!FirstOfEntities(f, k) : EntityOf[n] = e}) <= k
<1>0. Ordered(f, T) /\ Sch!ToSet(f) = T
  BY OrdersOrdered
<1>1. Sch!FirstOfEntities(f, k) =
          {n \in T : Cardinality({m \in T : EntityOf[m] = EntityOf[n] /\ Sch!Before(f, m, n)}) < k}
  BY <1>0, SchedulerCardinality DEF Sch!FirstOfEntities
<1> DEFINE S == {n \in Sch!FirstOfEntities(f, k) : EntityOf[n] = e}
<1>2. S \in SUBSET T
  BY <1>1
<1>3. ASSUME NEW n \in S PROVE Cardinality({m \in S : Sch!Before(f, m, n)}) < k
  <2> DEFINE A == {m \in S : Sch!Before(f, m, n)}
             B == {m \in T : EntityOf[m] = EntityOf[n] /\ Sch!Before(f, m, n)}
  <2>1. A \subseteq B /\ B \subseteq T
    BY <1>2
  <2>2. Cardinality(B) < k
    BY <1>1
  <2>3. IsFiniteSet(B) /\ IsFiniteSet(A) /\ Cardinality(A) <= Cardinality(B)
    BY <2>1, FS_Subset
  <2>4. Cardinality(A) \in Nat /\ Cardinality(B) \in Nat
    BY <2>3, FS_CardinalityType
  <2> HIDE DEF A, B
  <2>5. Cardinality(A) < k
    BY <2>2, <2>3, <2>4
  <2> QED
    BY <2>5 DEF A
<1>4. Cardinality(S) <= k
  <2> HIDE DEF S
  <2> QED
    BY <1>0, <1>2, <1>3, FewBefore
<1> QED
  BY <1>1, <1>4

Candidates(o) == Sch!FirstOfEntities(o, MaxValidatorsPerEntity)

Ahead(e, o, n) ==
    {m \in Candidates(o) : \/ Sch!Before(e, EntityOf[m], EntityOf[n])
                           \/ EntityOf[m] = EntityOf[n] /\ Sch!Before(o, m, n)}

LEMMA ElectLoopIs ==
    ASSUME NEW e, NEW o
    PROVE  Sch!ElectLoop(e, o) =
               {n \in Candidates(o) : Ahead(e, o, n) = {} \/ Cardinality(Ahead(e, o, n)) < MaxValidators}
BY SchedulerCardinality DEF Sch!ElectLoop, Candidates, Ahead

\* What an election finds.
LEMMA ElectionInput ==
    ASSUME Sch!SchedulerAssumption, NEW in \in Sch!Inputs
    PROVE  /\ IsFiniteSet(Nodes) /\ EntityOf \in [Nodes -> Entities]
           /\ in.stake \in [Entities -> 0..MaxStake] /\ in.claims = [x \in Entities |-> 1]
           /\ Sch!EligibleValidators(in) \subseteq Nodes
           /\ Sch!ShuffledValidators(in) \subseteq Sch!EligibleValidators(in)
           /\ IsFiniteSet(Sch!EligibleValidators(in)) /\ IsFiniteSet(Sch!ShuffledValidators(in))
<1>1. IsFiniteSet(Nodes) /\ EntityOf \in [Nodes -> Entities]
  BY SchedulerFinite DEF Sch!SchedulerAssumption
<1>2. in.stake \in [Entities -> 0..MaxStake] /\ in.claims = [x \in Entities |-> 1]
  BY DEF Sch!Inputs
<1>3. Sch!EligibleValidators(in) \subseteq Nodes
  BY DEF Sch!EligibleValidators
<1>4. Sch!ShuffledValidators(in) \subseteq Sch!EligibleValidators(in)
  BY DEF Sch!ShuffledValidators
<1>5. IsFiniteSet(Sch!EligibleValidators(in))
  BY <1>1, <1>3, FS_Subset
<1>6. IsFiniteSet(Sch!ShuffledValidators(in))
  BY <1>4, <1>5, FS_Subset
<1> QED
  BY <1>1, <1>2, <1>3, <1>4, <1>5, <1>6

\* The entities of a finite set of nodes are finitely many.
LEMMA EntitiesFinite ==
    ASSUME NEW T, IsFiniteSet(T)
    PROVE  IsFiniteSet({EntityOf[n] : n \in T})
<1> DEFINE E == {EntityOf[n] : n \in T}
           f == [n \in T |-> EntityOf[n]]
<1>1. f \in Surjection(T, E)
  BY DEF Surjection
<1> QED
  BY <1>1, FS_Surjection

\* An entity none of whose nodes was elected, although one took part in the
\* shuffle, has no more stake than one with a validator.
LEMMA HighestFirst ==
    ASSUME Sch!SchedulerAssumption, NEW in \in Sch!Inputs, NEW e \in Sch!ByStake(in),
           NEW o \in Sch!Orders(Sch!ShuffledValidators(in)),
           NEW n \in Sch!ElectLoop(e, o), NEW m \in Sch!ShuffledValidators(in),
           EntityOf[m] \notin {EntityOf[x] : x \in Sch!ElectLoop(e, o)}
    PROVE  in.stake[EntityOf[m]] <= in.stake[EntityOf[n]]
<1> DEFINE T == Sch!ShuffledValidators(in)
           E == {EntityOf[x] : x \in Sch!EligibleValidators(in)}
           a == EntityOf[m]
           b == EntityOf[n]
<1>1. /\ IsFiniteSet(T) /\ T \subseteq Sch!EligibleValidators(in) /\ Sch!EligibleValidators(in) \subseteq Nodes
      /\ EntityOf \in [Nodes -> Entities] /\ in.stake \in [Entities -> 0..MaxStake]
      /\ IsFiniteSet(Sch!EligibleValidators(in))
  BY ElectionInput
<1>2. Ordered(o, T) /\ Sch!ToSet(o) = T
  BY <1>1, OrdersOrdered
<1>3. e \in Sch!Orders(E)
  BY DEF Sch!ByStake
<1>4. Ordered(e, E)
  BY <1>1, <1>3, EntitiesFinite, OrdersOrdered
<1>5. \A i, j \in 1..Cardinality(E) : i < j => in.stake[e[i]] >= in.stake[e[j]]
  BY <1>4 DEF Sch!ByStake, Ordered
<1>6. Candidates(o) = {x \in T : Cardinality({y \in T : EntityOf[y] = EntityOf[x] /\ Sch!Before(o, y, x)})
                                    < MaxValidatorsPerEntity}
  BY <1>2, SchedulerCardinality DEF Candidates, Sch!FirstOfEntities
<1>7. n \in Candidates(o) /\ (Ahead(e, o, n) = {} \/ Cardinality(Ahead(e, o, n)) < MaxValidators)
  BY ElectLoopIs
<1>8. n \in T /\ a \in E /\ b \in E /\ a \in Entities /\ b \in Entities
  BY <1>1, <1>6, <1>7
<1>9. MaxValidatorsPerEntity \in Nat \ {0} /\ MaxValidators \in Nat
  <2> DEFINE Y == {y \in T : EntityOf[y] = EntityOf[n] /\ Sch!Before(o, y, n)}
  <2>1. Y \subseteq T /\ Cardinality(Y) < MaxValidatorsPerEntity
    BY <1>6, <1>7
  <2>2. IsFiniteSet(Y) /\ Cardinality(Y) \in Nat
    BY <1>1, <2>1, FS_Subset, FS_CardinalityType
  <2>3. MaxValidatorsPerEntity \in Nat /\ MaxValidators \in Nat
    BY DEF Sch!SchedulerAssumption
  <2> HIDE DEF Y
  <2> QED
    BY <2>1, <2>2, <2>3
<1> SUFFICES ASSUME ~(in.stake[a] <= in.stake[b]) PROVE FALSE
  OBVIOUS
<1>10. PICK ia \in 1..Cardinality(E), ib \in 1..Cardinality(E) : e[ia] = a /\ e[ib] = b
  <2> HIDE DEF E
  <2> QED
    BY <1>4, <1>8 DEF Ordered
<1>11. in.stake[a] \in Int /\ in.stake[b] \in Int
  BY <1>1, <1>8
<1>12. ia < ib
  <2>1. ia # ib
    BY <1>10, <1>11
  <2>2. ~(ib < ia)
    BY <1>5, <1>10, <1>11
  <2>3. ia \in Int /\ ib \in Int
    OBVIOUS
  <2> QED
    BY <2>1, <2>2, <2>3
<1> DEFINE P == {i \in 1..Cardinality(T) : EntityOf[o[i]] = a}
<1>13. PICK p \in P : \A q \in P : p <= q
  <2>1. Cardinality(T) \in Nat /\ P \in SUBSET (1..Cardinality(T)) /\ P # {}
    BY <1>2 DEF Ordered
  <2> HIDE DEF P, T
  <2> QED
    BY <2>1, FirstPosition
<1> DEFINE m0 == o[p]
<1>14. m0 \in T /\ EntityOf[m0] = a
  BY <1>2 DEF Ordered
<1>15. ASSUME NEW x, EntityOf[x] = a, Sch!Before(o, x, m0) PROVE FALSE
  <2>1. PICK i \in 1..Cardinality(T), j \in 1..Cardinality(T) : i < j /\ o[i] = x /\ o[j] = m0
    BY <1>2, <1>15 DEF Sch!Before, Ordered
  <2>2. j = p
    BY <1>2, <2>1 DEF Ordered
  <2>3. i \in P
    BY <1>15, <2>1
  <2> QED
    BY <1>13, <2>1, <2>2, <2>3
<1>16. m0 \in Candidates(o)
  <2>1. {y \in T : EntityOf[y] = EntityOf[m0] /\ Sch!Before(o, y, m0)} = {}
    BY <1>14, <1>15
  <2>2. Cardinality({y \in T : EntityOf[y] = EntityOf[m0] /\ Sch!Before(o, y, m0)}) = 0
    BY <2>1, FS_EmptySet
  <2>3. Cardinality({y \in T : EntityOf[y] = EntityOf[m0] /\ Sch!Before(o, y, m0)}) < MaxValidatorsPerEntity
    BY <1>9, <2>2
  <2> HIDE DEF m0, T
  <2> QED
    BY <1>6, <1>14, <2>3
<1>17. Ahead(e, o, m0) \subseteq Ahead(e, o, n)
  <2> SUFFICES ASSUME NEW x \in Ahead(e, o, m0) PROVE x \in Ahead(e, o, n)
    OBVIOUS
  <2>1. x \in Candidates(o) /\ Sch!Before(e, EntityOf[x], a)
    BY <1>14, <1>15 DEF Ahead
  <2>2. PICK i \in 1..Cardinality(E), j \in 1..Cardinality(E) : i < j /\ e[i] = EntityOf[x] /\ e[j] = a
    <3> HIDE DEF E
    <3> QED
      BY <1>4, <2>1 DEF Sch!Before, Ordered
  <2>3. j = ia
    <3> HIDE DEF E
    <3> QED
      BY <1>4, <1>10, <2>2 DEF Ordered
  <2>4. i < ib
    BY <1>12, <2>2, <2>3
  <2>5. Sch!Before(e, EntityOf[x], b)
    <3> HIDE DEF E
    <3> QED
      BY <1>4, <1>10, <2>2, <2>4 DEF Sch!Before, Ordered
  <2> QED
    BY <2>1, <2>5 DEF Ahead
<1>18. m0 \in Sch!ElectLoop(e, o)
  <2>1. CASE Ahead(e, o, n) = {}
    BY <1>16, <1>17, <2>1, ElectLoopIs
  <2>2. CASE Cardinality(Ahead(e, o, n)) < MaxValidators
    <3>1. Ahead(e, o, n) \subseteq T
      BY <1>6 DEF Ahead
    <3>2. IsFiniteSet(Ahead(e, o, n))
      BY <1>1, <3>1, FS_Subset
    <3>3. IsFiniteSet(Ahead(e, o, m0)) /\ Cardinality(Ahead(e, o, m0)) <= Cardinality(Ahead(e, o, n))
      BY <1>17, <3>2, FS_Subset
    <3>4. Cardinality(Ahead(e, o, m0)) \in Nat /\ Cardinality(Ahead(e, o, n)) \in Nat
      BY <3>2, <3>3, FS_CardinalityType
    <3>5. Cardinality(Ahead(e, o, m0)) < MaxValidators
      <4> HIDE DEF m0
      <4> QED
        BY <1>9, <2>2, <3>3, <3>4
    <3> QED
      BY <1>16, <3>5, ElectLoopIs
  <2> QED
    BY <1>7, <2>1, <2>2
<1> QED
  BY <1>14, <1>18

-----------------------------------------------------------------------------
\* What an election of validators yields.
LEMMA ValidatorsElected ==
    ASSUME Sch!SchedulerAssumption, NEW in \in Sch!Inputs, NEW V \in Sch!ValidatorOutcomes(in)
    PROVE  /\ V \subseteq Sch!EligibleValidators(in) /\ V \subseteq Nodes
           /\ \A x : Cardinality({n \in V : EntityOf[n] = x}) <= MaxValidatorsPerEntity
           /\ \A n \in V, m \in Sch!ShuffledValidators(in) :
                  EntityOf[m] \notin {EntityOf[x] : x \in V} => in.stake[EntityOf[m]] <= in.stake[EntityOf[n]]
<1>1. PICK e \in Sch!ByStake(in), o \in Sch!Orders(Sch!ShuffledValidators(in)) : V = Sch!ElectLoop(e, o)
  BY DEF Sch!ValidatorOutcomes
<1>2. /\ IsFiniteSet(Sch!ShuffledValidators(in)) /\ Sch!EligibleValidators(in) \subseteq Nodes
      /\ Sch!ShuffledValidators(in) \subseteq Sch!EligibleValidators(in)
  BY ElectionInput
<1>3. MaxValidatorsPerEntity \in Nat
  BY DEF Sch!SchedulerAssumption
<1>4. /\ Candidates(o) \subseteq Sch!ShuffledValidators(in)
      /\ \A x : Cardinality({n \in Candidates(o) : EntityOf[n] = x}) <= MaxValidatorsPerEntity
  <2>1. \A x : /\ Sch!FirstOfEntities(o, MaxValidatorsPerEntity) \subseteq Sch!ShuffledValidators(in)
               /\ Cardinality({n \in Sch!FirstOfEntities(o, MaxValidatorsPerEntity) : EntityOf[n] = x}) <= MaxValidatorsPerEntity
    BY <1>2, <1>3, FirstFew
  <2> QED
    BY <2>1 DEF Candidates
<1>5. V \subseteq Candidates(o)
  BY <1>1, ElectLoopIs
<1>6. ASSUME NEW x PROVE Cardinality({n \in V : EntityOf[n] = x}) <= MaxValidatorsPerEntity
  <2> DEFINE A == {n \in V : EntityOf[n] = x}
             B == {n \in Candidates(o) : EntityOf[n] = x}
  <2>1. A \subseteq B /\ B \subseteq Sch!ShuffledValidators(in) /\ Cardinality(B) <= MaxValidatorsPerEntity
    BY <1>4, <1>5
  <2> HIDE DEF A, B
  <2>2. IsFiniteSet(B)
    BY <1>2, <2>1, FS_Subset
  <2>3. IsFiniteSet(A) /\ Cardinality(A) <= Cardinality(B)
    BY <2>1, <2>2, FS_Subset
  <2>4. Cardinality(A) \in Nat /\ Cardinality(B) \in Nat
    BY <2>2, <2>3, FS_CardinalityType
  <2>5. Cardinality(A) <= MaxValidatorsPerEntity
    BY <1>3, <2>1, <2>3, <2>4
  <2> QED
    BY <2>5 DEF A
<1>7. \A n \in V, m \in Sch!ShuffledValidators(in) :
          EntityOf[m] \notin {EntityOf[x] : x \in V} => in.stake[EntityOf[m]] <= in.stake[EntityOf[n]]
  BY <1>1, HighestFirst
<1>8. V \subseteq Sch!EligibleValidators(in) /\ V \subseteq Nodes
  BY <1>2, <1>4, <1>5
<1> QED
  BY <1>6, <1>7, <1>8

\* Whole units of a stake that has at least one.
LEMMA WholeUnits ==
    ASSUME NEW s \in Nat, NEW u \in Nat \ {0}, u <= s
    PROVE  s \div u \in 1..s
<1>1. s \div u \in Int /\ u * (s \div u) <= s /\ s < u * (s \div u) + u
  OBVIOUS
<1> DEFINE q == s \div u
<1>2. q \in Int /\ u * q <= s /\ s < u * q + u
  BY <1>1
<1> HIDE DEF q
<1>3. q >= 1
  <2> SUFFICES ASSUME q <= 0 PROVE FALSE
    BY <1>2
  <2>1. u * q <= 0
    BY <1>2
  <2> QED
    BY <1>2, <2>1
<1>4. q <= u * q
  <2>1. PICK v \in Nat : u = v + 1
    OBVIOUS
  <2>2. u * q = v * q + q /\ v * q >= 0
    BY <1>2, <1>3, <2>1
  <2> QED
    BY <1>2, <2>2
<1>5. q \in 1..s
  BY <1>2, <1>3, <1>4
<1> QED
  BY <1>5 DEF q

\* A validator has some power, and no more than its entity has stake.
LEMMA PowersTyped ==
    ASSUME Sch!SchedulerAssumption, NEW in \in Sch!Inputs, NEW V \in SUBSET Sch!EligibleValidators(in)
    PROVE  Sch!ElectedPowers(in, V) \in [V -> 1..MaxStake]
<1> SUFFICES ASSUME NEW n \in V PROVE Sch!VotingPowerFromStake(in.stake[EntityOf[n]]) \in 1..MaxStake
  BY DEF Sch!ElectedPowers
<1>1. /\ EntityOf \in [Nodes -> Entities] /\ in.stake \in [Entities -> 0..MaxStake]
      /\ in.claims = [x \in Entities |-> 1] /\ Sch!EligibleValidators(in) \subseteq Nodes
  BY ElectionInput
<1>2. EntityOf[n] \in Entities /\ in.stake[EntityOf[n]] >= 1
  BY <1>1 DEF Sch!EligibleValidators, Sch!CheckStakeClaims
<1>3. MaxStake \in Nat /\ BaseUnitsPerVotingPower \in Nat \ {0}
  BY DEF Sch!SchedulerAssumption
<1>4. PICK s \in 1..MaxStake : in.stake[EntityOf[n]] = s
  BY <1>1, <1>2, <1>3
<1>5. CASE s < BaseUnitsPerVotingPower
  BY <1>3, <1>4, <1>5 DEF Sch!VotingPowerFromStake
<1>6. CASE ~(s < BaseUnitsPerVotingPower)
  <2>1. s \div BaseUnitsPerVotingPower \in 1..s
    BY <1>3, <1>6, WholeUnits
  <2>2. s \div BaseUnitsPerVotingPower \in 1..MaxStake
    BY <1>3, <2>1
  <2> QED
    BY <1>4, <1>6, <2>2 DEF Sch!VotingPowerFromStake
<1> QED
  BY <1>5, <1>6

\* Applied to the current set, the differences give the pending one.
LEMMA DifferencesApplied ==
    ASSUME NEW C, NEW cur \in [C -> 1..MaxStake], NEW Q, NEW pend \in [Q -> 1..MaxStake], MaxStake \in Nat
    PROVE  Sch!ApplyUpdates(cur, Sch!DiffValidators(cur, pend)) = pend
<1> DEFINE D == (C \ Q) \cup {m \in Q : m \notin C \/ cur[m] # pend[m]}
           upd == [n \in D |-> IF n \in Q THEN pend[n] ELSE 0]
           all == [n \in C \cup D |-> IF n \in D THEN upd[n] ELSE cur[n]]
           A == {m \in C \cup D : all[m] > 0}
<1>1. Sch!DiffValidators(cur, pend) = upd
  BY DEF Sch!DiffValidators
<1>2. Sch!ApplyUpdates(cur, upd) = [n \in A |-> all[n]]
  BY DEF Sch!ApplyUpdates
<1>3. ASSUME NEW n \in C \cup D PROVE all[n] = IF n \in Q THEN pend[n] ELSE 0
  OBVIOUS
<1>4. Q \subseteq C \cup D
  OBVIOUS
<1>5. A = Q
  <2>1. \A n \in Q : pend[n] > 0
    OBVIOUS
  <2> HIDE DEF all, D
  <2> QED
    BY <1>3, <1>4, <2>1
<1>6. \A n \in Q : all[n] = pend[n]
  <2> HIDE DEF all, D
  <2> QED
    BY <1>3, <1>4
<1>7. [n \in A |-> all[n]] = [n \in Q |-> pend[n]]
  <2> HIDE DEF all, A
  <2> QED
    BY <1>5, <1>6
<1>8. [n \in Q |-> pend[n]] = pend
  OBVIOUS
<1> QED
  BY <1>1, <1>2, <1>7, <1>8

-----------------------------------------------------------------------------
(***************************************************************************)
(* The election of a committee.                                              *)
(***************************************************************************)
Roles == {"worker", "backup"}

\* Sequences as functions.
LEMMA SeqIs ==
    ASSUME NEW M, NEW n \in Nat, NEW s \in [1..n -> M]
    PROVE  s \in Seq(M) /\ Len(s) = n
OBVIOUS

LEMMA ConcatIs ==
    ASSUME NEW M, NEW m \in Nat, NEW n \in Nat, NEW s \in [1..m -> M], NEW t \in [1..n -> M]
    PROVE  /\ s \o t \in Seq(M) /\ Len(s \o t) = m + n /\ DOMAIN (s \o t) = 1..(m + n)
           /\ \A i \in 1..m : (s \o t)[i] = s[i]
           /\ \A i \in (m + 1)..(m + n) : (s \o t)[i] = t[i - m] /\ i - m \in 1..n
<1>1. s \in Seq(M) /\ Len(s) = m /\ t \in Seq(M) /\ Len(t) = n
  BY SeqIs
<1> QED
  BY <1>1

\* The members of one role: nodes of the pool, none of them twice, and within
\* the limit on an entity.
Group(w, r, pool) ==
    /\ w \in [1..Groups[r] -> [node : pool, role : {r}]]
    /\ \A i, j \in 1..Groups[r] : w[i].node = w[j].node => i = j
    /\ \E D \in SUBSET pool :
          /\ \A i \in 1..Groups[r] : w[i].node \in D
          /\ MaxNodes > 0 => \A x : Cardinality({n \in D : EntityOf[n] = x}) <= MaxNodes

LEMMA GroupElected ==
    ASSUME Sch!SchedulerAssumption, NEW pool \in SUBSET Nodes, NEW r \in Roles,
           NEW w \in Sch!RoleOutcomes(pool, r), Len(w) = Groups[r]
    PROVE  Group(w, r, pool)
<1>0. PICK d \in Sch!Orders(pool) : \E o \in Sch!Orders(Sch!DedupEntityNodes(d)) : w = Sch!ElectRole(r, o)
  BY DEF Sch!RoleOutcomes
<1>1. PICK o \in Sch!Orders(Sch!DedupEntityNodes(d)) : w = Sch!ElectRole(r, o)
  BY <1>0
<1> DEFINE D == Sch!DedupEntityNodes(d)
<1>2. IsFiniteSet(pool) /\ MaxNodes \in Nat /\ Groups[r] \in Nat
  BY SchedulerFinite, FS_Subset DEF Sch!SchedulerAssumption, Roles
<1>3. Sch!ToSet(d) = pool
  BY <1>2, OrdersOrdered
<1>4. D \subseteq pool /\ (MaxNodes > 0 => \A x : Cardinality({n \in D : EntityOf[n] = x}) <= MaxNodes)
  <2>1. CASE MaxNodes = 0
    BY <1>3, <2>1 DEF Sch!DedupEntityNodes
  <2>2. CASE MaxNodes # 0
    <3>1. D = Sch!FirstOfEntities(d, MaxNodes)
      BY <2>2 DEF Sch!DedupEntityNodes
    <3>2. D \subseteq pool
      <4> HIDE DEF D
      <4> QED
        BY <1>2, <3>1, FirstFew
    <3>3. \A x : /\ Sch!FirstOfEntities(d, MaxNodes) \subseteq pool
                 /\ Cardinality({n \in Sch!FirstOfEntities(d, MaxNodes) : EntityOf[n] = x}) <= MaxNodes
      BY <1>2, FirstFew
    <3> HIDE DEF D
    <3> QED
      BY <3>1, <3>2, <3>3
  <2> QED
    BY <2>1, <2>2
<1>5. IsFiniteSet(D)
  BY <1>2, <1>4, FS_Subset
<1> HIDE DEF D
<1>6. Ordered(o, D)
  BY <1>1, <1>5, OrdersOrdered DEF D
<1>7. ~(Len(o) < Groups[r])
  <2> SUFFICES ASSUME Len(o) < Groups[r] PROVE FALSE
    OBVIOUS
  <2>1. w = <<>> /\ Len(w) = 0
    BY <1>1 DEF Sch!ElectRole
  <2>2. Len(o) \in Nat
    BY <1>6 DEF Ordered
  <2> QED
    BY <1>2, <2>1, <2>2
<1>8. w = [i \in 1..Groups[r] |-> [node |-> o[i], role |-> r]]
  BY <1>1, <1>7 DEF Sch!ElectRole
<1>9. \A i \in 1..Groups[r] : i \in 1..Cardinality(D) /\ o[i] \in D
  BY <1>2, <1>6, <1>7 DEF Ordered
<1>10. \A i, j \in 1..Groups[r] : o[i] = o[j] => i = j
  BY <1>6, <1>9 DEF Ordered
<1>11. w \in [1..Groups[r] -> [node : pool, role : {r}]]
  BY <1>4, <1>8, <1>9
<1>13. \A i \in 1..Groups[r] : w[i].node = o[i]
  BY <1>8
<1>14. \A i, j \in 1..Groups[r] : w[i].node = w[j].node => i = j
  BY <1>10, <1>13
<1>15. \A i \in 1..Groups[r] : w[i].node \in D
  BY <1>9, <1>13
<1> QED
  BY <1>4, <1>11, <1>14, <1>15 DEF Group

\* The committee, whoever its validators are.
MembersRight(c) ==
    /\ c \in Seq([node : Nodes, role : Roles])
    /\ c # <<>> =>
          /\ Len(c) = Groups["worker"] + Groups["backup"]
          /\ \A i \in DOMAIN c : c[i].role = "worker" <=> i <= Groups["worker"]
          /\ \A i, j \in DOMAIN c : c[i] = c[j] => i = j
    /\ MaxNodes > 0 => \A x \in Entities, r \in Roles :
          Cardinality({i \in DOMAIN c : c[i].role = r /\ EntityOf[c[i].node] = x}) <= MaxNodes

\* Members of one role with nodes from a set are no more than that set.
LEMMA CountedByNode ==
    ASSUME NEW I, NEW D, IsFiniteSet(D), NEW f \in [I -> D], \A i, j \in I : f[i] = f[j] => i = j,
           NEW k \in Nat, Cardinality(D) <= k
    PROVE  Cardinality(I) <= k
<1>1. f \in Injection(I, D)
  BY DEF Injection, IsInjective
<1>2. IsFiniteSet(I) /\ Cardinality(I) <= Cardinality(D)
  BY <1>1, FS_Injection
<1>3. Cardinality(I) \in Nat /\ Cardinality(D) \in Nat
  BY <1>2, FS_CardinalityType
<1> QED
  BY <1>2, <1>3

\* No committee is right.
LEMMA NoMembers == ASSUME Sch!SchedulerAssumption PROVE MembersRight(<<>>)
<1>1. \A x, r : {i \in DOMAIN <<>> : <<>>[i].role = r /\ EntityOf[<<>>[i].node] = x} = {}
  OBVIOUS
<1>2. \A x, r : Cardinality({i \in DOMAIN <<>> : <<>>[i].role = r /\ EntityOf[<<>>[i].node] = x}) = 0
  BY <1>1, FS_EmptySet
<1>3. MaxNodes \in Nat
  BY DEF Sch!SchedulerAssumption
<1> QED
  BY <1>2, <1>3 DEF MembersRight

LEMMA CommitteeElected ==
    ASSUME Sch!SchedulerAssumption, NEW pool \in SUBSET Nodes,
           NEW w \in Sch!RoleOutcomes(pool, "worker"), NEW b \in Sch!RoleOutcomes(pool, "backup"),
           NEW c, c = Sch!Assemble(w, b)
    PROVE  MembersRight(c) /\ \A i \in DOMAIN c : c[i].node \in pool
<1>1. CASE Groups["worker"] = 0 \/ Len(w) # Groups["worker"] \/ Len(b) # Groups["backup"]
  <2>1. c = <<>>
    BY <1>1 DEF Sch!Assemble
  <2> QED
    BY <2>1, NoMembers
<1>2. CASE ~(Groups["worker"] = 0 \/ Len(w) # Groups["worker"] \/ Len(b) # Groups["backup"])
  <2> DEFINE g == Groups["worker"]
             h == Groups["backup"]
  <2>1. g \in Nat /\ h \in Nat /\ MaxNodes \in Nat /\ IsFiniteSet(Nodes)
    BY SchedulerFinite DEF Sch!SchedulerAssumption
  <2>2. c = w \o b /\ Len(w) = g /\ Len(b) = h
    BY <1>2 DEF Sch!Assemble
  <2>3. Group(w, "worker", pool) /\ Group(b, "backup", pool)
    BY <2>2, GroupElected DEF Roles
  <2>4. /\ w \in [1..g -> [node : pool, role : {"worker"}]] /\ b \in [1..h -> [node : pool, role : {"backup"}]]
        /\ \A i, j \in 1..g : w[i].node = w[j].node => i = j
        /\ \A i, j \in 1..h : b[i].node = b[j].node => i = j
    BY <2>3 DEF Group
  <2>5. w \in [1..g -> [node : Nodes, role : Roles]] /\ b \in [1..h -> [node : Nodes, role : Roles]]
    <3>1. [node : pool, role : {"worker"}] \subseteq [node : Nodes, role : Roles]
      BY DEF Roles
    <3>2. [node : pool, role : {"backup"}] \subseteq [node : Nodes, role : Roles]
      BY DEF Roles
    <3> QED
      BY <2>4, <3>1, <3>2
  <2>6. c \in Seq([node : Nodes, role : Roles]) /\ Len(c) = g + h /\ DOMAIN c = 1..(g + h)
    <3> DEFINE M == [node : Nodes, role : Roles]
    <3>1. w \in [1..g -> M] /\ b \in [1..h -> M]
      BY <2>5
    <3> HIDE DEF M, g, h
    <3>2. w \o b \in Seq(M) /\ Len(w \o b) = g + h /\ DOMAIN (w \o b) = 1..(g + h)
      BY <2>1, <3>1, ConcatIs
    <3> QED
      BY <2>2, <3>2 DEF M
  <2>7. \A i \in 1..g : c[i] = w[i]
    BY <2>1, <2>2, <2>5, ConcatIs
  <2>8. \A i \in (g + 1)..(g + h) : c[i] = b[i - g] /\ i - g \in 1..h
    BY <2>1, <2>2, <2>5, ConcatIs
  <2>9. \A i \in 1..(g + h) : \/ i \in 1..g /\ c[i].role = "worker" /\ c[i].node \in pool
                              \/ i \in (g + 1)..(g + h) /\ c[i].role = "backup" /\ c[i].node \in pool
    <3>1. \A i \in 1..g : w[i].role = "worker" /\ w[i].node \in pool
      BY <2>4
    <3>2. \A i \in 1..h : b[i].role = "backup" /\ b[i].node \in pool
      BY <2>4
    <3> QED
      BY <2>1, <2>7, <2>8, <3>1, <3>2
  <2>10. \A i \in DOMAIN c : c[i].role = "worker" <=> i <= g
    BY <2>1, <2>6, <2>9
  <2>11. ASSUME NEW i \in 1..(g + h), NEW j \in 1..(g + h), c[i].role = c[j].role, c[i].node = c[j].node PROVE i = j
    <3>1. CASE i \in 1..g
      <4>1. j \in 1..g
        BY <2>1, <2>9, <2>11, <3>1
      <4> QED
        BY <2>4, <2>7, <2>11, <3>1, <4>1
    <3>2. CASE i \in (g + 1)..(g + h)
      <4>1. j \in (g + 1)..(g + h)
        BY <2>1, <2>9, <2>11, <3>2
      <4>2. i - g = j - g
        BY <2>4, <2>8, <2>11, <3>2, <4>1
      <4> QED
        BY <2>1, <4>2
    <3> QED
      BY <2>9, <3>1, <3>2
  <2>12. \A i, j \in DOMAIN c : c[i] = c[j] => i = j
    BY <2>6, <2>11
  <2>13. ASSUME MaxNodes > 0, NEW x \in Entities, NEW r \in Roles
         PROVE  Cardinality({i \in DOMAIN c : c[i].role = r /\ EntityOf[c[i].node] = x}) <= MaxNodes
    <3> DEFINE I == {i \in DOMAIN c : c[i].role = r /\ EntityOf[c[i].node] = x}
    <3>1. PICK D \in SUBSET pool : /\ \A i \in I : c[i].node \in D
                                   /\ \A y : Cardinality({n \in D : EntityOf[n] = y}) <= MaxNodes
      <4>1. CASE r = "worker"
        <5>1. PICK D \in SUBSET pool : /\ \A i \in 1..g : w[i].node \in D
                                       /\ \A y : Cardinality({n \in D : EntityOf[n] = y}) <= MaxNodes
          BY <2>3, <2>13 DEF Group
        <5>2. \A i \in I : i \in 1..g
          BY <2>6, <2>9, <4>1
        <5>3. \A i \in I : c[i].node \in D
          BY <2>7, <5>1, <5>2
        <5> QED
          BY <5>1, <5>3
      <4>2. CASE r = "backup"
        <5>1. PICK D \in SUBSET pool : /\ \A i \in 1..h : b[i].node \in D
                                       /\ \A y : Cardinality({n \in D : EntityOf[n] = y}) <= MaxNodes
          BY <2>3, <2>13 DEF Group
        <5>2. \A i \in I : i \in (g + 1)..(g + h)
          BY <2>6, <2>9, <4>2
        <5>3. \A i \in I : c[i].node \in D
          BY <2>8, <5>1, <5>2
        <5> QED
          BY <5>1, <5>3
      <4> QED
        BY <4>1, <4>2 DEF Roles
    <3> DEFINE X == {n \in D : EntityOf[n] = x}
               f == [i \in I |-> c[i].node]
    <3>2. X \subseteq Nodes /\ Cardinality(X) <= MaxNodes
      BY <3>1
    <3>3. IsFiniteSet(X)
      BY <2>1, <3>2, FS_Subset
    <3>4. f \in [I -> X]
      BY <3>1
    <3>5. \A i, j \in I : f[i] = f[j] => i = j
      BY <2>6, <2>11
    <3>6. Cardinality(I) <= MaxNodes
      <4> HIDE DEF I, X, f
      <4> QED
        BY <2>1, <3>2, <3>3, <3>4, <3>5, CountedByNode
    <3> QED
      BY <3>6
  <2> QED
    BY <2>6, <2>9, <2>10, <2>12, <2>13 DEF MembersRight
<1> QED
  BY <1>1, <1>2

-----------------------------------------------------------------------------
(***************************************************************************)
(* The specification.                                                        *)
(***************************************************************************)
Validators == UNION {[S -> 1..MaxStake] : S \in SUBSET Nodes}

\* A set that is pending is what the election of this block gave.
PendingElected ==
    \/ pending = Sch!NoUpdate
    \/ input \in Sch!Inputs /\ \E V \in Sch!ValidatorOutcomes(input) : pending = Sch!ElectedPowers(input, V)

MembersOfValidators ==
    ValidatorsOnly /\ pending # Sch!NoUpdate =>
        \A i \in DOMAIN members : EntityOf[members[i].node] \in {EntityOf[n] : n \in DOMAIN pending}

SchedulerInv ==
    /\ input \in Sch!Inputs \cup {Sch!NoInput}
    /\ current \in Validators /\ cometbft = current
    /\ PendingElected
    /\ MembersRight(members) /\ MembersOfValidators

LEMMA NoValidators == Sch!NoUpdate \in Validators
<1>1. Sch!NoUpdate \in [{} -> 1..MaxStake]
  BY DEF Sch!NoUpdate
<1> QED
  BY <1>1 DEF Validators

LEMMA SchedulerInitInv == ASSUME Sch!SchedulerAssumption, Sch!Init PROVE SchedulerInv
<1>1. MembersRight(members) /\ MembersOfValidators
  BY NoMembers DEF Sch!Init, MembersOfValidators
<1>2. input \in Sch!Inputs \cup {Sch!NoInput} /\ PendingElected
  BY DEF Sch!Init, PendingElected
<1>3. current \in Validators /\ cometbft = current
  BY NoValidators DEF Sch!Init
<1> QED
  BY <1>1, <1>2, <1>3 DEF SchedulerInv

LEMMA ElectInv ==
    ASSUME Sch!SchedulerAssumption, SchedulerInv, NEW in \in Sch!Inputs, Sch!Elect(in)
    PROVE  SchedulerInv'
<1>1. PICK V \in Sch!ValidatorOutcomes(in) :
          /\ input' = in /\ stopped' = Sch!ElectFailure(V)
          /\ IF stopped' # Sch!NoFailure THEN UNCHANGED <<pending, members>>
             ELSE /\ pending' = Sch!ElectedPowers(in, V)
                  /\ \E w \in Sch!RoleOutcomes(Sch!NodesForRole(in, {EntityOf[n] : n \in V}), "worker"),
                        b \in Sch!RoleOutcomes(Sch!NodesForRole(in, {EntityOf[n] : n \in V}), "backup") :
                        members' = Sch!Assemble(w, b)
  BY DEF Sch!Elect
<1>2. pending = Sch!NoUpdate /\ current' = current /\ cometbft' = cometbft
  BY DEF Sch!Elect
<1>3. input' \in Sch!Inputs \cup {Sch!NoInput} /\ current' \in Validators /\ cometbft' = current'
  BY <1>1, <1>2 DEF SchedulerInv
<1>4. CASE stopped' # Sch!NoFailure
  <2>1. pending' = Sch!NoUpdate /\ members' = members
    BY <1>1, <1>2, <1>4
  <2>2. PendingElected' /\ MembersOfValidators' /\ MembersRight(members')
    BY <2>1 DEF PendingElected, MembersOfValidators, SchedulerInv
  <2> QED
    BY <1>3, <2>2 DEF SchedulerInv
<1>5. CASE stopped' = Sch!NoFailure
  <2> DEFINE E == {EntityOf[n] : n \in V}
             pool == Sch!NodesForRole(in, E)
  <2>1. pending' = Sch!ElectedPowers(in, V)
    BY <1>1, <1>5
  <2>2. PICK w \in Sch!RoleOutcomes(pool, "worker"), b \in Sch!RoleOutcomes(pool, "backup") :
            members' = Sch!Assemble(w, b)
    BY <1>1, <1>5
  <2>3. pool \subseteq Nodes /\ (ValidatorsOnly => \A n \in pool : EntityOf[n] \in E)
    BY DEF Sch!NodesForRole
  <2>4. MembersRight(members') /\ \A i \in DOMAIN members' : members'[i].node \in pool
    <3> HIDE DEF pool
    <3> QED
      BY <2>2, <2>3, CommitteeElected
  <2>5. DOMAIN pending' = V
    BY <2>1 DEF Sch!ElectedPowers
  <2>6. MembersOfValidators'
    <3> HIDE DEF pool
    <3> QED
      BY <2>3, <2>4, <2>5 DEF MembersOfValidators
  <2>7. PendingElected'
    BY <1>1, <2>1 DEF PendingElected
  <2> QED
    BY <1>3, <2>4, <2>6, <2>7 DEF SchedulerInv
<1> QED
  BY <1>4, <1>5

LEMMA PendingTyped ==
    ASSUME Sch!SchedulerAssumption, SchedulerInv
    PROVE  pending \in Validators
<1>1. CASE pending = Sch!NoUpdate
  BY <1>1, NoValidators
<1>2. CASE input \in Sch!Inputs /\ \E V \in Sch!ValidatorOutcomes(input) : pending = Sch!ElectedPowers(input, V)
  <2>1. PICK V \in Sch!ValidatorOutcomes(input) : pending = Sch!ElectedPowers(input, V)
    BY <1>2
  <2>2. V \subseteq Sch!EligibleValidators(input) /\ V \subseteq Nodes
    BY <1>2, ValidatorsElected
  <2>3. pending \in [V -> 1..MaxStake]
    BY <1>2, <2>1, <2>2, PowersTyped
  <2> QED
    BY <2>2, <2>3 DEF Validators
<1> QED
  BY <1>1, <1>2 DEF SchedulerInv, PendingElected

LEMMA EndBlockInv ==
    ASSUME Sch!SchedulerAssumption, SchedulerInv, Sch!EndBlock
    PROVE  SchedulerInv'
<1>1. PICK C \in SUBSET Nodes : current \in [C -> 1..MaxStake]
  BY DEF SchedulerInv, Validators
<1>2. PICK Q \in SUBSET Nodes : pending \in [Q -> 1..MaxStake]
  BY PendingTyped DEF Validators
<1>3. MaxStake \in Nat
  BY DEF Sch!SchedulerAssumption
<1>4. cometbft' = Sch!ApplyUpdates(cometbft, Sch!DiffValidators(current, pending)) /\ current' = pending
  BY DEF Sch!EndBlock
<1>5. Sch!ApplyUpdates(current, Sch!DiffValidators(current, pending)) = pending
  BY <1>1, <1>2, <1>3, DifferencesApplied
<1>6. cometbft' = current' /\ current' \in Validators
  BY <1>4, <1>5, PendingTyped DEF SchedulerInv
<1>7. pending' = Sch!NoUpdate /\ input' = Sch!NoInput /\ members' = members
  BY DEF Sch!EndBlock
<1>8. PendingElected' /\ MembersOfValidators' /\ MembersRight(members')
  BY <1>7 DEF PendingElected, MembersOfValidators, SchedulerInv
<1> QED
  BY <1>6, <1>7, <1>8 DEF SchedulerInv

LEMMA SchedulerStepInv ==
    ASSUME Sch!SchedulerAssumption, SchedulerInv, [Sch!Next]_(Sch!vars)
    PROVE  SchedulerInv'
<1>1. CASE UNCHANGED Sch!vars
  <2>1. UNCHANGED <<input, pending, current, cometbft, members>>
    BY <1>1 DEF Sch!vars
  <2> QED
    BY <2>1 DEF SchedulerInv, PendingElected, MembersOfValidators
<1> QED
  BY <1>1, ElectInv, EndBlockInv DEF Sch!Next

\* What the invariant says of the properties that the run checks.
LEMMA ElectionsFromInv ==
    ASSUME Sch!SchedulerAssumption, SchedulerInv
    PROVE  Sch!TypeOK /\ Sch!ValidatorSetAgrees /\ Sch!HighestStakeElected /\ Sch!EntityLimits /\ Sch!CommitteeComplete
<1>0. DOMAIN Groups = Roles
  BY DEF Sch!SchedulerAssumption, Roles
<1>1. Sch!TypeOK
  <2>1. \A n \in DOMAIN pending : pending[n] \in 1..MaxStake
    BY PendingTyped DEF Validators
  <2>2. members \in Seq([node : Nodes, role : Roles])
    BY DEF SchedulerInv, MembersRight
  <2>3. \A i \in 1..Len(members) : members[i].node \in Nodes /\ members[i].role \in Roles
    <3> DEFINE M == [node : Nodes, role : Roles]
    <3>0. members \in Seq(M)
      BY <2>2
    <3> HIDE DEF M
    <3>1. \A i \in 1..Len(members) : members[i] \in M
      BY <3>0
    <3> QED
      BY <3>1 DEF M
  <2> QED
    BY <1>0, <2>1, <2>3 DEF SchedulerInv, Sch!TypeOK
<1>2. Sch!ValidatorSetAgrees
  BY DEF SchedulerInv, Sch!ValidatorSetAgrees
<1>3. CASE pending = Sch!NoUpdate
  <2>1. DOMAIN pending = {}
    BY <1>3 DEF Sch!NoUpdate
  <2>2. MaxValidatorsPerEntity \in Nat
    BY DEF Sch!SchedulerAssumption
  <2>3. \A x : {n \in DOMAIN pending : EntityOf[n] = x} = {}
    BY <2>1
  <2>4. \A x : Cardinality({n \in DOMAIN pending : EntityOf[n] = x}) <= MaxValidatorsPerEntity
    BY <2>2, <2>3, FS_EmptySet
  <2>5. Sch!HighestStakeElected
    BY <1>3 DEF Sch!HighestStakeElected
  <2>6. Sch!EntityLimits
    BY <1>0, <2>4, SchedulerCardinality DEF Sch!EntityLimits, SchedulerInv, MembersRight
  <2>7. Sch!CommitteeComplete
    BY <1>3 DEF Sch!CommitteeComplete, SchedulerInv, MembersRight, MembersOfValidators
  <2> QED
    BY <1>1, <1>2, <2>5, <2>6, <2>7
<1>4. CASE input \in Sch!Inputs /\ \E V \in Sch!ValidatorOutcomes(input) : pending = Sch!ElectedPowers(input, V)
  <2>1. PICK V \in Sch!ValidatorOutcomes(input) : pending = Sch!ElectedPowers(input, V)
    BY <1>4
  <2>2. DOMAIN pending = V
    BY <2>1 DEF Sch!ElectedPowers
  <2>3. /\ \A x : Cardinality({n \in V : EntityOf[n] = x}) <= MaxValidatorsPerEntity
        /\ \A n \in V, m \in Sch!ShuffledValidators(input) :
               EntityOf[m] \notin {EntityOf[x] : x \in V} => input.stake[EntityOf[m]] <= input.stake[EntityOf[n]]
    BY <1>4, ValidatorsElected
  <2>4. Sch!HighestStakeElected
    BY <2>2, <2>3 DEF Sch!HighestStakeElected
  <2>5. Sch!EntityLimits
    BY <1>0, <2>2, <2>3, SchedulerCardinality DEF Sch!EntityLimits, SchedulerInv, MembersRight
  <2>6. Sch!CommitteeComplete
    BY DEF Sch!CommitteeComplete, SchedulerInv, MembersRight, MembersOfValidators
  <2> QED
    BY <1>1, <1>2, <2>4, <2>5, <2>6
<1> QED
  BY <1>3, <1>4 DEF SchedulerInv, PendingElected

\* The inductive invariant of elections.
THEOREM SchedulerInvariance == ASSUME Sch!SchedulerAssumption PROVE Sch!Spec => []SchedulerInv
<1>1. Sch!Init => SchedulerInv
  BY SchedulerInitInv
<1>2. SchedulerInv /\ [Sch!Next]_(Sch!vars) => SchedulerInv'
  BY SchedulerStepInv
<1> QED
  BY <1>1, <1>2, PTL DEF Sch!Spec

\* For every set of nodes and entities, every limit and every outcome of the
\* lotteries: CometBFT runs with the validators that were elected (updateValidators,
\* diffValidators); no entity is passed over for one with less stake and none
\* has more validators or committee members than it may (electValidators,
\* dedupEntityNodesByHashedBeta); a committee is complete or there is none
\* (electCommitteeMembers).
THEOREM ElectionsAlwaysRight ==
    ASSUME Sch!SchedulerAssumption
    PROVE  Sch!Spec => [](/\ Sch!TypeOK /\ Sch!ValidatorSetAgrees /\ Sch!HighestStakeElected
                          /\ Sch!EntityLimits /\ Sch!CommitteeComplete)
<1>1. SchedulerInv => /\ Sch!TypeOK /\ Sch!ValidatorSetAgrees /\ Sch!HighestStakeElected
                      /\ Sch!EntityLimits /\ Sch!CommitteeComplete
  BY ElectionsFromInv
<1> QED
  BY <1>1, SchedulerInvariance, PTL
=============================================================================

-------------------------------- MODULE Beacon --------------------------------
(***************************************************************************)
(* The VRF backend of the beacon application: epochs are blocks apart, in   *)
(* every epoch the nodes prove the epoch's alpha with their VRF key, and     *)
(* the proofs of an epoch give the next alpha and order the election of the  *)
(* next committees.  The registration of VRF keys (registry application) and *)
(* the filter that the scheduler applies at an election are part of the      *)
(* model, since the security of the lottery rests on all three: a key must   *)
(* be fixed before the alpha it proves is known.                            *)
(***************************************************************************)
EXTENDS Integers, FiniteSets

CONSTANTS Nodes, VRFKeys,
          Interval,                   \* blocks per epoch
          ProofSubmissionDelay,
          AlphaHighQualityThreshold,
          MaxEpoch,                   \* bound on the epochs of a behaviour
          Genesis                     \* nodes in the genesis document whose status
                                      \* has ElectionEligibleAfter = 0

BeaconAssumption ==
    /\ Interval \in Nat \ {0} /\ MaxEpoch \in Nat \ {0}
    /\ ProofSubmissionDelay \in Nat /\ AlphaHighQualityThreshold \in Nat
    /\ Genesis \subseteq Nodes

ASSUME BeaconAssumed == BeaconAssumption

VARIABLES
    height, epoch,
    future,      \* [epoch, height] of the scheduled transition
    vrf,         \* VRFState; pi maps the nodes that proved to the key they used
    nodes,       \* registered node |-> [key, eligibleAfter, keyEpoch]; keyEpoch is
                 \* the epoch in which the key was registered (history)
    committee,   \* the nodes elected for the current epoch, each with the key of
                 \* its proof, the registered key and the epoch of that key
    proofs,      \* epoch |-> the number of nodes that proved in it (history)
    failed

vars == <<height, epoch, future, vrf, nodes, committee, proofs, failed>>

EpochInvalid == MaxEpoch + 2

With(f, k, v) == [x \in DOMAIN f \cup {k} |-> IF x = k THEN v ELSE f[x]]
None == [x \in {} |-> x]

-----------------------------------------------------------------------------
IsEligibleForElection(n, ns, e) == e > ns[n].eligibleAfter

\* The scheduler's electCommittees: nothing without a good alpha; members have
\* proved and are eligible.  Who of them is elected is a matter of the lottery.
CanBeElected(prev, ns, e) ==
    IF ~prev.canElect THEN {}
    ELSE {n \in DOMAIN prev.pi \cap DOMAIN ns : IsEligibleForElection(n, ns, e)}

Elected(prev, ns, e, members) ==
    {[node |-> n, proof |-> prev.pi[n], key |-> ns[n].key, keyEpoch |-> ns[n].keyEpoch] :
        n \in members}

\* Nodes that (re)registered in the ending epoch become eligible after the
\* coming one.
UpdateNodeStatus(next) ==
    [n \in DOMAIN nodes |-> IF nodes[n].eligibleAfter # EpochInvalid THEN nodes[n]
                            ELSE [nodes[n] EXCEPT !.eligibleAfter = next]]

NextVRFState(h) ==
    [epoch |-> future.epoch, pi |-> None,
     hq |-> Cardinality(DOMAIN vrf.pi) >= AlphaHighQualityThreshold,
     submitAfter |-> h + ProofSubmissionDelay,
     prev |-> [pi |-> vrf.pi, canElect |-> vrf.hq]]

\* The next transition is scheduled when this one happens.
ScheduleEpochTransitionBlockMutant(e, h) == [epoch |-> e, height |-> h + Interval - 1]
ScheduleEpochTransitionBlock(e, h) == [epoch |-> e, height |-> h + Interval]

\* OnBeginBlock of the beacon and then of the scheduler.
BeginBlock ==
    LET h == height + 1 IN
    /\ failed = "ok"
    /\ epoch < MaxEpoch
    /\ height' = h
    /\ \/ /\ future.height # h
          /\ failed' = IF future.height < h
                       THEN "beacon: height mismatch in deferred set" ELSE failed
          /\ UNCHANGED <<epoch, future, vrf, nodes, committee, proofs>>
       \/ /\ future.height = h
          /\ nodes' = UpdateNodeStatus(future.epoch)
          /\ epoch' = future.epoch
          /\ future' = ScheduleEpochTransitionBlock(future.epoch + 1, h)
          /\ vrf' = NextVRFState(h)
          /\ proofs' = With(proofs, epoch', 0)
          /\ \E m \in SUBSET CanBeElected(vrf'.prev, nodes', epoch') :
                 committee' = Elected(vrf'.prev, nodes', epoch', m)
          /\ UNCHANGED failed

\* A slash in the middle of an epoch holds the election again, with the
\* proofs of the previous epoch.
ReelectAfterSlash ==
    /\ failed = "ok"
    /\ epoch > 0
    /\ \E m \in SUBSET CanBeElected(vrf.prev, nodes, epoch) :
           committee' = Elected(vrf.prev, nodes, epoch, m)
    /\ UNCHANGED <<height, epoch, future, vrf, nodes, proofs, failed>>

-----------------------------------------------------------------------------
\* A node proves with its registered key, once: a second proof must give the
\* same beta, which another key does not.
DoProveTx(n, e) ==
    /\ failed = "ok"
    /\ height > vrf.submitAfter
    /\ n \in DOMAIN nodes
    /\ e = vrf.epoch
    /\ n \in DOMAIN vrf.pi => vrf.pi[n] = nodes[n].key
    /\ vrf' = [vrf EXCEPT !.pi = With(@, n, nodes[n].key)]
    /\ proofs' = [proofs EXCEPT ![epoch] = Cardinality(DOMAIN vrf'.pi)]
    /\ UNCHANGED <<height, epoch, future, nodes, committee, failed>>

RenewalMutant(n, k) == nodes[n].eligibleAfter

\* A renewal with a new VRF key loses eligibility (since version 26.1).
Renewal(n, k) == IF nodes[n].key # k THEN EpochInvalid ELSE nodes[n].eligibleAfter

RegisterNode(n, k) ==
    /\ failed = "ok"
    /\ \A m \in DOMAIN nodes \ {n} : nodes[m].key # k
    /\ nodes' = With(nodes, n,
           [key |-> k,
            eligibleAfter |-> IF n \in DOMAIN nodes THEN Renewal(n, k) ELSE EpochInvalid,
            keyEpoch |-> IF n \in DOMAIN nodes /\ nodes[n].key = k
                         THEN nodes[n].keyEpoch ELSE epoch])
    /\ UNCHANGED <<height, epoch, future, vrf, committee, proofs, failed>>

\* A node that expired long enough ago is removed; its proof stays.
RemoveNode(n) ==
    /\ failed = "ok"
    /\ n \in DOMAIN nodes
    /\ nodes' = [m \in DOMAIN nodes \ {n} |-> nodes[m]]
    /\ UNCHANGED <<height, epoch, future, vrf, committee, proofs, failed>>

-----------------------------------------------------------------------------
\* Genesis: the first block finds no VRF state and makes a low quality one.
Init ==
    /\ height = 1 /\ epoch = 0
    /\ future = ScheduleEpochTransitionBlock(1, 1)
    /\ vrf = [epoch |-> 0, pi |-> None, hq |-> FALSE,
              submitAfter |-> 1 + ProofSubmissionDelay,
              prev |-> [pi |-> None, canElect |-> FALSE]]
    /\ \E key \in [Genesis -> VRFKeys] :
          /\ \A n, m \in Genesis : n # m => key[n] # key[m]
          /\ nodes = [n \in Genesis |-> [key |-> key[n], eligibleAfter |-> 0, keyEpoch |-> -1]]
    /\ committee = {}
    /\ proofs = [e \in {0} |-> 0]
    /\ failed = "ok"

Next ==
    \/ BeginBlock
    \/ ReelectAfterSlash
    \/ \E n \in Nodes, e \in 0..MaxEpoch : DoProveTx(n, e)
    \/ \E n \in Nodes, k \in VRFKeys : RegisterNode(n, k)
    \/ \E n \in Nodes : RemoveNode(n)

Spec == Init /\ [][Next]_vars

-----------------------------------------------------------------------------
(***************************************************************************)
(* Properties.                                                              *)
(***************************************************************************)

TypeOK ==
    /\ height \in Nat /\ epoch \in 0..MaxEpoch
    /\ vrf.epoch = epoch
    /\ future.epoch = epoch + 1 /\ future.height \in height..height + Interval
    /\ \A n \in DOMAIN nodes : nodes[n].eligibleAfter \in 0..EpochInvalid
    /\ DOMAIN vrf.pi \subseteq Nodes
    /\ DOMAIN proofs = 0..epoch

\* Whoever is elected proved, in the epoch before, with the key that is
\* registered, and that key was registered before the epoch whose alpha it
\* proved began: no one could pick a key knowing the alpha.
KeyFixedBeforeAlpha ==
    \A c \in committee : c.proof = c.key /\ c.keyEpoch < epoch - 1

\* Committees exist only if the alpha that was proved had itself been made
\* from enough proofs, two epochs ago.
CommitteesNeedProofs ==
    committee # {} => epoch >= 2 /\ proofs[epoch - 2] >= AlphaHighQualityThreshold

\* Whoever is elected proved with a key fixed before alpha was known, and alpha
\* was made from enough proofs.
BeaconUnbiased == KeyFixedBeforeAlpha /\ CommitteesNeedProofs
=============================================================================

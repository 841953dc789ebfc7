---------------------------- MODULE MCRoundRecords ----------------------------
(***************************************************************************)
(* Instances of RoundRecords for TLC: past roots under changing limits       *)
(* with a fixed evidence age, evidence under changing ages with fixed roots.*)
(***************************************************************************)
EXTENDS RoundRecords

CONSTANT Parts
VARIABLE part

RootsOnly == INSTANCE RoundRecords WITH Ages <- {0}
EvidenceOnly == INSTANCE RoundRecords WITH
    Root <- {EmptyRoot}, Limits <- {0}

MCInit ==
    /\ part \in Parts
    /\ \/ part = "roots" /\ RootsOnly!Init
       \/ part = "evidence" /\ EvidenceOnly!Init
MCNext ==
    /\ \/ part = "roots" /\ RootsOnly!Next
       \/ part = "evidence" /\ EvidenceOnly!Next
    /\ UNCHANGED part
MCSpec == MCInit /\ [][MCNext]_<<vars, part>>
=============================================================================

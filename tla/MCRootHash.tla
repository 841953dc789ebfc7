----------------------------- MODULE MCRootHash -----------------------------
(***************************************************************************)
(* Instances of RootHash for TLC, which narrow the constants that the       *)
(* configuration gives: the resolution of discrepancies, rounds and timers, *)
(* and incoming messages.                                                   *)
(***************************************************************************)
EXTENDS RootHash

CONSTANTS n1, n2, n3, n4, good, bad

MCNode == {n1, n2, n3, n4}
MCResult == {[root |-> r, inCount |-> 0, inHash |-> <<>>] : r \in {good, bad}}

\* Results that process incoming messages, some with a wrong count or hash.
MCMessageResult ==
    {[root |-> good, inCount |-> i.count, inHash |-> i.hash] :
        i \in {[count |-> 0, hash |-> <<>>], [count |-> 1, hash |-> <<0>>],
               [count |-> 2, hash |-> <<0, 1>>], [count |-> 2, hash |-> <<1>>]}}
MCAllResults == MCResult \cup MCMessageResult

\* Two workers, one of which is a backup worker too, and two more backup workers.
MCTwoWorkers == {[workers |-> <<n1, n2>>, backups |-> {n3, n4, n2}, stragglers |-> 0]}

\* A committee with a backup worker and one without any, whose faulty worker
\* alone can move the root away from the genesis root.
MCTimingCommittees == {[workers |-> <<n1, n2>>, backups |-> {n3}, stragglers |-> 0],
                       [workers |-> <<n1, n2>>, backups |-> {}, stragglers |-> 1]}

\* A committee in which the faulty node alone is enough to finalize a round.
MCLaxCommittees == {[workers |-> <<n1, n2>>, backups |-> {n3}, stragglers |-> 1]}

MCCommittees == MCTwoWorkers \cup MCTimingCommittees \cup MCLaxCommittees

VARIABLE part

Resolution == INSTANCE RootHash WITH
    Committees <- MCTwoWorkers, MaxInMessages <- 0, MaxMessages <- 0,
    MaxCommits <- 1, MaxHeight <- 6, MaxRound <- 2
Timing == INSTANCE RootHash WITH
    Committees <- MCTimingCommittees, MaxInMessages <- 0, MaxMessages <- 0, MaxRound <- 2
Messages == INSTANCE RootHash WITH
    Committees <- MCLaxCommittees, RoundTimeout <- 1, MaxCommits <- 1, MaxHeight <- 3

\* The results that nodes sign.
Signs(results) ==
    st'.pool # Nil => \A r \in Rank, n \in Node :
        st'.pool.votes[r][n] \in results \cup {Failure, NoVote}

MCInit == part \in {"resolution", "timing", "messages"} /\ Init
MCNext ==
    /\ \/ part = "resolution" /\ Resolution!Next /\ Signs(MCResult)
       \/ part = "timing" /\ Timing!Next /\ Signs(MCResult)
       \/ part = "messages" /\ Messages!Next /\ Signs(MCMessageResult)
    /\ UNCHANGED part
MCSpec == MCInit /\ [][MCNext]_<<vars, part>>
=============================================================================

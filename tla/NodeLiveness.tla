----------------------------- MODULE NodeLiveness -----------------------------
(***************************************************************************)
(* The liveness record of one node: the fault counter and the suspension    *)
(* that processLivenessStatistics keeps for each runtime, the freeze that    *)
(* follows too many failures or consensus evidence, and the unfreeze        *)
(* transaction.  Epochs are kept relative to the current one: "suspension"   *)
(* is SuspendedUntil - epoch, "freeze" is FreezeEndTime - epoch, both never  *)
(* below zero, which is all the code compares them for.                     *)
(***************************************************************************)
EXTENDS Integers

CONSTANTS Runtimes,
          Width,               \* the fault counter is an unsigned integer of
                               \* this many bits (8 in the code)
          MaxLivenessFailures, \* runtime parameter
          FreezeInterval,      \* of the runtime's liveness penalty
          EvidenceFreeze,      \* of the consensus equivocation penalty
          FailureBound         \* bound: no failure is recorded beyond it

LivenessAssumption ==
    /\ Width \in Nat \ {0} /\ FreezeInterval \in Nat /\ EvidenceFreeze \in Nat
    /\ MaxLivenessFailures \in 0..2^Width - 1 /\ FailureBound \in Nat

VARIABLES
    failures,    \* runtime |-> Fault.Failures (0: no record)
    suspension,  \* runtime |-> epochs left of the suspension
    frozen,      \* FreezeEndTime > 0
    freeze,      \* epochs left until the node may be unfrozen
    member,      \* the runtimes whose committee the node is in
    todo,        \* the runtimes still to be evaluated in this block
    electing,    \* the election of this block is still to be held
    since        \* runtime |-> epochs since its last evaluation (history, at
                 \* most SinceBound)

vars == <<failures, suspension, frozen, freeze, member, todo, electing, since>>

MaxSuspension == 64

\* Zero stands for the largest value of the counter.
MaxFailures == IF MaxLivenessFailures = 0 THEN 2^Width - 1 ELSE MaxLivenessFailures

Cap(n, m) == IF n > m THEN m ELSE n
Dec(n) == IF n > 0 THEN n - 1 ELSE 0

\* Doubles with every failure, at most 64 epochs.
ScheduleSuspension(f) == IF f = 0 THEN 0 ELSE <<2, 4, 8, 16, 32, 64>>[Cap(f, 6)]

\* Longer than any suspension under the bound on failures.
SinceBound == ScheduleSuspension(FailureBound) + 1

IsSuspended(r) == frozen \/ suspension[r] > 0

RecordFailure(f) == (f + 1) % 2^Width
RecordSuccess(f) == Dec(f)

-----------------------------------------------------------------------------
\* A new epoch: the committees of the ending one are to be evaluated, in any
\* order, before the election.
EpochTransition ==
    /\ ~electing
    /\ electing' = TRUE
    /\ todo' = member
    /\ suspension' = [r \in Runtimes |-> Dec(suspension[r])]
    /\ freeze' = Dec(freeze)
    /\ since' = [r \in Runtimes |-> Cap(since[r] + 1, SinceBound)]
    /\ UNCHANGED <<failures, frozen, member>>

\* A validator was slashed in this block: the committees are evaluated and
\* elected anew in the middle of the epoch.
Reelection ==
    /\ ~electing
    /\ electing' = TRUE
    /\ todo' = member
    /\ UNCHANGED <<failures, suspension, frozen, freeze, member, since>>

\* processLivenessStatistics for one runtime; "ok": enough live rounds and
\* not too many missed proposals.
ProcessLivenessStatistics(r, ok) ==
    LET f == IF ok THEN RecordSuccess(failures[r]) ELSE RecordFailure(failures[r])
        freezes == ~ok /\ f >= MaxFailures
    IN /\ r \in todo
       /\ todo' = todo \ {r}
       /\ ok \/ failures[r] < FailureBound
       /\ IF IsSuspended(r)
          THEN UNCHANGED <<failures, suspension, frozen, freeze, since>>
          ELSE /\ failures' = [failures EXCEPT ![r] = f]
               /\ suspension' = [suspension EXCEPT ![r] =
                      IF ok /\ failures[r] = 0 THEN @ ELSE ScheduleSuspension(f)]
               /\ frozen' = (frozen \/ freezes)
               /\ freeze' = IF freezes THEN FreezeInterval ELSE freeze
               /\ since' = [since EXCEPT ![r] = 0]
       /\ UNCHANGED <<member, electing>>

\* The scheduler leaves frozen and suspended nodes out.
Elect(elected) ==
    /\ electing /\ todo = {}
    /\ elected \subseteq {r \in Runtimes : ~IsSuspended(r)}
    /\ member' = elected
    /\ electing' = FALSE
    /\ UNCHANGED <<failures, suspension, frozen, freeze, todo, since>>

\* Evidence of equivocation in consensus: a frozen node is left alone.
OnEvidenceByzantineConsensus ==
    /\ ~electing /\ ~frozen
    /\ EvidenceFreeze > 0
    /\ frozen' = TRUE
    /\ freeze' = EvidenceFreeze
    /\ UNCHANGED <<failures, suspension, member, todo, electing, since>>

\* The counter and the suspension stay.
UnfreezeNode ==
    /\ ~electing /\ frozen
    /\ freeze = 0
    /\ frozen' = FALSE
    /\ UNCHANGED <<failures, suspension, freeze, member, todo, electing, since>>

Init ==
    /\ failures = [r \in Runtimes |-> 0]
    /\ suspension = [r \in Runtimes |-> 0]
    /\ frozen = FALSE /\ freeze = 0
    /\ member = {} /\ todo = {} /\ electing = FALSE
    /\ since = [r \in Runtimes |-> SinceBound]

Next ==
    \/ EpochTransition \/ Reelection
    \/ \E r \in Runtimes, ok \in BOOLEAN : ProcessLivenessStatistics(r, ok)
    \/ \E elected \in SUBSET Runtimes : Elect(elected)
    \/ OnEvidenceByzantineConsensus
    \/ UnfreezeNode

Spec == Init /\ [][Next]_vars

-----------------------------------------------------------------------------
(***************************************************************************)
(* Properties.                                                              *)
(***************************************************************************)

TypeOK ==
    /\ failures \in [Runtimes -> 0..2^Width - 1]
    /\ suspension \in [Runtimes -> 0..MaxSuspension]
    /\ frozen \in BOOLEAN /\ electing \in BOOLEAN
    /\ freeze \in Nat
    /\ member \subseteq Runtimes /\ todo \subseteq member

\* A node is not held to account for a runtime again before it has served the
\* suspension that its previous evaluation imposed, whatever other runtimes,
\* evidence, elections in the middle of an epoch and unfreezing do in between.
SuspensionServed ==
    \A r \in Runtimes :
        failures'[r] # failures[r] /\ failures[r] > 0
            => since[r] >= ScheduleSuspension(failures[r])

\* A freeze runs its whole term: neither evidence nor another runtime's
\* failure nor an election in the middle of an epoch shortens it, and no
\* transaction ends it early.
FreezeNeverShortened ==
    /\ freeze' < freeze => electing' /\ ~electing /\ freeze' = freeze - 1
    /\ frozen /\ ~frozen' => freeze = 0

\* Within one block at most one runtime freezes the node, so the node
\* is slashed for liveness once.
FrozenAtMostOnce ==
    frozen /\ frozen' /\ electing => freeze' = freeze /\ failures' = failures
=============================================================================

------------------------- MODULE CommissionSchedule --------------------------
(* The commission schedule of an account (staking/api/commission.go), as     *)
(* amended by its owner and migrated when governance raises the minimum rate *)
(* (apps/staking/messages.go).                                               *)
EXTENDS Integers, SequencesExt

CONSTANTS
    Start,           \* start epochs of the steps of amendments
    RateValue,       \* commission rates
    RateDenominator,
    RateChangeInterval, RateBoundLead, MaxRateSteps, MaxBoundSteps,
    MaxAmendment,    \* steps in one amendment
    MaxEpoch, None

CommissionAssumption ==
    /\ Start \subseteq Nat /\ RateValue \subseteq Nat
    /\ RateDenominator \in Nat \ {0} /\ RateChangeInterval \in Nat \ {0} /\ RateBoundLead \in Nat
    /\ MaxRateSteps \in Nat /\ MaxBoundSteps \in Nat /\ None \notin Nat

VARIABLES
    schedule,        \* [rates, bounds]: steps in the order of their starts
    minRate,         \* MinCommissionRate
    epoch

vars == <<schedule, minRate, epoch>>

RateStep == [start : Start, rate : RateValue]
BoundStep == [start : Start, rateMin : RateValue, rateMax : RateValue]
Amendment == [rates : BoundedSeq(RateStep, MaxAmendment), bounds : BoundedSeq(BoundStep, MaxAmendment)]

ValidateComplexity(cs) == Len(cs.rates) <= MaxRateSteps /\ Len(cs.bounds) <= MaxBoundSteps

Increasing(steps) == \A i \in 2 .. Len(steps) : steps[i].start > steps[i - 1].start

ValidateNondegenerate(cs, min) ==
    /\ Increasing(cs.rates) /\ Increasing(cs.bounds)
    /\ \A r \in ToSet(cs.rates) : /\ r.start % RateChangeInterval = 0
                                  /\ r.rate <= RateDenominator /\ r.rate >= min
    /\ \A b \in ToSet(cs.bounds) : /\ b.start % RateChangeInterval = 0
                                   /\ b.rateMax <= RateDenominator
                                   /\ b.rateMin <= b.rateMax /\ b.rateMin >= min

ValidateAmendmentAcceptable(cs, now, initial) ==
    /\ cs.rates # <<>> => cs.rates[1].start > now
    /\ cs.bounds # <<>> => cs.bounds[1].start >= now + 1 + (IF initial THEN 0 ELSE RateBoundLead)

\* Drops the steps before the one in effect.
PruneSteps(steps, now) ==
    LET started == {i \in 1 .. Len(steps) : steps[i].start <= now}
    IN  IF started = {} THEN steps ELSE SubSeq(steps, Max(started), Len(steps))

Prune(cs, now) == [rates |-> PruneSteps(cs.rates, now), bounds |-> PruneSteps(cs.bounds, now)]

\* The steps that start before the first new one, and the new ones.
Splice(old, new) ==
    IF new = <<>> THEN old ELSE SelectSeq(old, LAMBDA s : s.start < new[1].start) \o new

Amend(cs, amendment) ==
    [rates |-> Splice(cs.rates, amendment.rates), bounds |-> Splice(cs.bounds, amendment.bounds)]

\* Walks along both schedules, moving to the next rate, the next bound or both.
WalkMutant(cs) ==
    LET ok[i \in 1 .. Len(cs.rates), j \in 1 .. Len(cs.bounds)] ==
          /\ cs.rates[i].rate \in cs.bounds[j].rateMin .. cs.bounds[j].rateMax
          /\ (i < Len(cs.rates) /\ j < Len(cs.bounds)) => ok[i + 1, j + 1]
    IN  ok[1, 1]

Walk(cs) ==
    LET ok[i \in 1 .. Len(cs.rates), j \in 1 .. Len(cs.bounds)] ==
          LET nextRate  == i < Len(cs.rates)
              nextBound == j < Len(cs.bounds)
              rateMoves  == nextRate /\ (nextBound => cs.rates[i + 1].start <= cs.bounds[j + 1].start)
              boundMoves == nextBound /\ (nextRate => cs.bounds[j + 1].start <= cs.rates[i + 1].start)
          IN  /\ cs.rates[i].rate \in cs.bounds[j].rateMin .. cs.bounds[j].rateMax
              /\ nextRate \/ nextBound =>
                   ok[IF rateMoves THEN i + 1 ELSE i, IF boundMoves THEN j + 1 ELSE j]
    IN  ok[1, 1]

ValidateWithinBound(cs, now) ==
    \/ cs.rates = <<>> /\ cs.bounds = <<>>
    \/ /\ cs.rates # <<>> /\ cs.bounds # <<>>
       /\ cs.rates[1].start > now \/ cs.bounds[1].start > now => cs.rates[1].start = cs.bounds[1].start
       /\ Walk(cs)

CurrentRate(cs, now) ==
    LET started == {i \in 1 .. Len(cs.rates) : cs.rates[i].start <= now}
    IN  IF started = {} THEN None ELSE cs.rates[Max(started)].rate

-----------------------------------------------------------------------------
Init ==
    /\ schedule = [rates |-> <<>>, bounds |-> <<>>]
    /\ minRate \in {r \in RateValue : r <= RateDenominator}
    /\ epoch = 0

AmendAndPruneAndValidate(amendment) ==
    LET new == Amend(Prune(schedule, epoch), amendment)
    IN  /\ ValidateComplexity(amendment)
        /\ ValidateNondegenerate(amendment, minRate)
        /\ ValidateAmendmentAcceptable(amendment, epoch, schedule.bounds = <<>>)
        /\ ValidateComplexity(new)
        /\ ValidateWithinBound(new, epoch)
        /\ schedule' = new
        /\ UNCHANGED <<minRate, epoch>>

\* The migration to a new minimum.
Raise(cs, min) ==
    [rates |-> [i \in DOMAIN cs.rates |-> [cs.rates[i] EXCEPT !.rate = Max({@, min})]],
     bounds |-> [i \in DOMAIN cs.bounds |-> [cs.bounds[i] EXCEPT !.rateMin = Max({@, min}),
                                                                 !.rateMax = Max({@, min})]]]

\* A migrated schedule that does not validate makes the whole change fail.
PruneAndValidate(cs, min) ==
    ValidateComplexity(cs) /\ ValidateNondegenerate(cs, min) /\ ValidateWithinBound(Prune(cs, epoch), epoch)

ChangeMinCommissionRate(min) ==
    LET new == Raise(schedule, min)
    IN  /\ min <= RateDenominator
        /\ new # schedule => PruneAndValidate(new, min)
        /\ minRate' = min
        /\ schedule' = IF new = schedule THEN schedule ELSE Prune(new, epoch)
        /\ UNCHANGED epoch

EpochTransition ==
    /\ epoch < MaxEpoch
    /\ epoch' = epoch + 1
    /\ UNCHANGED <<schedule, minRate>>

Next ==
    \/ \E am \in Amendment : AmendAndPruneAndValidate(am)
    \/ \E min \in RateValue : ChangeMinCommissionRate(min)
    \/ EpochTransition

Spec == Init /\ [][Next]_vars

-----------------------------------------------------------------------------
TypeOK ==
    /\ schedule.rates \in Seq(RateStep) /\ schedule.bounds \in Seq(BoundStep)
    /\ Len(schedule.rates) <= MaxRateSteps /\ Len(schedule.bounds) <= MaxBoundSteps
    /\ minRate \in RateValue /\ epoch \in 0 .. MaxEpoch

\* The bound step in effect at an epoch.
BoundAt(cs, e) ==
    LET started == {i \in 1 .. Len(cs.bounds) : cs.bounds[i].start <= e}
    IN  IF started = {} THEN None ELSE cs.bounds[Max(started)]

Future == epoch .. Max(Start) + 1

(* Now and at every later epoch, the rate that CurrentRate will pay lies     *)
(* within the bounds announced for that epoch and is not below the minimum   *)
(* rate, however amendments, pruning and migrations followed each other.     *)
RateWithinBounds ==
    \A e \in Future :
        LET r == CurrentRate(schedule, e)
            b == BoundAt(schedule, e)
        IN  /\ (r = None) = (b = None)
            /\ r # None => r \in b.rateMin .. b.rateMax /\ r >= minRate

(* The owner cannot change the bounds that delegators rely on for the next   *)
(* RateBoundLead epochs, nor the rate of the current one.                    *)
LeadRespected ==
    minRate' = minRate =>
        /\ CurrentRate(schedule', epoch) = CurrentRate(schedule, epoch)
        /\ schedule.bounds # <<>> =>
             \A e \in epoch .. epoch + RateBoundLead : BoundAt(schedule', e) = BoundAt(schedule, e)

(* The migration to another minimum rate only raises rates, and leaves every *)
(* rate that is high enough as it was, at every later epoch.                 *)
MigrationOnlyRaises ==
    minRate' # minRate =>
        \A e \in Future : CurrentRate(schedule, e) # None =>
            CurrentRate(schedule', e) = Max({CurrentRate(schedule, e), minRate'})
=============================================================================

-------------------------------- MODULE Churp --------------------------------
(***************************************************************************)
(* CHURP, the key manager's proactive secret sharing: the status that      *)
(* consensus keeps (apps/keymanager/churp), the worker of every node that  *)
(* schedules applications and handoffs (worker/keymanager/churp.go), and   *)
(* the enclave that deals, exchanges and seals shares                      *)
(* (keymanager/src/churp, secret-sharing/src/churp).                       *)
(*                                                                         *)
(* A polynomial is the set of the dealers whose polynomials it is the sum  *)
(* of; a share is the polynomial that it is a share of; the checksum of a  *)
(* verification matrix is the polynomial and the epoch of the handoff.     *)
(***************************************************************************)
EXTENDS Integers, FiniteSets

CONSTANTS
    Nodes,              \* the registered key manager nodes
    Threshold,          \* degree of the polynomials
    Interval,           \* the interval between handoffs
    Extra,              \* the number of extra shares
    Updates,            \* what the owner may set: [interval, extra]
    Committee,          \* the committee that starts, {} before the first handoff
    Disabled,           \* the epoch that stands for no next handoff
    MaxAttempts,        \* the attempts of a worker to submit its application
    MaxEpoch,           \* bound: epochs
    MaxUpdates,         \* bound: updates by the owner
    MaxFaults           \* bound: crashes of nodes and of enclaves

VARIABLES
    epoch,              \* the current epoch
    status,             \* consensus: the status of the scheme
    txs,                \* transactions that nodes have submitted
    worker,             \* the worker of every node
    enclave,            \* the memory of every enclave
    disk,               \* what every enclave has sealed
    replaced,           \* history: the dealers replaced while their application was on its way
    updates, faults     \* numbers of updates and of faults so far

vars == <<epoch, status, txs, worker, enclave, disk, replaced, updates, faults>>

ChurpAssumption ==
    /\ Threshold \in Nat /\ Extra \in Nat /\ Interval \in Nat \ {0}
    /\ Committee \subseteq Nodes /\ Disabled > MaxEpoch + 2
    /\ MaxAttempts \in Nat \ {0}

-----------------------------------------------------------------------------
(* Polynomials, checksums and the kinds of handoffs *)

Checksum(e, sum) == [epoch |-> e, sum |-> sum]
NoChecksum == Checksum(0, {})
Dealer(n, e, k, zero) == [node |-> n, epoch |-> e, k |-> k, zero |-> zero]

Applicants(s) == DOMAIN s.apps
Reconstructed(s) == {n \in Applicants(s) : s.apps[n].done}
HandoffsDisabled(s) == s.interval = 0

HandoffKind(s) ==
    CASE s.committee = {} -> "dealing"
      [] s.committee # {} /\ s.committee = Applicants(s) -> "unchanged"
      [] OTHER -> "changed"

Larger(a, b) == IF a > b THEN a ELSE b
MinCommitteeSize(s) == Threshold + s.extra + 1

MinApplicants(s) ==
    CASE HandoffKind(s) = "dealing"   -> Larger(MinCommitteeSize(s), Threshold + 2)
      [] HandoffKind(s) = "unchanged" -> MinCommitteeSize(s)
      [] HandoffKind(s) = "changed"   -> Larger(MinCommitteeSize(s), 2 * Threshold + 1)

-----------------------------------------------------------------------------
(* Consensus *)

ResetHandoff(s, next) == [s EXCEPT !.next = next, !.nextChecksum = NoChecksum, !.apps = <<>>]

NextHandoff(s, epochChange) ==
    LET next == IF s.handoff < Disabled - s.interval THEN s.next + s.interval ELSE Disabled
    IN  IF epochChange /\ s.interval = 1 /\ next < Disabled THEN next + 1 ELSE next

CanFinalize(s, epochChange) ==
    /\ Cardinality(Reconstructed(s)) >= MinCommitteeSize(s)
    /\ ~epochChange => Reconstructed(s) = Applicants(s)

Finalized(s, epochChange) ==
    LET next == NextHandoff(s, epochChange)
    IN  [s EXCEPT !.handoff = s.next, !.checksum = s.nextChecksum,
                  !.committee = Reconstructed(s), !.next = next,
                  !.nextChecksum = NoChecksum, !.apps = <<>>,
                  !.interval = IF next = Disabled THEN 0 ELSE @]

TryFinalizeHandoff(s, epochChange) ==
    IF CanFinalize(s, epochChange) THEN Finalized(s, epochChange) ELSE s

\* What the first block of epoch e does to a scheme.
OnEpochChange(s, e) ==
    CASE HandoffsDisabled(s) -> s
      [] ~HandoffsDisabled(s) /\ e = s.next ->
            IF Cardinality(Applicants(s)) >= MinApplicants(s) THEN s ELSE ResetHandoff(s, e + 1)
      [] ~HandoffsDisabled(s) /\ e = s.next + 1 ->
            IF CanFinalize(s, TRUE) THEN Finalized(s, TRUE) ELSE ResetHandoff(s, e + 1)
      [] OTHER -> s

\* The owner's update of the interval and of the extra shares.
Updated(s, u) ==
    LET t == [s EXCEPT !.extra = u.extra, !.interval = u.interval]
    IN  CASE u.interval = 0 -> ResetHandoff(t, Disabled)
          [] u.interval # 0 /\ s.interval = 0 -> [t EXCEPT !.next = epoch + 1]
          [] OTHER -> t

\* Transactions carry the node, the epoch of the handoff and a checksum.
ApplyTx(n, c) == [kind |-> "apply", node |-> n, checksum |-> c]
ConfirmTx(n, c) == [kind |-> "confirm", node |-> n, checksum |-> c]

CanApply(s, tx) ==
    /\ tx.kind = "apply" /\ ~HandoffsDisabled(s)
    /\ s.next = epoch + 1 /\ s.next = tx.checksum.epoch
    /\ tx.node \notin Applicants(s)

Applied(s, tx) ==
    [s EXCEPT !.apps = [n \in Applicants(s) \cup {tx.node} |->
        IF n = tx.node THEN [checksum |-> tx.checksum, done |-> FALSE] ELSE s.apps[n]]]

CanConfirm(s, tx) ==
    /\ tx.kind = "confirm" /\ ~HandoffsDisabled(s)
    /\ s.next = epoch /\ s.next = tx.checksum.epoch
    /\ tx.node \in Applicants(s) \ Reconstructed(s)
    /\ s.nextChecksum \in {NoChecksum, tx.checksum}

Confirmed(s, tx) ==
    TryFinalizeHandoff([s EXCEPT !.nextChecksum = tx.checksum, !.apps[tx.node].done = TRUE], FALSE)

-----------------------------------------------------------------------------
(* The worker of a node: a task for its application and one for the handoff. *)
(* left: the nodes that the current stage still asks for shares; failed: the *)
(* attempts that failed.                                                     *)

NoTask == [next |-> 0, state |-> "none", stage |-> "none", left |-> {}, failed |-> 0]
Task(next) == [NoTask EXCEPT !.next = next, !.state = "queued"]
Known(task) == task.state # "none"
Running(task) == task.state = "running"

\* Nothing is finalized for the first status that a worker sees.
Unseen == [handoff |-> -1, next |-> -1]
Idle == [up |-> TRUE, sub |-> NoTask, hand |-> NoTask, last |-> Unseen, fin |-> -1]
Down == [Idle EXCEPT !.up = FALSE]

QueueSubmission(task, n, s) ==
    LET kept == IF Known(task) /\ task.next >= s.next THEN task ELSE Task(s.next)
    IN  IF n \in Applicants(s) \/ HandoffsDisabled(s) THEN NoTask ELSE kept

QueueHandoff(task, n, s) ==
    CASE HandoffsDisabled(s) -> NoTask
      [] ~HandoffsDisabled(s) /\ Known(task) /\ task.next = s.next -> task
      [] OTHER -> IF n \in Applicants(s) \ Reconstructed(s) THEN Task(s.next) ELSE NoTask

HandleStatusUpdate(w, n, s) ==
    LET seen == [handoff |-> s.handoff, next |-> s.next]
    IN  [w EXCEPT !.sub = QueueSubmission(@, n, s), !.hand = QueueHandoff(@, n, s),
                  !.last = seen,
                  !.fin = IF w.last \in {Unseen, seen} THEN @ ELSE s.handoff]

Cancel(task, e) == IF Running(task) /\ task.next >= e THEN NoTask ELSE task
\* A cleared task leaves the queue but is still known, so it never runs.
Clear(task, e) == IF task.state = "queued" /\ task.next < e THEN [task EXCEPT !.state = "cleared"] ELSE task

HandleNewEpoch(w, e) ==
    [w EXCEPT !.sub = Clear(Cancel(@, e + 1), e + 1), !.hand = Clear(Cancel(@, e), e)]

\* Every worker that is up sees a new status.
Watch(ws, s) ==
    [n \in Nodes |-> IF ws[n].up /\ s # status THEN HandleStatusUpdate(ws[n], n, s) ELSE ws[n]]

-----------------------------------------------------------------------------
(* The enclave.  handoff.stage: matrix and points (share reduction), merge   *)
(* (proactivization), distribute (full share distribution), done.            *)

Sealed(e, sum) == [epoch |-> e, sum |-> sum]
Nothing == Sealed(0, {})
NoHandoff == [epoch |-> 0, kind |-> "none", stage |-> "none", nodes |-> {}, base |-> {}, sum |-> {}]
Empty == [ready |-> FALSE, shares |-> <<>>, dealer |-> Nothing, handoff |-> NoHandoff]

Ready(n) == worker[n].up /\ enclave[n].ready
GetShareholder(n, e) == enclave[n].shares[e]
HasShareholder(n, e) == e \in DOMAIN enclave[n].shares
AddShareholder(shares, e, sum) == [x \in DOMAIN shares \cup {e} |-> IF x = e THEN sum ELSE shares[x]]

\* Keeps the share of epoch e and the newest one before it.
CleanShareholders(shares, e) ==
    LET older == {x \in DOMAIN shares : x < e}
    IN  [x \in {y \in DOMAIN shares : y = e \/ (y \in older /\ \A z \in older : z <= y)} |-> shares[x]]

\* A handoff lasts for the epoch for which it was planned.
HandoffOpen == status.next = epoch
HandoffOf(n) == enclave[n].handoff
InHandoff(n) == HandoffOf(n).epoch = status.next

\* The first call after a start loads what was sealed for the current epochs; a
\* share of the last handoff may still be sealed as the next one.
LoadedShare(d) ==
    IF d.share.epoch # status.handoff /\ d.next.epoch = status.handoff THEN d.next ELSE d.share

DealerMatches(n) ==
    /\ disk[n].poly.epoch = status.next /\ n \in Applicants(status)
    => status.apps[n].checksum = disk[n].poly

LoadedShares(d) ==
    LET found == {s \in {LoadedShare(d), d.next} : s.epoch \in {status.handoff, status.next} /\ s.epoch # 0}
    IN  [e \in {s.epoch : s \in found} |-> (CHOOSE s \in found : s.epoch = e).sum]

InitInstance(n) ==
    /\ worker[n].up /\ ~enclave[n].ready
    /\ DealerMatches(n)
    /\ LET d == disk[n]
       IN  /\ disk' = IF status.handoff = 0 THEN disk ELSE [disk EXCEPT ![n].share = LoadedShare(d)]
           /\ enclave' = [enclave EXCEPT ![n] = [Empty EXCEPT !.ready = TRUE, !.shares = LoadedShares(d),
                            !.dealer = IF d.poly.epoch = status.next THEN d.poly ELSE Nothing]]
    /\ UNCHANGED <<epoch, status, txs, worker, replaced, updates, faults>>

-----------------------------------------------------------------------------
(* Applications *)

StartSubmission(n) ==
    /\ worker[n].up /\ worker[n].sub.state = "queued"
    /\ epoch >= worker[n].sub.next - 1
    /\ worker' = [worker EXCEPT ![n].sub.state = "running"]
    /\ UNCHANGED <<epoch, status, txs, enclave, disk, replaced, updates, faults>>

\* Every application comes with a new dealer, which replaces the last one.
NewDealer(n) ==
    LET old == {d.k : d \in {x \in disk[n].poly.sum : disk[n].poly.epoch = status.next}}
    IN  Dealer(n, status.next, IF old = {} THEN 0 ELSE (CHOOSE k \in old : TRUE) + 1, status.committee # {})

\* The enclave makes one dealer after the other until its node has applied.
MayApply(n, e) ==
    status.next = e /\ e # Disabled /\ n \notin Applicants(status) /\ e = epoch + 1

Pending(n) == {tx \in txs : tx.kind = "apply" /\ tx.node = n}
Attempt(task, ok) == IF ok THEN [task EXCEPT !.stage = "sent"] ELSE [task EXCEPT !.failed = @ + 1]

\* The enclave makes a dealer and the transaction is submitted.  An attempt may
\* fail after the enclave has answered, with its transaction lost or still on its
\* way; the next attempt then asks for another dealer.
TrySubmitApplication(n, ok, submitted) ==
    /\ Running(worker[n].sub) /\ worker[n].sub.stage # "sent" /\ Ready(n)
    /\ worker[n].sub.failed < MaxAttempts /\ (ok => submitted)
    /\ MayApply(n, worker[n].sub.next)
    /\ LET c == Checksum(status.next, {NewDealer(n)})
       IN  /\ disk' = [disk EXCEPT ![n].poly = c]
           /\ enclave' = [enclave EXCEPT ![n].dealer = c]
           /\ txs' = IF submitted THEN txs \cup {ApplyTx(n, c)} ELSE txs
    /\ replaced' = replaced \cup {tx.checksum : tx \in Pending(n)}
    /\ worker' = [worker EXCEPT ![n].sub = Attempt(@, ok)]
    /\ UNCHANGED <<epoch, status, updates, faults>>

-----------------------------------------------------------------------------
(* Handoffs *)

StartHandoff(n) ==
    /\ worker[n].up /\ worker[n].hand.state = "queued"
    /\ epoch >= worker[n].hand.next /\ status.next = worker[n].hand.next
    /\ LET changed == HandoffKind(status) = "changed"
       IN  worker' = [worker EXCEPT ![n].hand.state = "running",
                        ![n].hand.stage = IF changed THEN "reduction" ELSE "proactivization",
                        ![n].hand.left = IF changed THEN status.committee ELSE Applicants(status)]
    /\ UNCHANGED <<epoch, status, txs, enclave, disk, replaced, updates, faults>>

\* The stage of n's executor that asks node m.
Asks(n, m, stage) ==
    /\ Running(worker[n].hand) /\ worker[n].hand.stage = stage /\ m \in worker[n].hand.left
    /\ Ready(n) /\ Ready(m)
    /\ HandoffOpen /\ status.next = worker[n].hand.next

NewStage(n, m, done, stage, left) ==
    IF done THEN [worker EXCEPT ![n].hand.stage = stage, ![n].hand.left = left]
    ELSE [worker EXCEPT ![n].hand.left = @ \ {m}]

\* The object of a handoff, made by its first request.
Created(n) ==
    LET kind == HandoffKind(status)
        new  == [NoHandoff EXCEPT !.epoch = status.next, !.kind = kind,
                    !.stage = IF kind = "changed" THEN "matrix" ELSE "merge",
                    !.nodes = IF kind = "changed" THEN {} ELSE Applicants(status),
                    !.base = IF kind = "unchanged" THEN GetShareholder(n, status.handoff) ELSE {}]
    IN  IF InHandoff(n) THEN HandoffOf(n) ELSE new

EnoughShareholders ==
    Cardinality(Applicants(status)) >= Threshold + (IF HandoffKind(status) = "dealing" THEN 2 ELSE 1)

CanCreate(n) ==
    ~InHandoff(n) => /\ HandoffOf(n).epoch < status.next
                     /\ EnoughShareholders
                     /\ HandoffKind(status) = "unchanged" => HasShareholder(n, status.handoff)

\* A member of the last committee gives node n a point of its share, from
\* threshold + 1 of which n interpolates a share of reduced dimension.
ReductionPoints == Threshold + 1
ServesReductionPoint(m, n) ==
    /\ HandoffKind(status) = "changed"
    /\ m \in status.committee /\ n \in Applicants(status)

\* The matrix that verifies points: one's own, or one with the right checksum.
MatrixFrom(m, n) ==
    {sum \in {GetShareholder(m, status.handoff)} : m = n \/ Checksum(status.handoff, sum) = status.checksum}

AddReductionPoint(h, m, base) ==
    LET got  == h.nodes \cup {m}
        done == Cardinality(got) = ReductionPoints
    IN  [h EXCEPT !.base = base, !.stage = IF done THEN "merge" ELSE "points",
                  !.nodes = IF done THEN Applicants(status) ELSE got]

FetchReductionPoint(n, m) ==
    /\ Asks(n, m, "reduction") /\ CanCreate(n)
    /\ m # n => ServesReductionPoint(m, n)
    /\ HasShareholder(m, status.handoff)
    /\ LET h == Created(n)
       IN  \E base \in IF h.stage = "matrix" THEN MatrixFrom(m, n) ELSE {h.base} :
            LET g == AddReductionPoint(h, m, base)
            IN  /\ h.stage \in {"matrix", "points"} /\ m \notin h.nodes
                /\ GetShareholder(m, status.handoff) = base
                /\ enclave' = [enclave EXCEPT ![n].handoff = g]
                /\ worker' = NewStage(n, m, g.stage = "merge", "proactivization", Applicants(status))
    /\ UNCHANGED <<epoch, status, txs, disk, replaced, updates, faults>>

\* Every applicant gives n a share of its dealer's polynomial; n adds them up.
\* Only one that is asked compares its dealer with its application.
ServesBivariateShare(m, n) ==
    /\ {n, m} \subseteq Applicants(status)
    /\ status.apps[m].checksum = enclave[m].dealer

AddBivariateShare(h, m, sum) ==
    LET done == h.nodes = {m}
    IN  [h EXCEPT !.nodes = @ \ {m}, !.sum = @ \cup sum,
                  !.stage = CASE ~done -> @
                              [] done /\ h.kind = "changed" -> "distribute"
                              [] OTHER -> "done"]

ZeroHole(sum) == \A d \in sum : d.zero

FetchBivariateShare(n, m) ==
    /\ Asks(n, m, "proactivization")
    /\ IF HandoffKind(status) = "changed" THEN InHandoff(n) ELSE CanCreate(n)
    /\ enclave[m].dealer.epoch = status.next
    /\ m # n => ServesBivariateShare(m, n)
    /\ LET h   == Created(n)
           sum == enclave[m].dealer.sum
           g   == AddBivariateShare(h, m, sum)
       IN  /\ h.stage = "merge" /\ m \in h.nodes
           /\ h.kind # "dealing" => ZeroHole(sum)
           /\ enclave' = [enclave EXCEPT ![n].handoff = g]
           /\ worker' = NewStage(n, m, g.stage # "merge", IF h.kind = "changed" THEN "wait" ELSE "confirmation", {})
    /\ UNCHANGED <<epoch, status, txs, disk, replaced, updates, faults>>

\* The old share with the new ones added to it.
ResultMutant(h) == h.sum
Result(h) == h.base \cup h.sum

\* Some blocks later, when most nodes have reduced shares.
SwitchDimension(n) ==
    /\ Running(worker[n].hand) /\ worker[n].hand.stage = "wait"
    /\ worker' = [worker EXCEPT ![n].hand.stage = "distribution", ![n].hand.left = Applicants(status)]
    /\ UNCHANGED <<epoch, status, txs, enclave, disk, replaced, updates, faults>>

\* An applicant with a reduced share gives n a point of it, from 2 * threshold
\* + 1 of which n interpolates its full share.
DistributionPoints == 2 * Threshold + 1
ServesDistributionPoint(m, n) ==
    /\ {n, m} \subseteq Applicants(status) /\ HandoffKind(status) = "changed"
    /\ InHandoff(m) /\ HandoffOf(m).stage \in {"distribute", "done"}

AddDistributionPoint(h, m) ==
    LET got == h.nodes \cup {m}
    IN  [h EXCEPT !.nodes = got, !.stage = IF Cardinality(got) = DistributionPoints THEN "done" ELSE @]

FetchDistributionPoint(n, m) ==
    /\ Asks(n, m, "distribution") /\ InHandoff(n) /\ ServesDistributionPoint(m, n)
    /\ LET h == HandoffOf(n)
           g == AddDistributionPoint(h, m)
       IN  /\ h.stage = "distribute" /\ m \notin h.nodes
           /\ Result(HandoffOf(m)) = Result(h)
           /\ enclave' = [enclave EXCEPT ![n].handoff = g]
           /\ worker' = NewStage(n, m, g.stage = "done", "confirmation", {})
    /\ UNCHANGED <<epoch, status, txs, disk, replaced, updates, faults>>

\* The enclave seals its next share before it signs the confirmation.
TrySubmitConfirmation(n) ==
    /\ Running(worker[n].hand) /\ worker[n].hand.stage = "confirmation" /\ Ready(n)
    /\ HandoffOpen /\ status.next = worker[n].hand.next
    /\ n \in Applicants(status) /\ InHandoff(n) /\ HandoffOf(n).stage = "done"
    /\ LET sum == Result(HandoffOf(n))
       IN  /\ disk' = [disk EXCEPT ![n].next = Sealed(status.next, sum)]
           /\ enclave' = [enclave EXCEPT ![n].shares = AddShareholder(@, status.next, sum)]
           /\ txs' = txs \cup {ConfirmTx(n, Checksum(status.next, sum))}
    /\ worker' = [worker EXCEPT ![n].hand.stage = "sent"]
    /\ UNCHANGED <<epoch, status, replaced, updates, faults>>

\* Dealers and handoffs of the past are forgotten.
Forget(x, nothing) == IF x.epoch < status.next THEN nothing ELSE x

\* After every handoff, also one that failed.  It is not retried.
FinalizeHandoff(n) ==
    /\ worker[n].fin # -1 /\ Ready(n)
    /\ worker' = [worker EXCEPT ![n].fin = -1]
    /\ LET e      == worker[n].fin
           shares == CleanShareholders(enclave[n].shares, e)
       IN  IF status.handoff # e THEN UNCHANGED <<enclave, disk>>
           ELSE /\ enclave' = [enclave EXCEPT ![n] = [@ EXCEPT
                        !.shares = shares,
                        !.dealer = Forget(@, Nothing), !.handoff = Forget(@, NoHandoff)]]
                /\ disk' = IF e \in DOMAIN shares THEN [disk EXCEPT ![n].share = Sealed(e, shares[e])]
                           ELSE disk
    /\ UNCHANGED <<epoch, status, txs, replaced, updates, faults>>

-----------------------------------------------------------------------------
(* Blocks, the owner and faults *)

ExecuteTx(tx) ==
    /\ tx \in txs /\ txs' = txs \ {tx}
    /\ status' = CASE CanApply(status, tx) -> Applied(status, tx)
                   [] CanConfirm(status, tx) -> Confirmed(status, tx)
                   [] OTHER -> status
    /\ worker' = Watch(worker, status')
    /\ UNCHANGED <<epoch, enclave, disk, replaced, updates, faults>>

Update(u) ==
    /\ updates < MaxUpdates /\ updates' = updates + 1
    /\ status' = Updated(status, u)
    /\ worker' = Watch(worker, status')
    /\ UNCHANGED <<epoch, txs, enclave, disk, replaced, faults>>

\* Epochs are long: what a worker started at the end of a handoff is over when
\* the next epoch comes.  The mempool drops transactions that are too late.
EpochChange ==
    /\ epoch < MaxEpoch /\ epoch' = epoch + 1
    /\ \A n \in Nodes : worker[n].fin = -1
    /\ status' = OnEpochChange(status, epoch')
    /\ worker' = Watch([n \in Nodes |-> IF worker[n].up THEN HandleNewEpoch(worker[n], epoch') ELSE worker[n]],
                       status')
    /\ txs' = {tx \in txs : tx.checksum.epoch > epoch' \/ (tx.kind = "confirm" /\ tx.checksum.epoch = epoch')}
    /\ UNCHANGED <<enclave, disk, replaced, updates, faults>>

Fault == faults < MaxFaults /\ faults' = faults + 1

Crash(n) ==
    /\ Fault /\ worker[n].up
    /\ worker' = [worker EXCEPT ![n] = Down]
    /\ enclave' = [enclave EXCEPT ![n] = Empty]
    /\ UNCHANGED <<epoch, status, txs, disk, replaced, updates>>

Restart(n) ==
    /\ ~worker[n].up
    /\ worker' = [worker EXCEPT ![n] = HandleStatusUpdate(Idle, n, status)]
    /\ UNCHANGED <<epoch, status, txs, enclave, disk, replaced, updates, faults>>

\* The runtime alone is restarted, its worker goes on.
RestartEnclave(n) ==
    /\ Fault /\ Ready(n)
    /\ enclave' = [enclave EXCEPT ![n] = Empty]
    /\ UNCHANGED <<epoch, status, txs, worker, disk, replaced, updates>>

-----------------------------------------------------------------------------
\* Either nothing has happened yet, or a committee completed the first handoff.
FirstHandoff == IF Committee = {} THEN 0 ELSE 1
FirstSum == {Dealer(n, 1, 0, FALSE) : n \in Committee}
InitialStatus ==
    [handoff |-> FirstHandoff, checksum |-> Checksum(FirstHandoff, FirstSum), committee |-> Committee,
     next |-> FirstHandoff + (IF Committee = {} THEN 1 ELSE Interval), nextChecksum |-> NoChecksum,
     interval |-> Interval, extra |-> Extra, apps |-> <<>>]

Init ==
    /\ epoch = FirstHandoff /\ status = InitialStatus /\ txs = {}
    /\ worker = [n \in Nodes |-> HandleStatusUpdate(Idle, n, InitialStatus)]
    /\ enclave = [n \in Nodes |-> [Empty EXCEPT !.ready = TRUE,
                    !.shares = [e \in IF n \in Committee THEN {1} ELSE {} |-> FirstSum]]]
    /\ disk = [n \in Nodes |-> [poly |-> Nothing, next |-> Nothing,
                    share |-> IF n \in Committee THEN Sealed(1, FirstSum) ELSE Nothing]]
    /\ replaced = {} /\ updates = 0 /\ faults = 0

ExecuteTxs == \E tx \in txs : ExecuteTx(tx)

\* What the nodes of a handoff do.
HandoffStep ==
    \/ \E n \in Nodes : \/ StartHandoff(n) \/ SwitchDimension(n) \/ TrySubmitConfirmation(n)
    \/ \E n, m \in Nodes : \/ FetchReductionPoint(n, m) \/ FetchBivariateShare(n, m)
                           \/ FetchDistributionPoint(n, m)
    \/ ExecuteTxs

Next ==
    \/ HandoffStep \/ EpochChange
    \/ \E u \in Updates : Update(u)
    \/ \E n \in Nodes, ok, submitted \in BOOLEAN : TrySubmitApplication(n, ok, submitted)
    \/ \E n \in Nodes : \/ InitInstance(n) \/ StartSubmission(n) \/ FinalizeHandoff(n)
                        \/ Crash(n) \/ Restart(n) \/ RestartEnclave(n)

Spec == Init /\ [][Next]_vars

-----------------------------------------------------------------------------
IsSum(s) == s.epoch \in 0..MaxEpoch + 2 /\ \A d \in s.sum : d.node \in Nodes /\ d.epoch <= s.epoch

TypeOK ==
    /\ epoch \in 0..MaxEpoch
    /\ status.committee \subseteq Nodes /\ Applicants(status) \subseteq Nodes
    /\ IsSum(status.checksum) /\ IsSum(status.nextChecksum)
    /\ status.handoff < status.next /\ status.handoff <= epoch
    /\ status.next \in epoch..epoch + status.interval + 1 \cup {Disabled}
    /\ \A tx \in txs : tx.node \in Nodes /\ IsSum(tx.checksum)
    /\ \A n \in Nodes :
        /\ worker[n].sub.left = {} /\ worker[n].hand.left \subseteq Nodes
        /\ IsSum(enclave[n].dealer) /\ IsSum(disk[n].poly) /\ IsSum(disk[n].share) /\ IsSum(disk[n].next)

\* Whatever crashes, every member of the committee has sealed its share of the
\* last handoff, and a member whose enclave runs can use it.
SharesKept ==
    \A n \in status.committee :
        /\ \E s \in {disk[n].share, disk[n].next} : s = status.checksum
        /\ Ready(n) => /\ HasShareholder(n, status.handoff)
                       /\ GetShareholder(n, status.handoff) = status.checksum.sum

\* The secret is the sum of the dealers of the first handoff.
SecretOf(s) == {d \in s.checksum.sum : ~d.zero}
\* Handoffs renew the shares and never the secret.
SecretKept == status.committee # {} => status'.committee # {} /\ SecretOf(status') = SecretOf(status)

\* The applicants whose enclave no longer has the dealer they applied with.
Orphaned == {n \in Applicants(status) : enclave[n].dealer # status.apps[n].checksum}

\* As long as nothing crashes and the owner changes nothing, only an attempt to
\* apply that was repeated while the transaction of the last one was on its way
\* takes the dealer from an application: the enclave then has a newer one and
\* refuses to deal.
DealersKept ==
    faults = 0 /\ updates = 0 => \A n \in Orphaned : status.apps[n].checksum \in replaced

\* As long as nothing crashes, a handoff that goes on with the dealers of its
\* applicants has enough shares for every applicant to complete it: nobody waits
\* for what nobody can give.
HandoffNeverStuck ==
    /\ HandoffOpen /\ faults = 0 /\ updates = 0 /\ Orphaned = {}
    /\ Cardinality(Applicants(status)) >= MinApplicants(status)
    => ENABLED HandoffStep
=============================================================================

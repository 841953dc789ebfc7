-------------------------------- MODULE Ledger --------------------------------
(***************************************************************************)
(* What a replicated ledger promises, with none of the machinery: consensus  *)
(* decides blocks, the blocks are applied to the state one by one in the     *)
(* order of the decisions, each of them once, and a power failure takes back *)
(* those applied since the state was last made durable (they are applied     *)
(* again).  Execute(b) is the trace that block b leaves in the state.        *)
(***************************************************************************)
EXTENDS Naturals, Sequences

CONSTANTS Block, Execute(_), Genesis

VARIABLES log, applied, state,
          durable   \* what a power failure leaves: [applied, state]

ledger == <<log, applied, state, durable>>

Init ==
    /\ log = <<>> /\ applied = 0 /\ state = Genesis
    /\ durable = [applied |-> 0, state |-> Genesis]

Decide(b) ==
    /\ log' = Append(log, b)
    /\ UNCHANGED <<applied, state, durable>>

Apply ==
    /\ applied < Len(log)
    /\ applied' = applied + 1
    /\ state' = state \o Execute(log[applied'])
    /\ UNCHANGED <<log, durable>>

Sync ==
    /\ durable' = [applied |-> applied, state |-> state]
    /\ UNCHANGED <<log, applied, state>>

\* The durable version comes back; no decision is lost.
Lose ==
    /\ applied' = durable.applied /\ state' = durable.state
    /\ UNCHANGED <<log, durable>>

Next == (\E b \in Block : Decide(b)) \/ Apply \/ Sync \/ Lose

Spec == Init /\ [][Next]_ledger
=============================================================================

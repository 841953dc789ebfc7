----------------------------- MODULE Registration -----------------------------
(***************************************************************************)
(* The registration worker of a node.  Parts of the node that serve a role   *)
(* say whether they are available and how to fill in the node descriptor;    *)
(* the worker registers the node in every epoch, and when a role changes, as *)
(* long as all of them are available.  On request it lets the registration   *)
(* lapse and shuts the node down, also when the node crashes in between.      *)
(*                                                                         *)
(* A version of a role provider stands for the hook that it was set with.    *)
(* Consensus is its epoch, the registration of the node and whether the      *)
(* entity of the node is registered and lists the node.                      *)
(***************************************************************************)
EXTENDS Integers, FiniteSets, FiniteSetsExt

CONSTANTS Providers,
          DelayReregistration,   \* by a random number of blocks in every epoch
          MaxEpoch, MaxChanges, MaxFaults, MaxCrashes   \* bounds

RegistrationAssumption ==
    /\ Providers # {} /\ IsFiniteSet(Providers)
    /\ DelayReregistration \in BOOLEAN /\ MaxEpoch \in Nat \ {0}
    /\ MaxChanges \in Nat /\ MaxFaults \in Nat /\ MaxCrashes \in Nat

ASSUME RegistrationAssumed == RegistrationAssumption

VARIABLES
    epoch, registered, entity,   \* consensus
    epochCh, entityCh, registerCh,   \* the latest epoch or 0; pending notifications
    provider,         \* [available, version, cb], cb is the version with a callback, or 0
    pc,               \* of the worker
    loopEpoch, armed, first,
    attempt,          \* the hooks that are being registered: [epoch, vers, cbs]
    stopReg,          \* whether stopRegCh is closed
    stored,           \* the persisted request to deregister
    seen,             \* versions that the loop has looked at
    called,           \* callbacks that were called
    changes, faults, crashes

consensusVars == <<epoch, registered, entity>>
channelVars   == <<epochCh, entityCh, registerCh>>
loopVars      == <<pc, loopEpoch, armed, first, attempt, seen, called>>
stopVars      == <<stopReg, stored>>
boundVars     == <<changes, faults, crashes>>
vars == <<consensusVars, channelVars, loopVars, stopVars, boundVars, provider>>

NoVersions    == [p \in Providers |-> 0]
NotRegistered == [expiration |-> 0, vers |-> NoVersions]
NoAttempt     == [epoch |-> 0, vers |-> NoVersions, cbs |-> {}]

Versions == [p \in Providers |-> provider[p].version]

\* The last epoch of a behaviour is without faults, and the loop sees it.
Fault    == faults < MaxFaults /\ epoch < MaxEpoch /\ faults' = faults + 1

-----------------------------------------------------------------------------
(* Role providers.                                                         *)

\* A provider sets a hook, with or without a callback, or takes it away.
SetAvailableWithCallback(p, hook, cb) ==
    LET v == provider[p].version + 1
    IN /\ pc # "down" /\ changes < MaxChanges /\ changes' = changes + 1
       /\ provider' = [provider EXCEPT ![p] =
              [available |-> hook, version |-> v, cb |-> IF cb THEN v ELSE 0]]
       /\ registerCh' = TRUE
       /\ UNCHANGED <<consensusVars, epochCh, entityCh, loopVars, stopVars, faults, crashes>>

SetAvailable(p)   == \E cb \in BOOLEAN : SetAvailableWithCallback(p, TRUE, cb)
SetUnavailable(p) == SetAvailableWithCallback(p, FALSE, FALSE)

-----------------------------------------------------------------------------
(* The registration loop.                                                  *)

\* The hooks are collected; the entity of the node must list it.
Register(e) ==
    /\ seen' = IF e = 0 THEN seen ELSE Versions
    /\ armed' = IF e = 0 THEN armed ELSE FALSE
    /\ IF e # 0 /\ (\A p \in Providers : provider[p].available) /\ entity
       THEN \/ /\ pc' = "trying"
               /\ attempt' = [epoch |-> e, vers |-> Versions,
                              cbs |-> {<<p, provider[p].cb>> : p \in {q \in Providers : provider[q].cb # 0}}]
               /\ UNCHANGED faults
            \/ Fault /\ UNCHANGED <<pc, attempt>>   \* GetEntity fails
       ELSE UNCHANGED <<pc, attempt, faults>>

LoopUnchanged == UNCHANGED <<consensusVars, stopVars, provider, first, called, changes, crashes>>

OnRegisterCh ==
    /\ pc = "select" /\ registerCh
    /\ registerCh' = FALSE
    /\ Register(loopEpoch)
    /\ LoopUnchanged /\ UNCHANGED <<epochCh, entityCh, loopEpoch>>

OnEntity ==
    /\ pc = "select" /\ entityCh
    /\ entityCh' = FALSE
    /\ Register(loopEpoch)
    /\ LoopUnchanged /\ UNCHANGED <<epochCh, registerCh, loopEpoch>>

\* The loop does not wait when the height of the epoch cannot be queried.
OnEpoch ==
    /\ pc = "select" /\ epochCh # 0
    /\ epochCh' = 0 /\ loopEpoch' = epochCh
    /\ \/ DelayReregistration /\ armed' = TRUE /\ UNCHANGED <<pc, attempt, seen, faults>>
       \/ (~DelayReregistration \/ faults < MaxFaults) /\ Register(epochCh)
    /\ LoopUnchanged /\ UNCHANGED <<entityCh, registerCh>>

\* The height for the re-registration is reached.
OnBlock ==
    /\ pc = "select" /\ armed
    /\ Register(loopEpoch)
    /\ LoopUnchanged /\ UNCHANGED <<channelVars, loopEpoch>>

\* The node leaves the loop when it was asked to.
OnStop ==
    /\ pc = "select" /\ stopReg
    /\ pc' = "waiting"
    /\ UNCHANGED <<consensusVars, channelVars, loopEpoch, armed, first, attempt, seen, called, stopVars, boundVars, provider>>

\* Registration for an epoch: accepted unless it expires at once.
RegisterNode(e) ==
    \/ /\ e + 2 > epoch
       /\ registered' = [expiration |-> e + 2, vers |-> attempt.vers]
       /\ pc' = "calling" /\ first' = FALSE
       /\ UNCHANGED faults
    \/ /\ Fault \/ (e + 2 <= epoch /\ UNCHANGED faults)
       /\ pc' = IF first THEN "trying" ELSE "select"
       /\ UNCHANGED <<registered, first>>

\* regFn: an epoch that has come is the one to register for; after the first
\* registration there are no retries.
Try ==
    /\ pc = "trying"
    /\ \/ /\ stopReg
          /\ pc' = IF first THEN "waiting" ELSE "select"
          /\ UNCHANGED <<registered, epochCh, attempt, first, faults>>
       \/ /\ epochCh # 0
          /\ attempt' = [attempt EXCEPT !.epoch = epochCh] /\ epochCh' = 0
          /\ RegisterNode(epochCh)
       \/ /\ ~stopReg /\ epochCh = 0
          /\ RegisterNode(attempt.epoch)
          /\ UNCHANGED <<attempt, epochCh>>
    /\ UNCHANGED <<epoch, entity, entityCh, registerCh, loopEpoch, armed, seen, called, stopVars, changes, crashes, provider>>

\* Callbacks are called, and forgotten unless the provider has changed.
CallMutant ==
    /\ pc = "calling" /\ pc' = "select"
    /\ called' = called \cup attempt.cbs
    /\ UNCHANGED <<consensusVars, channelVars, loopEpoch, armed, first, attempt, seen, stopVars, boundVars, provider>>
Call ==
    /\ pc = "calling" /\ pc' = "select"
    /\ provider' = [p \in Providers |->
           IF provider[p].version = attempt.vers[p] THEN [provider[p] EXCEPT !.cb = 0] ELSE provider[p]]
    /\ called' = called \cup attempt.cbs
    /\ UNCHANGED <<consensusVars, channelVars, loopEpoch, armed, first, attempt, seen, stopVars, boundVars>>

-----------------------------------------------------------------------------
(* Leaving.                                                                *)

RequestDeregistration ==
    /\ pc \notin {"down", "stopped"} /\ ~stopReg
    /\ stored' = TRUE /\ stopReg' = TRUE
    /\ UNCHANGED <<consensusVars, channelVars, loopVars, boundVars, provider>>

\* The node is not registered any more: the request is done with and the node
\* is shut down.
RegistrationStopped ==
    /\ pc = "waiting" /\ registered = NotRegistered
    /\ pc' = "stopped"
    /\ \/ stored' = FALSE /\ UNCHANGED faults
       \/ Fault /\ UNCHANGED stored
    /\ UNCHANGED <<consensusVars, channelVars, loopEpoch, armed, first, attempt, seen, called, stopReg, changes, crashes, provider>>

-----------------------------------------------------------------------------
(* Consensus, crashes.                                                     *)

NewEpoch ==
    /\ epoch < MaxEpoch /\ (epoch + 1 = MaxEpoch => pc # "trying")
    /\ epoch' = epoch + 1
    /\ epochCh' = IF pc = "down" THEN 0 ELSE epoch + 1
    /\ registered' = IF registered.expiration < epoch + 1 THEN NotRegistered ELSE registered
    /\ UNCHANGED <<entity, entityCh, registerCh, loopVars, stopVars, boundVars, provider>>

EntityChanges ==
    /\ changes < MaxChanges /\ changes' = changes + 1
    /\ entity' = ~entity
    /\ entityCh' = (pc # "down" /\ (entityCh \/ ~entity))
    /\ UNCHANGED <<epoch, registered, epochCh, registerCh, loopVars, stopVars, faults, crashes, provider>>

\* Also the end of a worker that cannot query whether it is still registered.
Crash ==
    /\ pc \notin {"down", "stopped"} /\ crashes < MaxCrashes /\ crashes' = crashes + 1
    /\ pc' = "down" /\ attempt' = NoAttempt /\ armed' = FALSE /\ first' = TRUE /\ loopEpoch' = 0
    /\ provider' = [p \in Providers |-> [provider[p] EXCEPT !.available = FALSE, !.cb = 0]]
    /\ seen' = Versions /\ stopReg' = FALSE
    /\ epochCh' = 0 /\ entityCh' = FALSE /\ registerCh' = FALSE
    /\ UNCHANGED <<consensusVars, called, stored, changes, faults>>

\* A node that was to leave goes on to wait for its registration to lapse.
RestartMutant ==
    /\ pc = "down" /\ pc' = "select"
    /\ epochCh' = epoch
    /\ UNCHANGED <<consensusVars, entityCh, registerCh, loopEpoch, armed, first, attempt, seen, called, stopVars, boundVars, provider>>
Restart ==
    /\ pc = "down"
    /\ pc' = IF stored THEN "waiting" ELSE "select"
    /\ epochCh' = epoch
    /\ UNCHANGED <<consensusVars, entityCh, registerCh, loopEpoch, armed, first, attempt, seen, called, stopVars, boundVars, provider>>

Init ==
    /\ epoch = 1 /\ registered = NotRegistered /\ entity = FALSE
    /\ epochCh = 1 /\ entityCh = FALSE /\ registerCh = FALSE
    /\ provider = [p \in Providers |-> [available |-> FALSE, version |-> 0, cb |-> 0]]
    /\ pc = "select" /\ loopEpoch = 0 /\ armed = FALSE /\ first = TRUE
    /\ attempt = NoAttempt /\ seen = NoVersions /\ called = {}
    /\ stopReg = FALSE /\ stored = FALSE
    /\ changes = 0 /\ faults = 0 /\ crashes = 0

Loop == OnRegisterCh \/ OnEntity \/ OnEpoch \/ OnBlock \/ OnStop \/ Try \/ Call

Next ==
    \/ \E p \in Providers : SetAvailable(p)
    \/ \E p \in Providers : SetUnavailable(p)
    \/ OnRegisterCh \/ OnEntity \/ OnEpoch \/ OnBlock \/ OnStop \/ Try \/ Call
    \/ RequestDeregistration
    \/ RegistrationStopped
    \/ NewEpoch
    \/ EntityChanges
    \/ Crash
    \/ Restart

Spec == Init /\ [][Next]_vars

-----------------------------------------------------------------------------
(* Properties.                                                             *)

\* Every variable stays in its type.
TypeOK ==
    /\ epoch \in 1..MaxEpoch /\ loopEpoch \in 0..epoch /\ epochCh \in 0..epoch
    /\ registered.expiration \in 0..MaxEpoch + 2
    /\ pc \in {"down", "select", "trying", "calling", "waiting", "stopped"}
    /\ \A p \in Providers : provider[p].version \in 0..MaxChanges /\ provider[p].cb \in {0, provider[p].version}

\* A callback is called once, after a registration that includes the hook it was
\* set with, as SetAvailableWithCallback promises.
CallbacksOnce ==
    pc = "calling" => attempt.cbs \cap called = {} /\ \A c \in attempt.cbs : attempt.vers[c[1]] = c[2]

\* Changes of roles are not lost between the providers and the loop: one that it
\* has not looked at is announced, or will be looked at when an epoch comes.
UpdatesAnnounced ==
    pc \in {"select", "trying", "calling"} /\ seen # Versions =>
        registerCh \/ epochCh # 0 \/ armed \/ pc # "select"

\* Nothing is registered that was not available when the loop looked at it, and
\* callbacks that wait are of hooks that are not taken away.
RegisteredWereAvailable ==
    /\ pc \in {"trying", "calling"} => \A p \in Providers : attempt.vers[p] \in 1..provider[p].version
    /\ \A p \in Providers : provider[p].cb # 0 => provider[p].available

\* Callbacks of role providers are called once, with the registration they are
\* for, and no change of a role gets lost on its way to the loop.
RegistrationRight == CallbacksOnce /\ UpdatesAnnounced /\ RegisteredWereAvailable

\* The registered roles become those that the providers have set, if they stay.
Wanted(p, v) ==
    /\ entity /\ ~stored /\ pc \notin {"down", "waiting", "stopped"} /\ epoch < MaxEpoch - 1
    /\ provider[p].version = v /\ \A q \in Providers : provider[q].available
Reached(p, v) ==
    \/ registered.vers[p] = v \/ provider[p].version # v
    \/ (\E q \in Providers : ~provider[q].available) \/ ~entity \/ stored

\* A node that is asked to leave is shut down once its registration has lapsed,
\* for which enough epochs have to follow.
Left == pc = "stopped" \/ (pc = "waiting" /\ epoch >= MaxEpoch - 2)
=============================================================================

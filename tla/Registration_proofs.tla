------------------------- MODULE Registration_proofs -------------------------
(***************************************************************************)
(* The registration worker, for every set of role providers and any number   *)
(* of epochs, changes of roles, failures and crashes.  Further down, the     *)
(* registry that it registers with and the liveness record of a node.        *)
(***************************************************************************)
EXTENDS Registration, FiniteSetTheorems, TLAPS

Pcs == {"down", "select", "trying", "calling", "waiting", "stopped"}

Types ==
    /\ epoch \in 1..MaxEpoch /\ loopEpoch \in 0..epoch /\ epochCh \in 0..epoch
    /\ registered \in [expiration : Nat, vers : [Providers -> Nat]]
    /\ registered.expiration <= epoch + 2
    /\ pc \in Pcs /\ changes \in 0..MaxChanges
    /\ provider \in [Providers -> [available : BOOLEAN, version : Nat, cb : Nat]]
    /\ seen \in [Providers -> Nat]
    /\ attempt \in [epoch : Nat, vers : [Providers -> Nat], cbs : SUBSET (Providers \X (Nat \ {0}))]
    /\ attempt.epoch <= epoch
    /\ called \subseteq Providers \X (Nat \ {0})

\* A callback that waits is the one of the last hook, which is set.
ProvidersOK ==
    \A p \in Providers :
        /\ provider[p].version <= changes
        /\ provider[p].cb \in {0, provider[p].version}
        /\ provider[p].cb # 0 => provider[p].available
        /\ provider[p].available => provider[p].version # 0

\* What was called does not wait any more and is not in the attempt.
CalledForgotten ==
    \A p \in Providers, v \in Nat \ {0} : <<p, v>> \in called =>
        /\ v <= provider[p].version /\ provider[p].cb # v
        /\ pc \in {"trying", "calling"} => <<p, v>> \notin attempt.cbs

\* An attempt is of hooks that were set, and its callbacks are of these hooks.
AttemptOK ==
    pc \in {"trying", "calling"} =>
        /\ \A p \in Providers : attempt.vers[p] \in 1..provider[p].version
        /\ \A p \in Providers, v \in Nat \ {0} : <<p, v>> \in attempt.cbs => v = attempt.vers[p]
        /\ loopEpoch # 0

\* The loop has an epoch or will get one, and has looked at the providers or
\* will.
Announced ==
    /\ pc = "down" => loopEpoch = 0
    /\ pc \in {"select", "trying", "calling"} =>
           /\ loopEpoch # 0 \/ epochCh # 0
           /\ seen = Versions \/ registerCh \/ armed \/ loopEpoch = 0

IInv == Types /\ ProvidersOK /\ CalledForgotten /\ AttemptOK /\ Announced

-----------------------------------------------------------------------------
LEMMA InitInv == Init => IInv
<1> SUFFICES ASSUME Init PROVE IInv
  OBVIOUS
<1> USE RegistrationAssumed DEF RegistrationAssumption, Init
<1>1. Types
  BY DEF Types, Pcs, NotRegistered, NoVersions, NoAttempt
<1>2. ProvidersOK
  BY DEF ProvidersOK
<1>3. CalledForgotten /\ AttemptOK
  BY DEF CalledForgotten, AttemptOK
<1>4. Announced
  BY DEF Announced
<1> QED
  BY <1>1, <1>2, <1>3, <1>4 DEF IInv

\* A provider that sets or takes away its hook.
LEMMA ProviderInv ==
    ASSUME NEW p \in Providers, NEW hook \in BOOLEAN, NEW cb \in BOOLEAN, cb => hook,
           IInv, SetAvailableWithCallback(p, hook, cb)
    PROVE  IInv'
<1> DEFINE v == provider[p].version + 1
           new == [available |-> hook, version |-> v, cb |-> IF cb THEN v ELSE 0]
<1> USE RegistrationAssumed DEF RegistrationAssumption
<1>1. /\ changes' = changes + 1 /\ changes < MaxChanges
      /\ provider' = [provider EXCEPT ![p] = new] /\ registerCh'
      /\ UNCHANGED <<consensusVars, epochCh, entityCh, loopVars, stopVars, faults, crashes>>
  BY DEF SetAvailableWithCallback
<1>2. /\ UNCHANGED <<epoch, registered, entity, epochCh, pc, loopEpoch, armed, first, attempt, seen, called>>
  BY <1>1 DEF consensusVars, loopVars
<1>3. provider[p].version \in Nat /\ changes \in Nat
  BY DEF IInv, Types
<1>4. new \in [available : BOOLEAN, version : Nat, cb : Nat] /\ new.version = v /\ new.cb \in {0, v}
      /\ new.available = hook /\ (new.cb # 0 => hook)
  BY <1>3
<1>5. /\ provider'[p] = new /\ \A q \in Providers : q # p => provider'[q] = provider[q]
  BY <1>1 DEF IInv, Types
<1>6. v \in Nat /\ v = provider[p].version + 1
  BY <1>3
<1> HIDE DEF new, v
<1>7. Types'
  <2>1. provider' \in [Providers -> [available : BOOLEAN, version : Nat, cb : Nat]]
    BY <1>1, <1>4 DEF IInv, Types
  <2> QED
    BY <1>1, <1>2, <1>3, <2>1 DEF IInv, Types
<1>8. ProvidersOK'
  <2> SUFFICES ASSUME NEW q \in Providers
               PROVE  /\ provider'[q].version <= changes + 1
                      /\ provider'[q].cb \in {0, provider'[q].version}
                      /\ provider'[q].cb # 0 => provider'[q].available
                      /\ provider'[q].available => provider'[q].version # 0
    BY <1>1 DEF ProvidersOK
  <2>1. CASE q = p
    BY <1>3, <1>4, <1>5, <1>6, <2>1 DEF IInv, ProvidersOK
  <2>2. CASE q # p
    <3>1. provider[q].version \in Nat
      BY DEF IInv, Types
    <3> QED
      BY <1>3, <1>5, <2>2, <3>1 DEF IInv, ProvidersOK
  <2> QED
    BY <2>1, <2>2
<1>9. CalledForgotten'
  <2> SUFFICES ASSUME NEW q \in Providers, NEW w \in Nat \ {0}, <<q, w>> \in called
               PROVE  /\ w <= provider'[q].version /\ provider'[q].cb # w
                      /\ pc \in {"trying", "calling"} => <<q, w>> \notin attempt.cbs
    BY <1>2 DEF CalledForgotten
  <2>1. w <= provider[q].version /\ provider[q].cb # w
        /\ (pc \in {"trying", "calling"} => <<q, w>> \notin attempt.cbs)
    BY DEF IInv, CalledForgotten
  <2>2. CASE q = p
    BY <1>3, <1>4, <1>5, <1>6, <2>1, <2>2
  <2> QED
    BY <1>5, <2>1, <2>2
<1>10. AttemptOK'
  <2>1. ASSUME pc \in {"trying", "calling"}, NEW q \in Providers
        PROVE  attempt.vers[q] \in 1..provider'[q].version
    <3>1. attempt.vers[q] \in 1..provider[q].version
      BY <2>1 DEF IInv, AttemptOK
    <3> QED
      BY <1>3, <1>4, <1>5, <1>6, <3>1
  <2> QED
    BY <1>2, <2>1 DEF IInv, AttemptOK
<1>11. Announced'
  BY <1>1, <1>2 DEF IInv, Announced
<1> QED
  BY <1>7, <1>8, <1>9, <1>10, <1>11 DEF IInv

\* The versions are numbers.
LEMMA VersionsTyped ==
    ASSUME Types PROVE Versions \in [Providers -> Nat] /\ \A p \in Providers : Versions[p] = provider[p].version
BY DEF Types, Versions

\* The start of an attempt, from any case of the loop: the hooks are looked at
\* and, if they are all set, registered.
LEMMA RegisterInv ==
    ASSUME IInv, NEW e \in 0..epoch, pc = "select", Register(e),
           UNCHANGED <<consensusVars, provider, called, changes>>,
           loopEpoch' = e, epochCh' \in {0, epochCh}, e # 0 \/ epochCh' # 0
    PROVE  IInv'
<1> USE RegistrationAssumed DEF RegistrationAssumption
<1> DEFINE waiting == {q \in Providers : provider[q].cb # 0}
           cbs == {<<p, provider[p].cb>> : p \in waiting}
           new == [epoch |-> e, vers |-> Versions, cbs |-> cbs]
<1>0. UNCHANGED <<epoch, registered, entity, provider, called, changes>> /\ Versions' = Versions
  BY DEF consensusVars, Versions
<1>1. \/ pc' = "trying" /\ attempt' = new /\ e # 0 /\ \A p \in Providers : provider[p].available
      \/ UNCHANGED <<pc, attempt>>
  BY DEF Register
<1>2. seen' = (IF e = 0 THEN seen ELSE Versions) /\ (e # 0 \/ seen' = seen)
  BY DEF Register
<1>3. epoch \in Nat /\ e \in Nat /\ Versions \in [Providers -> Nat]
  BY VersionsTyped DEF IInv, Types
<1>4. cbs \in SUBSET (Providers \X (Nat \ {0}))
  BY DEF IInv, Types
<1>5. \A p \in Providers, w \in Nat \ {0} : <<p, w>> \in cbs => w = provider[p].cb
  OBVIOUS
<1> HIDE DEF cbs
<1>6. Types'
  <2>1. new \in [epoch : Nat, vers : [Providers -> Nat], cbs : SUBSET (Providers \X (Nat \ {0}))]
        /\ new.epoch <= epoch
    BY <1>3, <1>4 DEF IInv, Types
  <2> HIDE DEF new
  <2>2. attempt' \in [epoch : Nat, vers : [Providers -> Nat], cbs : SUBSET (Providers \X (Nat \ {0}))]
        /\ attempt'.epoch <= epoch
    BY <1>1, <2>1 DEF IInv, Types
  <2>3. seen' \in [Providers -> Nat] /\ pc' \in Pcs
    BY <1>1, <1>2, <1>3 DEF IInv, Types, Pcs
  <2>4. epochCh' \in 0..epoch
    BY <1>3 DEF IInv, Types
  <2> QED
    BY <1>0, <1>3, <2>2, <2>3, <2>4 DEF IInv, Types
<1>7. ProvidersOK'
  BY <1>0 DEF IInv, ProvidersOK
<1>8. CalledForgotten'
  <2> SUFFICES ASSUME NEW q \in Providers, NEW w \in Nat \ {0}, <<q, w>> \in called
               PROVE  /\ w <= provider[q].version /\ provider[q].cb # w
                      /\ pc' \in {"trying", "calling"} => <<q, w>> \notin attempt'.cbs
    BY <1>0 DEF CalledForgotten
  <2>1. w <= provider[q].version /\ provider[q].cb # w
    BY DEF IInv, CalledForgotten
  <2>2. pc' \in {"trying", "calling"} => <<q, w>> \notin attempt'.cbs
    BY <1>1, <1>5, <2>1
  <2> QED
    BY <2>1, <2>2
<1>9. AttemptOK'
  <2> SUFFICES ASSUME pc' \in {"trying", "calling"} PROVE AttemptOK'
    BY DEF AttemptOK
  <2>1. attempt' = new /\ e # 0 /\ \A p \in Providers : provider[p].available
    BY <1>1
  <2>2. attempt'.vers = Versions /\ attempt'.cbs = cbs
    BY <2>1
  <2>3. ASSUME NEW p \in Providers
        PROVE  attempt'.vers[p] \in 1..provider'[p].version
    <3>1. provider[p].version \in Nat /\ provider[p].version # 0
      BY <2>1 DEF IInv, Types, ProvidersOK
    <3> QED
      BY <1>0, <2>2, <3>1 DEF Versions
  <2>4. ASSUME NEW p \in Providers, NEW w \in Nat \ {0}, <<p, w>> \in attempt'.cbs
        PROVE  w = attempt'.vers[p]
    <3>1. w = provider[p].cb
      BY <1>5, <2>2, <2>4
    <3> QED
      BY <2>2, <3>1 DEF IInv, ProvidersOK, Versions
  <2> QED
    BY <2>1, <2>3, <2>4 DEF AttemptOK
<1>10. Announced'
  BY <1>0, <1>1, <1>2 DEF Announced
<1> QED
  BY <1>6, <1>7, <1>8, <1>9, <1>10 DEF IInv

\* The cases of the loop's select statement.
LEMMA LoopInv ==
    ASSUME IInv, OnRegisterCh \/ OnEntity \/ OnEpoch \/ OnBlock \/ OnStop PROVE IInv'
<1> USE RegistrationAssumed DEF RegistrationAssumption
<1>0. loopEpoch \in 0..epoch /\ epochCh \in 0..epoch
  BY DEF IInv, Types
<1>1. CASE OnRegisterCh \/ OnEntity \/ OnBlock
  <2>1. pc = "select" /\ Register(loopEpoch) /\ UNCHANGED <<loopEpoch, epochCh>>
    BY <1>1 DEF OnRegisterCh, OnEntity, OnBlock, channelVars
  <2>2. UNCHANGED <<consensusVars, provider, called, changes>>
    BY <1>1 DEF OnRegisterCh, OnEntity, OnBlock, LoopUnchanged
  <2>3. loopEpoch # 0 \/ epochCh # 0
    BY <2>1 DEF IInv, Announced
  <2> QED
    BY <1>0, <2>1, <2>2, <2>3, RegisterInv
<1>2. CASE OnEpoch
  <2>1. pc = "select" /\ epochCh # 0 /\ epochCh' = 0 /\ loopEpoch' = epochCh
        /\ UNCHANGED <<consensusVars, provider, called, changes>>
    BY <1>2 DEF OnEpoch, LoopUnchanged
  <2>2. CASE Register(epochCh)
    BY <1>0, <2>1, <2>2, RegisterInv
  <2>3. CASE armed' = TRUE /\ UNCHANGED <<pc, attempt, seen, faults>>
    <3>1. UNCHANGED <<epoch, registered, entity, provider, called, changes, pc, attempt, seen>>
      BY <2>1, <2>3 DEF consensusVars
    <3>2. Types'
      BY <1>0, <2>1, <3>1 DEF IInv, Types
    <3>3. ProvidersOK' /\ CalledForgotten' /\ AttemptOK'
      BY <2>1, <3>1 DEF IInv, ProvidersOK, CalledForgotten, AttemptOK
    <3>4. Announced'
      BY <2>1, <2>3 DEF Announced
    <3> QED
      BY <3>2, <3>3, <3>4 DEF IInv
  <2> QED
    BY <1>2, <2>2, <2>3 DEF OnEpoch
<1>3. CASE OnStop
  <2>1. pc' = "waiting" /\ UNCHANGED <<epoch, registered, entity, epochCh, provider, called, changes,
                                       loopEpoch, attempt, seen>>
    BY <1>3 DEF OnStop, consensusVars, channelVars, boundVars
  <2> QED
    BY <2>1 DEF IInv, Types, Pcs, ProvidersOK, CalledForgotten, AttemptOK, Announced
<1> QED
  BY <1>1, <1>2, <1>3

\* A registration transaction succeeds or fails; neither touches the book of
\* callbacks.
LEMMA TryInv == ASSUME IInv, Try PROVE IInv'
<1> USE RegistrationAssumed DEF RegistrationAssumption
<1>1. /\ pc = "trying" /\ pc' \in {"waiting", "select", "trying", "calling"}
      /\ UNCHANGED <<epoch, registerCh, loopEpoch, armed, seen, called, changes, provider>>
  BY DEF Try, RegisterNode
<1>2. epoch \in Nat /\ epochCh \in Nat /\ attempt.epoch \in Nat /\ epochCh <= epoch
  BY DEF IInv, Types
<1>3. attempt' \in [epoch : Nat, vers : [Providers -> Nat], cbs : SUBSET (Providers \X (Nat \ {0}))]
      /\ attempt'.vers = attempt.vers /\ attempt'.cbs = attempt.cbs /\ attempt'.epoch <= epoch
  <2>1. attempt' = attempt \/ attempt' = [attempt EXCEPT !.epoch = epochCh]
    BY DEF Try
  <2> QED
    BY <1>2, <2>1 DEF IInv, Types
<1>4. registered' = registered \/ \E e \in {epochCh, attempt.epoch} : registered' = [expiration |-> e + 2, vers |-> attempt'.vers]
  <2>1. \/ UNCHANGED registered
        \/ attempt' = [attempt EXCEPT !.epoch = epochCh] /\ RegisterNode(epochCh)
        \/ attempt' = attempt /\ RegisterNode(attempt.epoch)
    BY DEF Try
  <2>2. \A e : RegisterNode(e) => registered' \in {registered, [expiration |-> e + 2, vers |-> attempt.vers]}
    BY DEF RegisterNode
  <2> QED
    BY <1>3, <2>1, <2>2
<1>5. registered' \in [expiration : Nat, vers : [Providers -> Nat]] /\ registered'.expiration <= epoch + 2
  <2>1. attempt'.vers \in [Providers -> Nat]
    BY <1>3
  <2> QED
    BY <1>2, <1>4, <2>1 DEF IInv, Types
<1>6. epochCh' \in {0, epochCh}
  BY DEF Try
<1>7. Types'
  BY <1>1, <1>2, <1>3, <1>5, <1>6 DEF IInv, Types, Pcs
<1>8. ProvidersOK'
  BY <1>1 DEF IInv, ProvidersOK
<1>9. CalledForgotten' /\ AttemptOK'
  BY <1>1, <1>3 DEF IInv, CalledForgotten, AttemptOK
<1>10. Announced'
  BY <1>1 DEF IInv, Announced, AttemptOK, Versions
<1> QED
  BY <1>7, <1>8, <1>9, <1>10 DEF IInv

\* The callbacks of the registration are called and no longer wait, except
\* those of hooks that were set since.
LEMMA CallInv == ASSUME IInv, Call PROVE IInv'
<1> USE RegistrationAssumed DEF RegistrationAssumption
<1> DEFINE new(p) == IF provider[p].version = attempt.vers[p] THEN [provider[p] EXCEPT !.cb = 0] ELSE provider[p]
<1>1. /\ pc = "calling" /\ pc' = "select" /\ provider' = [p \in Providers |-> new(p)]
      /\ called' = called \cup attempt.cbs
      /\ UNCHANGED <<epoch, registered, entity, epochCh, entityCh, registerCh, loopEpoch, armed, first,
                     attempt, seen, changes>>
  BY DEF Call, consensusVars, channelVars, boundVars
<1>2. ASSUME NEW p \in Providers
      PROVE  /\ provider'[p] \in [available : BOOLEAN, version : Nat, cb : Nat]
             /\ provider'[p].version = provider[p].version /\ provider'[p].available = provider[p].available
             /\ provider'[p].cb = IF provider[p].version = attempt.vers[p] THEN 0 ELSE provider[p].cb
  <2>1. provider[p] \in [available : BOOLEAN, version : Nat, cb : Nat]
    BY DEF IInv, Types
  <2> QED
    BY <1>1, <2>1
<1>3. Types'
  <2>1. provider' \in [Providers -> [available : BOOLEAN, version : Nat, cb : Nat]]
    BY <1>1, <1>2
  <2>2. called' \subseteq Providers \X (Nat \ {0})
    BY <1>1 DEF IInv, Types
  <2> QED
    BY <1>1, <2>1, <2>2 DEF IInv, Types, Pcs
<1>4. ProvidersOK'
  BY <1>1, <1>2 DEF IInv, ProvidersOK
<1>5. CalledForgotten'
  <2> SUFFICES ASSUME NEW q \in Providers, NEW w \in Nat \ {0}, <<q, w>> \in called'
               PROVE  w <= provider'[q].version /\ provider'[q].cb # w
    BY <1>1 DEF CalledForgotten
  <2>1. CASE <<q, w>> \in called
    BY <1>2, <2>1 DEF IInv, CalledForgotten
  <2>2. CASE <<q, w>> \in attempt.cbs
    <3>1. w = attempt.vers[q] /\ attempt.vers[q] \in 1..provider[q].version
      BY <1>1, <2>2 DEF IInv, AttemptOK
    <3>2. provider[q].version \in Nat
      BY DEF IInv, Types
    <3> QED
      BY <1>2, <3>1, <3>2 DEF IInv, ProvidersOK
  <2> QED
    BY <1>1, <2>1, <2>2
<1>6. AttemptOK'
  BY <1>1 DEF AttemptOK
<1>7. Announced'
  <2>1. Versions' = Versions
    BY <1>2 DEF Versions
  <2> QED
    BY <1>1, <2>1 DEF IInv, Announced
<1> QED
  BY <1>3, <1>4, <1>5, <1>6, <1>7 DEF IInv

\* Consensus, requests to leave and the end of the worker.
LEMMA OtherInv ==
    ASSUME IInv, RequestDeregistration \/ RegistrationStopped \/ NewEpoch \/ EntityChanges PROVE IInv'
<1> USE RegistrationAssumed DEF RegistrationAssumption
<1>1. CASE RequestDeregistration
  <2>1. UNCHANGED <<epoch, registered, entity, epochCh, registerCh, provider, called, changes, pc,
                    loopEpoch, armed, attempt, seen>>
    BY <1>1 DEF RequestDeregistration, consensusVars, channelVars, loopVars, boundVars
  <2> QED
    BY <2>1 DEF IInv, Types, ProvidersOK, CalledForgotten, AttemptOK, Announced, Versions
<1>2. CASE RegistrationStopped
  <2>1. pc' = "stopped" /\ UNCHANGED <<epoch, registered, entity, epochCh, registerCh, provider, called,
                                       changes, loopEpoch, armed, attempt, seen>>
    BY <1>2 DEF RegistrationStopped, consensusVars, channelVars
  <2> QED
    BY <2>1 DEF IInv, Types, Pcs, ProvidersOK, CalledForgotten, AttemptOK, Announced
<1>3. CASE NewEpoch
  <2>1. /\ epoch' = epoch + 1 /\ epoch < MaxEpoch /\ epochCh' \in {0, epoch + 1}
        /\ pc # "down" => epochCh' # 0
        /\ registered' \in {registered, NotRegistered}
        /\ UNCHANGED <<registerCh, provider, called, changes, pc, loopEpoch, armed, attempt, seen>>
    BY <1>3 DEF NewEpoch, loopVars, boundVars, IInv, Types
  <2>2. Types'
    <3>1. registered' \in [expiration : Nat, vers : [Providers -> Nat]] /\ registered'.expiration <= epoch + 2
      BY <2>1 DEF IInv, Types, NotRegistered, NoVersions
    <3> QED
      BY <2>1, <3>1 DEF IInv, Types
  <2>3. ProvidersOK' /\ CalledForgotten' /\ AttemptOK'
    BY <2>1 DEF IInv, ProvidersOK, CalledForgotten, AttemptOK
  <2>4. Announced'
    BY <2>1 DEF IInv, Announced, Versions
  <2> QED
    BY <2>2, <2>3, <2>4 DEF IInv
<1>4. CASE EntityChanges
  <2>1. /\ changes' = changes + 1 /\ changes < MaxChanges
        /\ UNCHANGED <<epoch, registered, epochCh, registerCh, provider, called, pc, loopEpoch, armed,
                       attempt, seen>>
    BY <1>4 DEF EntityChanges, loopVars
  <2>2. Types'
    BY <2>1 DEF IInv, Types
  <2>3. ProvidersOK'
    <3>1. \A p \in Providers : provider[p].version \in Nat
      BY DEF IInv, Types
    <3>2. changes \in Nat
      BY DEF IInv, Types
    <3> QED
      BY <2>1, <3>1, <3>2 DEF IInv, ProvidersOK
  <2>4. CalledForgotten' /\ AttemptOK' /\ Announced'
    BY <2>1 DEF IInv, CalledForgotten, AttemptOK, Announced, Versions
  <2> QED
    BY <2>2, <2>3, <2>4 DEF IInv
<1> QED
  BY <1>1, <1>2, <1>3, <1>4

\* A crash forgets the hooks and what waits, but not what was called; the
\* versions go on counting.
LEMMA CrashInv == ASSUME IInv, Crash \/ Restart PROVE IInv'
<1> USE RegistrationAssumed DEF RegistrationAssumption
<1>1. CASE Crash
  <2>1. /\ pc' = "down" /\ attempt' = NoAttempt /\ loopEpoch' = 0 /\ epochCh' = 0 /\ seen' = Versions
        /\ provider' = [p \in Providers |-> [provider[p] EXCEPT !.available = FALSE, !.cb = 0]]
        /\ UNCHANGED <<epoch, registered, entity, called, changes>>
    BY <1>1 DEF Crash, consensusVars
  <2>2. ASSUME NEW p \in Providers
        PROVE  /\ provider'[p] \in [available : BOOLEAN, version : Nat, cb : Nat]
               /\ provider'[p].version = provider[p].version
               /\ provider'[p].available = FALSE /\ provider'[p].cb = 0
    <3>1. provider[p] \in [available : BOOLEAN, version : Nat, cb : Nat]
      BY DEF IInv, Types
    <3> QED
      BY <2>1, <3>1
  <2>3. Types'
    <3>1. provider' \in [Providers -> [available : BOOLEAN, version : Nat, cb : Nat]]
      BY <2>1, <2>2
    <3>2. seen' \in [Providers -> Nat]
      BY <2>1, VersionsTyped DEF IInv
    <3>3. attempt' \in [epoch : Nat, vers : [Providers -> Nat], cbs : SUBSET (Providers \X (Nat \ {0}))]
          /\ attempt'.epoch = 0
      BY <2>1 DEF NoAttempt, NoVersions
    <3>4. epoch \in 1..MaxEpoch /\ loopEpoch' \in 0..epoch /\ epochCh' \in 0..epoch /\ attempt'.epoch <= epoch
      <4>1. epoch \in 1..MaxEpoch
        BY DEF IInv, Types
      <4>2. loopEpoch' = 0 /\ epochCh' = 0
        BY <2>1
      <4> QED
        BY <3>3, <4>1, <4>2
    <3>5. /\ registered \in [expiration : Nat, vers : [Providers -> Nat]]
          /\ registered.expiration <= epoch + 2 /\ changes \in 0..MaxChanges
          /\ called \subseteq Providers \X (Nat \ {0})
      BY DEF IInv, Types
    <3>6. pc' \in Pcs
      BY <2>1 DEF Pcs
    <3> QED
      BY <2>1, <3>1, <3>2, <3>3, <3>4, <3>5, <3>6 DEF Types
  <2>4. ProvidersOK' /\ CalledForgotten' /\ AttemptOK' /\ Announced'
    BY <2>1, <2>2 DEF IInv, ProvidersOK, CalledForgotten, AttemptOK, Announced
  <2> QED
    BY <2>3, <2>4 DEF IInv
<1>2. CASE Restart
  <2>1. /\ pc = "down" /\ pc' \in {"waiting", "select"} /\ epochCh' = epoch
        /\ UNCHANGED <<epoch, registered, entity, provider, called, changes, registerCh, loopEpoch, armed,
                       attempt, seen>>
    BY <1>2 DEF Restart, consensusVars, boundVars
  <2>2. Types'
    BY <2>1 DEF IInv, Types, Pcs
  <2>3. ProvidersOK' /\ CalledForgotten' /\ AttemptOK'
    BY <2>1 DEF IInv, ProvidersOK, CalledForgotten, AttemptOK
  <2> QED
    BY <2>1, <2>2, <2>3 DEF IInv, Announced, Types
<1> QED
  BY <1>1, <1>2

-----------------------------------------------------------------------------
\* The invariant that the other results rest on holds in every reachable state.
THEOREM Invariance == Spec => []IInv
<1>1. IInv /\ [Next]_vars => IInv'
  <2> SUFFICES ASSUME IInv, [Next]_vars PROVE IInv'
    OBVIOUS
  <2>1. ASSUME NEW p \in Providers, SetAvailable(p) \/ SetUnavailable(p) PROVE IInv'
    BY <2>1, ProviderInv DEF SetAvailable, SetUnavailable
  <2>2. CASE UNCHANGED vars
    BY <2>2 DEF vars, consensusVars, channelVars, loopVars, stopVars, boundVars, IInv, Types, ProvidersOK,
                CalledForgotten, AttemptOK, Announced, Versions
  <2> QED
    BY <2>1, <2>2, LoopInv, TryInv, CallInv, OtherInv, CrashInv DEF Next
<1> QED
  BY <1>1, InitInv, PTL DEF Spec

\* The epochs the loop and its channels hold never run ahead of consensus, no
\* registration expires later than two epochs from now, and every variable
\* keeps its type.
THEOREM TypeCorrect == Spec => []TypeOK
<1>1. IInv => TypeOK
  <2> SUFFICES ASSUME IInv PROVE TypeOK
    OBVIOUS
  <2>1. MaxEpoch \in Nat /\ MaxChanges \in Nat
    BY RegistrationAssumed DEF RegistrationAssumption
  <2>2. registered.expiration \in 0..MaxEpoch + 2
    BY <2>1 DEF IInv, Types
  <2>3. \A p \in Providers : provider[p].version \in 0..MaxChanges /\ provider[p].cb \in {0, provider[p].version}
    BY <2>1 DEF IInv, Types, ProvidersOK
  <2> QED
    BY <2>2, <2>3 DEF IInv, Types, Pcs, TypeOK
<1> QED
  BY <1>1, Invariance, PTL

\* Whatever providers, epochs, failing transactions, crashes and requests to
\* leave come in between: a callback is called once and for its own hook, no
\* change of a role is lost, and only hooks that were set are registered.
THEOREM AlwaysRegistersRight == Spec => []RegistrationRight
<1>1. IInv => RegistrationRight
  <2> SUFFICES ASSUME IInv PROVE RegistrationRight
    OBVIOUS
  <2>1. CallbacksOnce
    <3> SUFFICES ASSUME pc = "calling", NEW c \in attempt.cbs
                 PROVE  c \notin called /\ attempt.vers[c[1]] = c[2]
      BY DEF CallbacksOnce
    <3>1. c \in Providers \X (Nat \ {0})
      BY DEF IInv, Types
    <3>2. c[1] \in Providers /\ c[2] \in Nat \ {0} /\ c = <<c[1], c[2]>>
      BY <3>1
    <3> QED
      BY <3>2 DEF IInv, CalledForgotten, AttemptOK
  <2>2. UpdatesAnnounced
    BY DEF IInv, Announced, UpdatesAnnounced
  <2>3. RegisteredWereAvailable
    BY DEF IInv, AttemptOK, ProvidersOK, RegisteredWereAvailable
  <2> QED
    BY <2>1, <2>2, <2>3 DEF RegistrationRight
<1> QED
  BY <1>1, Invariance, PTL

-----------------------------------------------------------------------------
(***************************************************************************)
(* The registry that the worker registers with, for every set of entities,   *)
(* nodes, runtimes and keys, any stake and any number of epochs: the records *)
(* that are derived from registrations match them, and nodes can be slashed  *)
(* for what they did.                                                        *)
(***************************************************************************)
CONSTANTS Entities, Nodes, Runtimes, Keys, KeySets, MaxConsensusEpoch, MaxBalance,
          MaxNodeExpiration, DebondingInterval

VARIABLES consensusEpoch, entities, nodes, keyMap, lost, processed, runtimes, suspended,
          owners, claims, balance, committee, served, failed

Reg == INSTANCE Registry WITH epoch <- consensusEpoch, MaxEpoch <- MaxConsensusEpoch

RuntimeType == [owner : Entities, gov : Reg!Governance]

RegistryTypes ==
    /\ consensusEpoch \in 0..MaxConsensusEpoch
    /\ DOMAIN entities \subseteq Entities
    /\ DOMAIN nodes \subseteq Nodes /\ \A n \in DOMAIN nodes : nodes[n] \in Reg!Descriptors(n)
    /\ DOMAIN processed = DOMAIN nodes
    /\ DOMAIN runtimes \subseteq Runtimes /\ \A r \in DOMAIN runtimes : runtimes[r] \in RuntimeType
    /\ suspended \subseteq DOMAIN runtimes
    /\ claims = [a \in Reg!Accounts |-> claims[a]]
    /\ balance \in [Reg!Accounts -> 0..MaxBalance]
    /\ served \in [Nodes -> Int]

\* A claim that account a owes for what is registered on it.
Owed(a, c) ==
    \/ c = Reg!EntityClaim /\ a \in DOMAIN entities
    \/ \E n \in DOMAIN nodes : nodes[n].entity = a /\ c = Reg!StakeClaimForNode(n)
    \/ \E r \in DOMAIN runtimes : Reg!StakingAddress(r, runtimes[r]) = a /\ c = Reg!StakeClaimForRuntime(r)

ClaimsExact == \A a \in Reg!Accounts : \A c : c \in DOMAIN claims[a] <=> Owed(a, c)

\* The runtimes that are indexed under an entity.
OwnersExact == \A e, r : <<e, r>> \in owners <=> r \in DOMAIN runtimes /\ runtimes[r].owner = e
OwnersPairs == owners \subseteq Entities \X Runtimes

NodesOwned == \A n \in DOMAIN nodes : nodes[n].entity \in DOMAIN entities

\* Members of a committee expire in this epoch at the earliest, and who served
\* in one is registered until the epochs for which it can be slashed are over.
MembersLast == \A r \in Runtimes : \A n \in committee[r] : n \in DOMAIN nodes /\ nodes[n].expiration >= consensusEpoch
ServedLast ==
    \A n \in Nodes : served[n] >= 0 =>
        /\ served[n] <= consensusEpoch
        /\ consensusEpoch <= served[n] + DebondingInterval =>
               n \in DOMAIN nodes /\ nodes[n].expiration >= served[n]

RegistryInv ==
    /\ RegistryTypes /\ ClaimsExact /\ OwnersExact /\ OwnersPairs /\ NodesOwned
    /\ MembersLast /\ ServedLast /\ Reg!ExpirationProcessedOnce
    /\ DebondingInterval # 0 => failed = "ok"

-----------------------------------------------------------------------------
(***************************************************************************)
(* Claims.                                                                   *)
(***************************************************************************)
LEMMA ClaimsDistinct ==
    /\ \A n : Reg!EntityClaim # Reg!StakeClaimForNode(n) /\ Reg!EntityClaim # Reg!StakeClaimForRuntime(n)
    /\ \A n, r : Reg!StakeClaimForNode(n) # Reg!StakeClaimForRuntime(r)
    /\ \A n, m : Reg!StakeClaimForNode(n) = Reg!StakeClaimForNode(m) => n = m
    /\ \A q, r : Reg!StakeClaimForRuntime(q) = Reg!StakeClaimForRuntime(r) => q = r
BY DEF Reg!EntityClaim, Reg!StakeClaimForNode, Reg!StakeClaimForRuntime

\* A node or a runtime as it was, or the one that is registered now.
LEMMA DescriptorFields ==
    ASSUME NEW n, NEW d \in Reg!Descriptors(n), Reg!RegistryAssumption
    PROVE  d.entity \in Entities /\ d.expiration \in Nat /\ d.rts \subseteq Runtimes /\ d.keys \in KeySets[n]
BY DEF Reg!Descriptors, Reg!RegistryAssumption

LEMMA AddressTyped ==
    ASSUME NEW r \in Runtimes, NEW d \in RuntimeType
    PROVE  Reg!StakingAddress(r, d) \in Reg!Accounts /\ d.owner \in Entities
BY DEF Reg!StakingAddress, RuntimeType, Reg!Accounts

-----------------------------------------------------------------------------
(***************************************************************************)
(* The steps.                                                                *)
(***************************************************************************)
LEMMA RegistryInitInv == ASSUME Reg!RegistryAssumption, Reg!Init PROVE RegistryInv
<1>1. /\ DOMAIN entities = {} /\ DOMAIN nodes = {} /\ DOMAIN processed = {} /\ DOMAIN runtimes = {}
      /\ owners = {} /\ suspended = {} /\ failed = "ok" /\ consensusEpoch = 0
      /\ \A a \in Reg!Accounts : DOMAIN claims[a] = {}
      /\ \A r \in Runtimes : committee[r] = {}
      /\ \A n \in Nodes : served[n] = -1
  BY DEF Reg!Init, Reg!None
<1>2. claims = [a \in Reg!Accounts |-> claims[a]] /\ balance \in [Reg!Accounts -> 0..MaxBalance] /\ served \in [Nodes -> Int]
  BY DEF Reg!Init, Reg!RegistryAssumption
<1>3. RegistryTypes
  BY <1>1, <1>2 DEF RegistryTypes, Reg!RegistryAssumption
<1>4. ClaimsExact
  BY <1>1 DEF ClaimsExact, Owed
<1>5. OwnersExact /\ OwnersPairs /\ NodesOwned
  BY <1>1 DEF OwnersExact, OwnersPairs, NodesOwned
<1>6. MembersLast /\ ServedLast /\ Reg!ExpirationProcessedOnce
  BY <1>1 DEF MembersLast, ServedLast, Reg!ExpirationProcessedOnce
<1> QED
  BY <1>1, <1>3, <1>4, <1>5, <1>6 DEF RegistryInv

LEMMA RegisterEntityInv ==
    ASSUME Reg!RegistryAssumption, RegistryInv, NEW e \in Entities, NEW ns, Reg!RegisterEntity(e, ns)
    PROVE  RegistryInv'
<1>1. /\ claims' = Reg!AddStakeClaim(claims, e, Reg!EntityClaim, 1) /\ entities' = Reg!With(entities, e, ns)
      /\ UNCHANGED <<consensusEpoch, nodes, keyMap, processed, runtimes, suspended, owners, balance, committee, served, failed>>
  BY DEF Reg!RegisterEntity
<1>2. e \in Reg!Accounts /\ claims = [a \in Reg!Accounts |-> claims[a]]
  BY DEF Reg!Accounts, RegistryInv, RegistryTypes
<1>3. /\ claims' = [a \in Reg!Accounts |-> claims'[a]]
      /\ \A a \in Reg!Accounts : DOMAIN claims'[a] = IF a = e THEN DOMAIN claims[a] \cup {Reg!EntityClaim} ELSE DOMAIN claims[a]
  BY <1>1, <1>2 DEF Reg!AddStakeClaim, Reg!With
<1>4. DOMAIN entities' = DOMAIN entities \cup {e}
  BY <1>1 DEF Reg!With
<1>5. RegistryTypes'
  BY <1>1, <1>3, <1>4 DEF RegistryInv, RegistryTypes
<1>6. ClaimsExact'
  <2> SUFFICES ASSUME NEW a \in Reg!Accounts, NEW c
               PROVE  c \in DOMAIN claims'[a] <=> Owed(a, c)'
    BY DEF ClaimsExact
  <2>1. c \in DOMAIN claims[a] <=> Owed(a, c)
    BY DEF RegistryInv, ClaimsExact
  <2>2. UNCHANGED <<nodes, runtimes>>
    BY <1>1
  <2> QED
    BY <1>3, <1>4, <2>1, <2>2 DEF Owed
<1> QED
  BY <1>1, <1>4, <1>5, <1>6 DEF RegistryInv, OwnersExact, OwnersPairs, NodesOwned, MembersLast, ServedLast,
                                Reg!ExpirationProcessedOnce

LEMMA DeregisterEntityInv ==
    ASSUME Reg!RegistryAssumption, RegistryInv, NEW e \in Entities, Reg!DeregisterEntity(e)
    PROVE  RegistryInv'
<1>1. /\ ~Reg!HasEntityNodes(e) /\ e \in DOMAIN entities
      /\ claims' = Reg!RemoveStakeClaim(claims, e, Reg!EntityClaim) /\ entities' = Reg!Without(entities, {e})
      /\ failed' = IF Reg!HasClaim(claims, e, Reg!EntityClaim) THEN failed
                   ELSE "DeregisterEntity: failed to remove stake claim"
      /\ UNCHANGED <<consensusEpoch, nodes, keyMap, processed, runtimes, suspended, owners, balance, committee, served>>
  BY DEF Reg!DeregisterEntity
<1>2. e \in Reg!Accounts /\ claims = [a \in Reg!Accounts |-> claims[a]]
  BY DEF Reg!Accounts, RegistryInv, RegistryTypes
<1>3. /\ claims' = [a \in Reg!Accounts |-> claims'[a]]
      /\ \A a \in Reg!Accounts : DOMAIN claims'[a] = IF a = e THEN DOMAIN claims[a] \ {Reg!EntityClaim} ELSE DOMAIN claims[a]
  BY <1>1, <1>2 DEF Reg!RemoveStakeClaim, Reg!Without
<1>4. DOMAIN entities' = DOMAIN entities \ {e}
  BY <1>1 DEF Reg!Without
<1>5. RegistryTypes'
  BY <1>1, <1>3, <1>4 DEF RegistryInv, RegistryTypes
<1>6. ClaimsExact'
  <2> SUFFICES ASSUME NEW a \in Reg!Accounts, NEW c
               PROVE  c \in DOMAIN claims'[a] <=> Owed(a, c)'
    BY DEF ClaimsExact
  <2>1. c \in DOMAIN claims[a] <=> Owed(a, c)
    BY DEF RegistryInv, ClaimsExact
  <2>2. UNCHANGED <<nodes, runtimes>>
    BY <1>1
  <2> QED
    BY <1>3, <1>4, <2>1, <2>2, ClaimsDistinct DEF Owed
<1>7. NodesOwned'
  BY <1>1, <1>4 DEF RegistryInv, NodesOwned, Reg!HasEntityNodes
<1>8. failed' = failed
  <2>1. Reg!EntityClaim \in DOMAIN claims[e]
    BY <1>1, <1>2 DEF RegistryInv, ClaimsExact, Owed
  <2> QED
    BY <1>1, <2>1 DEF Reg!HasClaim
<1> QED
  BY <1>1, <1>5, <1>6, <1>7, <1>8 DEF RegistryInv, OwnersExact, OwnersPairs, MembersLast, ServedLast,
                                      Reg!ExpirationProcessedOnce

LEMMA RegisterNodeInv ==
    ASSUME Reg!RegistryAssumption, RegistryInv, NEW n \in Nodes, NEW d \in Reg!Descriptors(n), Reg!RegisterNode(n, d)
    PROVE  RegistryInv'
<1> DEFINE exists == n \in DOMAIN nodes
           old == IF exists THEN nodes[n] ELSE d
           live == exists /\ ~Reg!IsExpired(old)
<1>1. /\ Reg!VerifyRegisterNodeArgs(n, d) /\ d.expiration > consensusEpoch /\ (exists => Reg!VerifyNodeUpdate(old, d))
      /\ claims' = Reg!AddStakeClaim(claims, d.entity, Reg!StakeClaimForNode(n), Reg!StakeThresholdsForNode(d))
      /\ nodes' = Reg!With(nodes, n, d) /\ processed' = Reg!ResetStatus(n, live)
      /\ suspended' \subseteq suspended
      /\ UNCHANGED <<consensusEpoch, entities, runtimes, owners, balance, committee, served, failed>>
  BY DEF Reg!RegisterNode, Reg!ResumeRuntimes
<1>2. d.entity \in DOMAIN entities /\ d.entity \in Reg!Accounts /\ d.expiration \in Nat /\ consensusEpoch \in Nat
      /\ (exists => nodes[n].entity = d.entity)
  BY <1>1, DescriptorFields DEF Reg!VerifyRegisterNodeArgs, Reg!VerifyNodeUpdate, Reg!Accounts, RegistryInv, RegistryTypes, Reg!RegistryAssumption
<1>3. /\ DOMAIN nodes' = DOMAIN nodes \cup {n} /\ nodes'[n] = d
      /\ \A m \in DOMAIN nodes : m # n => nodes'[m] = nodes[m]
  BY <1>1 DEF Reg!With
<1>4. /\ claims' = [a \in Reg!Accounts |-> claims'[a]]
      /\ \A a \in Reg!Accounts : DOMAIN claims'[a] =
             IF a = d.entity THEN DOMAIN claims[a] \cup {Reg!StakeClaimForNode(n)} ELSE DOMAIN claims[a]
  <2>1. claims = [a \in Reg!Accounts |-> claims[a]]
    BY DEF RegistryInv, RegistryTypes
  <2> QED
    BY <1>1, <1>2, <2>1 DEF Reg!AddStakeClaim, Reg!With
<1>5. /\ DOMAIN processed' = DOMAIN nodes'
      /\ \A m \in DOMAIN nodes : m # n => processed'[m] = processed[m]
      /\ IF live THEN processed'[n] = processed[n] ELSE processed'[n] = FALSE
  <2>1. DOMAIN processed = DOMAIN nodes
    BY DEF RegistryInv, RegistryTypes
  <2>2. CASE live
    BY <1>1, <1>3, <2>1, <2>2 DEF Reg!ResetStatus
  <2>3. CASE ~live
    <3>1. processed' = Reg!With(processed, n, FALSE)
      BY <1>1, <2>3 DEF Reg!ResetStatus
    <3> HIDE DEF live
    <3> QED
      BY <1>3, <2>1, <2>3, <3>1 DEF Reg!With
  <2> QED
    BY <2>2, <2>3
<1>6. RegistryTypes'
  BY <1>1, <1>3, <1>4, <1>5 DEF RegistryInv, RegistryTypes
<1>7. ClaimsExact'
  <2> SUFFICES ASSUME NEW a \in Reg!Accounts, NEW c
               PROVE  c \in DOMAIN claims'[a] <=> Owed(a, c)'
    BY DEF ClaimsExact
  <2>1. c \in DOMAIN claims[a] <=> Owed(a, c)
    BY DEF RegistryInv, ClaimsExact
  <2>2. (\E m \in DOMAIN nodes' : nodes'[m].entity = a /\ c = Reg!StakeClaimForNode(m))
        <=> \/ \E m \in DOMAIN nodes : nodes[m].entity = a /\ c = Reg!StakeClaimForNode(m)
            \/ a = d.entity /\ c = Reg!StakeClaimForNode(n)
    BY <1>2, <1>3
  <2>3. UNCHANGED <<entities, runtimes>>
    BY <1>1
  <2> QED
    BY <1>4, <2>1, <2>2, <2>3 DEF Owed
<1>8. NodesOwned'
  BY <1>1, <1>2, <1>3 DEF RegistryInv, NodesOwned
<1>9. Reg!ExpirationProcessedOnce'
  <2> SUFFICES ASSUME NEW m \in DOMAIN nodes' PROVE processed'[m] <=> nodes'[m].expiration < consensusEpoch
    BY <1>1 DEF Reg!ExpirationProcessedOnce
  <2>1. CASE m # n
    BY <1>3, <1>5, <2>1 DEF RegistryInv, Reg!ExpirationProcessedOnce
  <2>2. CASE m = n /\ live
    BY <1>1, <1>2, <1>3, <1>5, <2>2 DEF RegistryInv, Reg!ExpirationProcessedOnce, Reg!IsExpired
  <2>3. CASE m = n /\ ~live
    BY <1>1, <1>2, <1>3, <1>5, <2>3
  <2> QED
    BY <2>1, <2>2, <2>3
<1>10. MembersLast'
  BY <1>1, <1>2, <1>3 DEF RegistryInv, MembersLast
<1>11. ServedLast'
  <2> SUFFICES ASSUME NEW m \in Nodes, served[m] >= 0
               PROVE  /\ served[m] <= consensusEpoch
                      /\ consensusEpoch <= served[m] + DebondingInterval => m \in DOMAIN nodes' /\ nodes'[m].expiration >= served[m]
    BY <1>1 DEF ServedLast
  <2>1. served[m] \in Int
    BY DEF RegistryInv, RegistryTypes
  <2> QED
    BY <1>1, <1>2, <1>3, <2>1 DEF RegistryInv, ServedLast
<1> QED
  BY <1>1, <1>6, <1>7, <1>8, <1>9, <1>10, <1>11 DEF RegistryInv, OwnersExact, OwnersPairs

LEMMA RegisterRuntimeInv ==
    ASSUME Reg!RegistryAssumption, RegistryInv, NEW caller \in Reg!Accounts, NEW r \in Runtimes, NEW d \in RuntimeType,
           Reg!RegisterRuntime(caller, r, d)
    PROVE  RegistryInv'
<1> DEFINE exists == r \in DOMAIN runtimes
           old == IF exists THEN runtimes[r] ELSE d
           was == Reg!StakingAddress(r, old)
           now == Reg!StakingAddress(r, d)
           claim == Reg!StakeClaimForRuntime(r)
<1>1. /\ claims' = Reg!MoveRuntimeClaim(r, exists, old, d) /\ runtimes' = Reg!With(runtimes, r, d)
      /\ owners' = Reg!SetRuntimeOwner(r, exists, old, d)
      /\ UNCHANGED <<consensusEpoch, entities, nodes, keyMap, processed, suspended, balance, committee, served, failed>>
  BY DEF Reg!RegisterRuntime
<1>2. claims = [a \in Reg!Accounts |-> claims[a]] /\ (exists => runtimes[r] \in RuntimeType)
  BY DEF RegistryInv, RegistryTypes
<1>3. was \in Reg!Accounts /\ now \in Reg!Accounts /\ d.owner \in Entities
  BY <1>2, AddressTyped
<1>4. /\ DOMAIN runtimes' = DOMAIN runtimes \cup {r} /\ runtimes'[r] = d
      /\ \A q \in DOMAIN runtimes : q # r => runtimes'[q] = runtimes[q]
  BY <1>1 DEF Reg!With
<1>5. /\ claims' = [a \in Reg!Accounts |-> claims'[a]]
      /\ \A a \in Reg!Accounts : \A c : c \in DOMAIN claims'[a] <=>
             IF c = claim THEN IF a = now THEN TRUE ELSE c \in DOMAIN claims[a] /\ ~(exists /\ a = was)
             ELSE c \in DOMAIN claims[a]
  <2> HIDE DEF was, now, claim, old, exists
  <2> DEFINE added == Reg!AddStakeClaim(claims, now, claim, 1)
  <2>1. /\ added = [a \in Reg!Accounts |-> added[a]]
        /\ \A a \in Reg!Accounts : DOMAIN added[a] = IF a = now THEN DOMAIN claims[a] \cup {claim} ELSE DOMAIN claims[a]
    BY <1>2, <1>3 DEF Reg!AddStakeClaim, Reg!With
  <2>2. claims' = IF exists /\ was # now THEN Reg!RemoveStakeClaim(added, was, claim) ELSE added
    BY <1>1 DEF Reg!MoveRuntimeClaim, was, now, claim
  <2> HIDE DEF added
  <2>3. CASE exists /\ was # now
    <3>1. claims' = Reg!RemoveStakeClaim(added, was, claim)
      BY <2>2, <2>3
    <3>2. /\ claims' = [a \in Reg!Accounts |-> claims'[a]]
          /\ \A a \in Reg!Accounts : DOMAIN claims'[a] = IF a = was THEN DOMAIN added[a] \ {claim} ELSE DOMAIN added[a]
      BY <1>3, <2>1, <3>1 DEF Reg!RemoveStakeClaim, Reg!Without
    <3> QED
      BY <2>1, <2>3, <3>2
  <2>4. CASE ~(exists /\ was # now)
    BY <2>1, <2>2, <2>4
  <2> QED
    BY <2>3, <2>4
<1>6. RegistryTypes'
  BY <1>1, <1>4, <1>5 DEF RegistryInv, RegistryTypes
<1>7. ClaimsExact'
  <2> SUFFICES ASSUME NEW a \in Reg!Accounts, NEW c
               PROVE  c \in DOMAIN claims'[a] <=> Owed(a, c)'
    BY DEF ClaimsExact
  <2>1. c \in DOMAIN claims[a] <=> Owed(a, c)
    BY DEF RegistryInv, ClaimsExact
  <2>2. UNCHANGED <<nodes, entities>>
    BY <1>1
  <2>3. CASE c = claim
    <3>1. Owed(a, c)' <=> a = now
      BY <1>4, <2>3, ClaimsDistinct DEF Owed
    <3>2. Owed(a, c) <=> exists /\ a = was
      BY <2>3, ClaimsDistinct DEF Owed
    <3> QED
      BY <1>5, <2>1, <2>3, <3>1, <3>2
  <2>4. CASE c # claim
    <3>1. (\E q \in DOMAIN runtimes' : Reg!StakingAddress(q, runtimes'[q]) = a /\ c = Reg!StakeClaimForRuntime(q))
          <=> \E q \in DOMAIN runtimes : Reg!StakingAddress(q, runtimes[q]) = a /\ c = Reg!StakeClaimForRuntime(q)
      BY <1>4, <2>4
    <3>2. Owed(a, c)' <=> Owed(a, c)
      BY <2>2, <3>1 DEF Owed
    <3> QED
      BY <1>5, <2>1, <2>4, <3>2
  <2> QED
    BY <2>3, <2>4
<1>8. OwnersExact' /\ OwnersPairs'
  <2>1. owners' = IF exists /\ old.owner = d.owner THEN owners ELSE (owners \ {<<old.owner, r>>}) \cup {<<d.owner, r>>}
    BY <1>1 DEF Reg!SetRuntimeOwner
  <2>2. OwnersPairs'
    BY <1>3, <2>1 DEF RegistryInv, OwnersPairs
  <2>3. ASSUME NEW e, NEW q
        PROVE  <<e, q>> \in owners' <=> q \in DOMAIN runtimes' /\ runtimes'[q].owner = e
    <3>1. <<e, q>> \in owners <=> q \in DOMAIN runtimes /\ runtimes[q].owner = e
      BY DEF RegistryInv, OwnersExact
    <3>2. CASE q # r
      BY <1>4, <2>1, <3>1, <3>2
    <3>3. CASE q = r
      BY <1>4, <2>1, <3>1, <3>3
    <3> QED
      BY <3>2, <3>3
  <2> QED
    BY <2>2, <2>3 DEF OwnersExact
<1> QED
  BY <1>1, <1>6, <1>7, <1>8 DEF RegistryInv, NodesOwned, MembersLast, ServedLast, Reg!ExpirationProcessedOnce

LEMMA BalanceChangeInv ==
    ASSUME Reg!RegistryAssumption, RegistryInv, NEW a \in Reg!Accounts, NEW b \in 0..MaxBalance, Reg!BalanceChange(a, b)
    PROVE  RegistryInv'
<1>1. /\ balance' = [balance EXCEPT ![a] = b]
      /\ UNCHANGED <<consensusEpoch, entities, nodes, keyMap, processed, runtimes, suspended,
                     owners, claims, committee, served, failed>>
  BY DEF Reg!BalanceChange
<1>2. RegistryTypes'
  BY <1>1 DEF RegistryInv, RegistryTypes
<1>3. ClaimsExact'
  BY <1>1 DEF RegistryInv, ClaimsExact, Owed
<1> QED
  BY <1>1, <1>2, <1>3 DEF RegistryInv, OwnersExact, OwnersPairs, NodesOwned, MembersLast, ServedLast,
                          Reg!ExpirationProcessedOnce

LEMMA EpochTransitionInv ==
    ASSUME Reg!RegistryAssumption, RegistryInv, Reg!EpochTransition
    PROVE  RegistryInv'
<1> DEFINE gone == Reg!RemovedAt(consensusEpoch + 1)
<1>1. /\ consensusEpoch < MaxConsensusEpoch /\ consensusEpoch' = consensusEpoch + 1 /\ Reg!RemoveNodes(gone) /\ failed' = Reg!EpochFailure(gone)
      /\ processed' = [n \in DOMAIN processed \ gone |-> processed[n] \/ n \in Reg!ExpiredAt(consensusEpoch + 1)]
      /\ served' = [n \in Nodes |-> IF \E r \in Runtimes : n \in committee'[r] THEN consensusEpoch' ELSE served[n]]
      /\ UNCHANGED <<entities, runtimes, owners, balance>>
  BY DEF Reg!EpochTransition
<1>2. /\ consensusEpoch \in Nat /\ MaxConsensusEpoch \in Nat /\ DebondingInterval \in Nat
      /\ \A n \in DOMAIN nodes : n \in Nodes /\ nodes[n].expiration \in Nat /\ nodes[n].entity \in Reg!Accounts
  BY DescriptorFields DEF RegistryInv, RegistryTypes, Reg!RegistryAssumption, Reg!Accounts
<1>3. \A n : n \in gone <=> n \in DOMAIN nodes /\ nodes[n].expiration + DebondingInterval < consensusEpoch + 1
  BY <1>2 DEF Reg!RemovedAt, Reg!ExpiredAt
<1> HIDE DEF gone
<1>4. /\ DOMAIN nodes' = DOMAIN nodes \ gone
      /\ \A n \in DOMAIN nodes' : nodes'[n] = nodes[n]
  BY <1>1 DEF Reg!RemoveNodes, Reg!Without
<1>5. /\ claims' = [a \in Reg!Accounts |-> claims'[a]]
      /\ \A a \in Reg!Accounts : \A c : c \in DOMAIN claims'[a] <=>
             c \in DOMAIN claims[a] /\ ~(\E n \in gone : nodes[n].entity = a /\ c = Reg!StakeClaimForNode(n))
  BY <1>1 DEF Reg!RemoveNodes, Reg!Without
<1>6. /\ suspended' \subseteq DOMAIN runtimes
      /\ \A r \in Runtimes : \A n \in committee'[r] : n \in DOMAIN nodes' /\ nodes'[n].expiration >= consensusEpoch'
  <2>1. PICK elected \in [Runtimes -> SUBSET Nodes] :
       /\ \A r \in Runtimes : elected[r] \subseteq
              IF r \in DOMAIN runtimes \ suspended THEN Reg!Candidates(r) ELSE {}
       /\ suspended' = suspended \cup
              {r \in DOMAIN runtimes \ suspended : Reg!Suspends(r, elected[r])}
       /\ committee' = [r \in Runtimes |-> IF r \in suspended' THEN {} ELSE elected[r]]
    BY DEF Reg!EpochTransition
  <2>2. suspended' \subseteq DOMAIN runtimes
    BY <2>1 DEF RegistryInv, RegistryTypes
  <2>3. ASSUME NEW r \in Runtimes, NEW n \in committee'[r]
        PROVE  n \in DOMAIN nodes' /\ nodes'[n].expiration >= consensusEpoch'
    <3>1. n \in Reg!Candidates(r)
      BY <2>1, <2>3
    <3>2. n \in DOMAIN nodes' /\ ~(nodes'[n].expiration < consensusEpoch')
      BY <3>1 DEF Reg!Candidates
    <3>3. nodes'[n].expiration \in Nat /\ consensusEpoch' \in Nat
      BY <1>1, <1>2, <1>4, <3>2
    <3> QED
      BY <3>2, <3>3
  <2> QED
    BY <2>2, <2>3
<1>7. RegistryTypes'
  <2>1. DOMAIN processed' = DOMAIN nodes'
    BY <1>1, <1>4 DEF RegistryInv, RegistryTypes
  <2>2. served' \in [Nodes -> Int]
    BY <1>1, <1>2 DEF RegistryInv, RegistryTypes
  <2>3. consensusEpoch' \in 0..MaxConsensusEpoch
    BY <1>1, <1>2
  <2> QED
    BY <1>1, <1>4, <1>5, <1>6, <2>1, <2>2, <2>3 DEF RegistryInv, RegistryTypes
<1>8. ClaimsExact'
  <2> SUFFICES ASSUME NEW a \in Reg!Accounts, NEW c
               PROVE  c \in DOMAIN claims'[a] <=> Owed(a, c)'
    BY DEF ClaimsExact
  <2>1. c \in DOMAIN claims[a] <=> Owed(a, c)
    BY DEF RegistryInv, ClaimsExact
  <2>2. UNCHANGED <<entities, runtimes>>
    BY <1>1
  <2>3. (\E n \in DOMAIN nodes' : nodes'[n].entity = a /\ c = Reg!StakeClaimForNode(n))
        <=> \E n \in DOMAIN nodes : n \notin gone /\ nodes[n].entity = a /\ c = Reg!StakeClaimForNode(n)
    BY <1>4
  <2>4. CASE \E n \in gone : nodes[n].entity = a /\ c = Reg!StakeClaimForNode(n)
    <3>1. c \notin DOMAIN claims'[a]
      BY <1>5, <2>4
    <3>2. ~Owed(a, c)'
      BY <2>2, <2>3, <2>4, ClaimsDistinct DEF Owed
    <3> QED
      BY <3>1, <3>2
  <2>5. CASE ~(\E n \in gone : nodes[n].entity = a /\ c = Reg!StakeClaimForNode(n))
    <3>1. c \in DOMAIN claims'[a] <=> c \in DOMAIN claims[a]
      BY <1>5, <2>5
    <3>2. Owed(a, c)' <=> Owed(a, c)
      BY <2>2, <2>3, <2>5 DEF Owed
    <3> QED
      BY <2>1, <3>1, <3>2
  <2> QED
    BY <2>4, <2>5
<1>9. OwnersExact' /\ OwnersPairs' /\ NodesOwned'
  BY <1>1, <1>4 DEF RegistryInv, OwnersExact, OwnersPairs, NodesOwned
<1>10. MembersLast'
  BY <1>6 DEF MembersLast
<1>11. ServedLast'
  <2> SUFFICES ASSUME NEW n \in Nodes, served'[n] >= 0
               PROVE  /\ served'[n] <= consensusEpoch'
                      /\ consensusEpoch' <= served'[n] + DebondingInterval =>
                             n \in DOMAIN nodes' /\ nodes'[n].expiration >= served'[n]
    BY DEF ServedLast
  <2>1. CASE \E r \in Runtimes : n \in committee'[r]
    BY <1>1, <1>2, <1>6, <2>1
  <2>2. CASE ~(\E r \in Runtimes : n \in committee'[r])
    <3>1. served'[n] = served[n] /\ served[n] \in Int
      BY <1>1, <2>2 DEF RegistryInv, RegistryTypes
    <3>2. /\ served[n] <= consensusEpoch
          /\ consensusEpoch <= served[n] + DebondingInterval => n \in DOMAIN nodes /\ nodes[n].expiration >= served[n]
      BY <3>1 DEF RegistryInv, ServedLast
    <3>3. ASSUME consensusEpoch' <= served[n] + DebondingInterval
          PROVE  n \in DOMAIN nodes' /\ nodes'[n].expiration >= served[n]
      <4>1. n \in DOMAIN nodes /\ nodes[n].expiration >= served[n]
        BY <1>1, <1>2, <3>1, <3>2, <3>3
      <4>2. n \notin gone
        BY <1>1, <1>2, <1>3, <3>1, <3>3, <4>1
      <4> QED
        BY <1>4, <4>1, <4>2
    <3> QED
      BY <1>1, <1>2, <3>1, <3>2, <3>3
  <2> QED
    BY <2>1, <2>2
<1>12. Reg!ExpirationProcessedOnce'
  <2> SUFFICES ASSUME NEW n \in DOMAIN nodes' PROVE processed'[n] <=> nodes'[n].expiration < consensusEpoch'
    BY DEF Reg!ExpirationProcessedOnce
  <2>1. n \in DOMAIN nodes \ gone /\ nodes'[n] = nodes[n] /\ n \in DOMAIN processed \ gone
    BY <1>4 DEF RegistryInv, RegistryTypes
  <2>2. processed'[n] <=> processed[n] \/ n \in Reg!ExpiredAt(consensusEpoch + 1)
    BY <1>1, <2>1
  <2>3. processed[n] <=> nodes[n].expiration < consensusEpoch
    BY <2>1 DEF RegistryInv, Reg!ExpirationProcessedOnce
  <2>4. n \in Reg!ExpiredAt(consensusEpoch + 1) <=> nodes[n].expiration < consensusEpoch + 1
    BY <2>1 DEF Reg!ExpiredAt
  <2> QED
    BY <1>1, <1>2, <2>1, <2>2, <2>3, <2>4
<1>13. ASSUME DebondingInterval # 0 PROVE failed' = "ok"
  <2>1. ~(\E n \in gone : ~Reg!HasClaim(claims, nodes[n].entity, Reg!StakeClaimForNode(n)))
    <3> SUFFICES ASSUME NEW n \in gone PROVE Reg!HasClaim(claims, nodes[n].entity, Reg!StakeClaimForNode(n))
      OBVIOUS
    <3>1. n \in DOMAIN nodes
      BY <1>3
    <3>2. nodes[n].entity \in Reg!Accounts /\ Owed(nodes[n].entity, Reg!StakeClaimForNode(n))
      BY <1>2, <3>1 DEF Owed
    <3> QED
      BY <3>2 DEF RegistryInv, ClaimsExact, Reg!HasClaim
  <2>2. ~Reg!Unresolvable(gone)
    <3> SUFFICES ASSUME NEW r \in Runtimes, NEW n \in committee[r], n \in gone PROVE FALSE
      BY DEF Reg!Unresolvable, RegistryInv, RegistryTypes
    <3>1. n \in DOMAIN nodes /\ nodes[n].expiration >= consensusEpoch
      BY DEF RegistryInv, MembersLast
    <3> QED
      BY <1>2, <1>3, <1>13, <3>1
  <2>3. failed = "ok"
    BY <1>13 DEF RegistryInv
  <2> QED
    BY <1>1, <2>1, <2>2, <2>3 DEF Reg!EpochFailure
<1> QED
  BY <1>7, <1>8, <1>9, <1>10, <1>11, <1>12, <1>13 DEF RegistryInv

-----------------------------------------------------------------------------
(***************************************************************************)
(* The theorems.                                                             *)
(***************************************************************************)
LEMMA RegistryStepInv == ASSUME Reg!RegistryAssumption, RegistryInv, [Reg!Next]_(Reg!vars) PROVE RegistryInv'
<1>1. ASSUME NEW e \in Entities, NEW ns \in SUBSET Nodes, Reg!RegisterEntity(e, ns) PROVE RegistryInv'
  BY <1>1, RegisterEntityInv
<1>2. ASSUME NEW e \in Entities, Reg!DeregisterEntity(e) PROVE RegistryInv'
  BY <1>2, DeregisterEntityInv
<1>3. ASSUME NEW n \in Nodes, NEW d \in Reg!Descriptors(n), Reg!RegisterNode(n, d) PROVE RegistryInv'
  BY <1>3, RegisterNodeInv
<1>4. ASSUME NEW caller \in Reg!Accounts, NEW r \in Runtimes, NEW d \in RuntimeType, Reg!RegisterRuntime(caller, r, d)
      PROVE  RegistryInv'
  BY <1>4, RegisterRuntimeInv
<1>5. CASE Reg!EpochTransition
  BY <1>5, EpochTransitionInv
<1>6. ASSUME NEW a \in Reg!Accounts, NEW b \in 0..MaxBalance, Reg!BalanceChange(a, b) PROVE RegistryInv'
  BY <1>6, BalanceChangeInv
<1>7. CASE UNCHANGED Reg!vars
  BY <1>7 DEF Reg!vars, RegistryInv, RegistryTypes, ClaimsExact, Owed, OwnersExact, OwnersPairs, NodesOwned, MembersLast,
              ServedLast, Reg!ExpirationProcessedOnce
<1> QED
  BY <1>1, <1>2, <1>3, <1>4, <1>5, <1>6, <1>7 DEF Reg!Next, RuntimeType

\* The inductive invariant holds in every reachable state of the registry
\* application.
THEOREM RegistryInvariance == ASSUME Reg!RegistryAssumption PROVE Reg!Spec => []RegistryInv
<1>1. Reg!Init => RegistryInv
  BY RegistryInitInv
<1>2. RegistryInv /\ [Reg!Next]_(Reg!vars) => RegistryInv'
  BY RegistryStepInv
<1> QED
  BY <1>1, <1>2, PTL DEF Reg!Spec

\* Descriptors, claims, balances and committees keep their types, and the
\* nodes with a status are those that are registered.
THEOREM RegistryTypeCorrect == ASSUME Reg!RegistryAssumption PROVE Reg!Spec => []Reg!TypeOK
<1>1. ASSUME RegistryInv PROVE Reg!TypeOK
  <2>1. \A a \in Reg!Accounts : DOMAIN claims[a] \subseteq Reg!Claims
    <3> SUFFICES ASSUME NEW a \in Reg!Accounts, NEW c \in DOMAIN claims[a] PROVE c \in Reg!Claims
      OBVIOUS
    <3>1. Owed(a, c)
      BY <1>1 DEF RegistryInv, ClaimsExact
    <3> QED
      BY <1>1, <3>1 DEF Owed, Reg!Claims, RegistryInv, RegistryTypes
  <2>2. \A r \in Runtimes : committee[r] \subseteq DOMAIN nodes
    BY <1>1 DEF RegistryInv, MembersLast
  <2> QED
    BY <1>1, <2>1, <2>2 DEF RegistryInv, RegistryTypes, Reg!TypeOK, RuntimeType
<1> QED
  BY <1>1, RegistryInvariance, PTL

\* The stake claims on an account are exactly those of what is registered on
\* it, after any sequence of registrations, updates that move a claim to
\* another account, removals and deregistrations: no claim is left behind and
\* none is missing.
THEOREM ClaimsRight == ASSUME Reg!RegistryAssumption PROVE Reg!Spec => []Reg!ClaimsMatchRegistrations
<1>1. ASSUME RegistryInv PROVE Reg!ClaimsMatchRegistrations
  <2> SUFFICES ASSUME NEW a \in Reg!Accounts
               PROVE  DOMAIN claims[a] =
                        {Reg!EntityClaim : e \in {x \in DOMAIN entities : x = a}}
                        \cup {Reg!StakeClaimForNode(n) : n \in {m \in DOMAIN nodes : nodes[m].entity = a}}
                        \cup {Reg!StakeClaimForRuntime(r) :
                                  r \in {q \in DOMAIN runtimes : Reg!StakingAddress(q, runtimes[q]) = a}}
    BY DEF Reg!ClaimsMatchRegistrations
  <2>1. \A c : c \in DOMAIN claims[a] <=> Owed(a, c)
    BY <1>1 DEF RegistryInv, ClaimsExact
  <2> QED
    BY <2>1 DEF Owed
<1> QED
  BY <1>1, RegistryInvariance, PTL

\* Every node belongs to a registered entity, and the index of runtimes by
\* owner names the current owner of every runtime and no one else.
THEOREM OwnersRight == ASSUME Reg!RegistryAssumption PROVE Reg!Spec => []Reg!OwnersExist
<1>1. ASSUME RegistryInv PROVE Reg!OwnersExist
  <2>1. owners = {<<runtimes[r].owner, r>> : r \in DOMAIN runtimes}
    <3>1. \A p \in owners : p \in {<<runtimes[r].owner, r>> : r \in DOMAIN runtimes}
      <4> SUFFICES ASSUME NEW p \in owners PROVE p \in {<<runtimes[r].owner, r>> : r \in DOMAIN runtimes}
        OBVIOUS
      <4>1. PICK e \in Entities, r \in Runtimes : p = <<e, r>>
        BY <1>1 DEF RegistryInv, OwnersPairs
      <4> QED
        BY <1>1, <4>1 DEF RegistryInv, OwnersExact
    <3>2. \A r \in DOMAIN runtimes : <<runtimes[r].owner, r>> \in owners
      BY <1>1 DEF RegistryInv, OwnersExact
    <3> QED
      BY <3>1, <3>2
  <2> QED
    BY <1>1, <2>1 DEF RegistryInv, NodesOwned, Reg!OwnersExist
<1> QED
  BY <1>1, RegistryInvariance, PTL

\* The expiration of a node is processed exactly when the node is expired,
\* whatever renewals and transitions happen in between.
THEOREM ExpirationRight == ASSUME Reg!RegistryAssumption PROVE Reg!Spec => []Reg!ExpirationProcessedOnce
<1>1. RegistryInv => Reg!ExpirationProcessedOnce
  BY DEF RegistryInv
<1> QED
  BY <1>1, RegistryInvariance, PTL

\* Who served in a committee stays registered for the debonding interval after
\* the last epoch in which it served, and so can be slashed.
THEOREM SlashableUntilDebonded == ASSUME Reg!RegistryAssumption PROVE Reg!Spec => []Reg!SlashableWhileDebonding
<1>1. ASSUME RegistryInv PROVE Reg!SlashableWhileDebonding
  BY <1>1 DEF RegistryInv, ServedLast, Reg!SlashableWhileDebonding
<1> QED
  BY <1>1, RegistryInvariance, PTL

\* With a debonding interval other than zero no epoch transition fails on a
\* missing claim, node or status, and no deregistration panics.
THEOREM RegistryNeverFails ==
    ASSUME Reg!RegistryAssumption, DebondingInterval # 0 PROVE Reg!Spec => []Reg!BlocksNeverFail
<1>1. RegistryInv => Reg!BlocksNeverFail
  BY DEF RegistryInv, Reg!BlocksNeverFail
<1> QED
  BY <1>1, RegistryInvariance, PTL

-----------------------------------------------------------------------------
(***************************************************************************)
(* The map from subkeys to nodes.  SetNode updates it role by role, so a key *)
(* that moves to an earlier role is mapped and then unmapped: such a key is  *)
(* lost.  Every other key leads to the node that uses it.                    *)
(***************************************************************************)
KeyInv ==
    /\ \A k \in DOMAIN keyMap : keyMap[k] \in DOMAIN nodes /\ \E x \in Reg!Roles : nodes[keyMap[k]].keys[x] = k
    /\ \A n \in DOMAIN nodes : \A x \in Reg!Roles :
          nodes[n].keys[x] \notin lost => nodes[n].keys[x] \in DOMAIN keyMap /\ keyMap[nodes[n].keys[x]] = n

\* What becomes of the map when one key replaces another.
Replaced(km, n, exists, was, key, new) ==
    /\ \A k : k \in DOMAIN new <=> k = key \/ (k \in DOMAIN km /\ ~(exists /\ k = was))
    /\ new[key] = n
    /\ \A k \in DOMAIN new : k # key => k \in DOMAIN km /\ new[k] = km[k]

LEMMA SetKeyEffect ==
    ASSUME NEW km, NEW n, NEW exists \in BOOLEAN, NEW old, NEW d, NEW x
    PROVE  Replaced(km, n, exists, old.keys[x], d.keys[x], Reg!SetKey(km, n, exists, old, d, x))
<1> DEFINE kept == IF exists /\ old.keys[x] # d.keys[x] THEN Reg!Without(km, {old.keys[x]}) ELSE km
           new == Reg!SetKey(km, n, exists, old, d, x)
<1>1. new = Reg!With(kept, d.keys[x], n)
  BY DEF Reg!SetKey
<1>2. /\ \A k : k \in DOMAIN kept <=> k \in DOMAIN km /\ ~(exists /\ old.keys[x] # d.keys[x] /\ k = old.keys[x])
      /\ \A k \in DOMAIN kept : kept[k] = km[k]
  BY DEF Reg!Without
<1> HIDE DEF kept, new
<1>3. /\ DOMAIN new = DOMAIN kept \cup {d.keys[x]} /\ new[d.keys[x]] = n
      /\ \A k \in DOMAIN kept : k # d.keys[x] => new[k] = kept[k]
  BY <1>1 DEF Reg!With
<1> QED
  BY <1>2, <1>3 DEF Replaced, new

\* All four roles, one after the other: what a mapped key is, which of the new
\* keys are mapped, and which of the others stay.
AllReplaced(n, exists, old, d, new) ==
    /\ \A k \in DOMAIN new :
          \/ new[k] = n /\ \E x \in Reg!Roles : k = d.keys[x]
          \/ /\ k \in DOMAIN keyMap /\ new[k] = keyMap[k]
             /\ \A x \in Reg!Roles : k # d.keys[x] /\ ~(exists /\ k = old.keys[x])
    /\ \A x \in Reg!Roles :
          ~(exists /\ \E y \in Reg!Later[x] : old.keys[y] = d.keys[x]) => d.keys[x] \in DOMAIN new /\ new[d.keys[x]] = n
    /\ \A k \in DOMAIN keyMap :
          (\A x \in Reg!Roles : k # d.keys[x] /\ ~(exists /\ k = old.keys[x])) => k \in DOMAIN new /\ new[k] = keyMap[k]

LEMMA SetNodeEffect ==
    ASSUME NEW n, NEW exists \in BOOLEAN, NEW old, NEW d,
           \A x, y \in Reg!Roles : x # y => d.keys[x] # d.keys[y]
    PROVE  AllReplaced(n, exists, old, d, Reg!SetNode(n, exists, old, d))
<1> DEFINE new == Reg!SetNode(n, exists, old, d)
           c == Reg!SetKey(keyMap, n, exists, old, d, "consensus")
           p == Reg!SetKey(c, n, exists, old, d, "p2p")
           v == Reg!SetKey(p, n, exists, old, d, "vrf")
           key(x) == d.keys[x]
           was(x) == old.keys[x]
<1>1. new = Reg!SetKey(v, n, exists, old, d, "tls")
  BY DEF Reg!SetNode
<1>2. /\ Replaced(keyMap, n, exists, was("consensus"), key("consensus"), c)
      /\ Replaced(c, n, exists, was("p2p"), key("p2p"), p)
      /\ Replaced(p, n, exists, was("vrf"), key("vrf"), v)
  BY SetKeyEffect
<1>3. Replaced(v, n, exists, was("tls"), key("tls"), new)
  BY <1>1, SetKeyEffect
<1>4. \A x, y \in Reg!Roles : x # y => key(x) # key(y)
  OBVIOUS
<1>5. Reg!Roles = {"consensus", "p2p", "vrf", "tls"}
  BY DEF Reg!Roles
<1>6. /\ Reg!Later["consensus"] = {"p2p", "vrf", "tls"} /\ Reg!Later["p2p"] = {"vrf", "tls"}
      /\ Reg!Later["vrf"] = {"tls"} /\ Reg!Later["tls"] = {}
  BY DEF Reg!Later
<1> HIDE DEF new, c, p, v, key, was
<1>7. /\ key("consensus") \notin {key("p2p"), key("vrf"), key("tls")}
      /\ key("p2p") \notin {key("vrf"), key("tls")} /\ key("vrf") # key("tls")
  BY <1>4, <1>5
<1>8. ASSUME NEW k
      PROVE  /\ k \in DOMAIN c <=> k = key("consensus") \/ (k \in DOMAIN keyMap /\ ~(exists /\ k = was("consensus")))
             /\ k \in DOMAIN p <=> k = key("p2p") \/ (k \in DOMAIN c /\ ~(exists /\ k = was("p2p")))
             /\ k \in DOMAIN v <=> k = key("vrf") \/ (k \in DOMAIN p /\ ~(exists /\ k = was("vrf")))
             /\ k \in DOMAIN new <=> k = key("tls") \/ (k \in DOMAIN v /\ ~(exists /\ k = was("tls")))
  BY <1>2, <1>3 DEF Replaced
<1>9. ASSUME NEW k
      PROVE  /\ k \in DOMAIN c => c[k] = IF k = key("consensus") THEN n ELSE keyMap[k]
             /\ k \in DOMAIN p => p[k] = IF k = key("p2p") THEN n ELSE c[k]
             /\ k \in DOMAIN v => v[k] = IF k = key("vrf") THEN n ELSE p[k]
             /\ k \in DOMAIN new => new[k] = IF k = key("tls") THEN n ELSE v[k]
  BY <1>2, <1>3 DEF Replaced
<1>10. ASSUME NEW k \in DOMAIN new
       PROVE  \/ new[k] = n /\ \E x \in Reg!Roles : k = key(x)
              \/ /\ k \in DOMAIN keyMap /\ new[k] = keyMap[k]
                 /\ \A x \in Reg!Roles : k # key(x) /\ ~(exists /\ k = was(x))
  <2>1. CASE k \in {key("consensus"), key("p2p"), key("vrf"), key("tls")}
    BY <1>5, <1>8, <1>9, <2>1
  <2>2. CASE k \notin {key("consensus"), key("p2p"), key("vrf"), key("tls")}
    <3>1. k \in DOMAIN keyMap /\ new[k] = keyMap[k]
      BY <1>8, <1>9, <2>2
    <3>2. ~(exists /\ k \in {was("consensus"), was("p2p"), was("vrf"), was("tls")})
      BY <1>8, <2>2
    <3> QED
      BY <1>5, <2>2, <3>1, <3>2
  <2> QED
    BY <2>1, <2>2
<1>11. ASSUME NEW x \in Reg!Roles, ~(exists /\ \E y \in Reg!Later[x] : was(y) = key(x))
       PROVE  key(x) \in DOMAIN new /\ new[key(x)] = n
  <2>1. CASE x = "consensus"
    <3>1. ~(exists /\ key(x) \in {was("p2p"), was("vrf"), was("tls")})
      BY <1>6, <1>11, <2>1
    <3> QED
      BY <1>7, <1>8, <1>9, <2>1, <3>1
  <2>2. CASE x = "p2p"
    <3>1. ~(exists /\ key(x) \in {was("vrf"), was("tls")})
      BY <1>6, <1>11, <2>2
    <3> QED
      BY <1>7, <1>8, <1>9, <2>2, <3>1
  <2>3. CASE x = "vrf"
    <3>1. ~(exists /\ key(x) = was("tls"))
      BY <1>6, <1>11, <2>3
    <3> QED
      BY <1>7, <1>8, <1>9, <2>3, <3>1
  <2>4. CASE x = "tls"
    BY <1>8, <1>9, <2>4
  <2> QED
    BY <1>5, <2>1, <2>2, <2>3, <2>4
<1>12. ASSUME NEW k \in DOMAIN keyMap, \A x \in Reg!Roles : k # key(x) /\ ~(exists /\ k = was(x))
       PROVE  k \in DOMAIN new /\ new[k] = keyMap[k]
  <2>1. /\ k \notin {key("consensus"), key("p2p"), key("vrf"), key("tls")}
        /\ ~(exists /\ k \in {was("consensus"), was("p2p"), was("vrf"), was("tls")})
    BY <1>5, <1>12
  <2> QED
    BY <1>8, <1>9, <2>1
<1> QED
  BY <1>10, <1>11, <1>12 DEF AllReplaced, new, key, was

\* A descriptor with as many keys as roles has a key of its own for each role.
LEMMA RegistryCardinality == ASSUME NEW S PROVE Reg!Cardinality(S) = Cardinality(S)
BY Zenon DEF Reg!Cardinality, Cardinality

LEMMA KeysDistinct ==
    ASSUME NEW n \in Nodes, NEW d \in Reg!Descriptors(n), Reg!RegistryAssumption, Reg!UniqueSubKeys(n, d)
    PROVE  \A x, y \in Reg!Roles : x # y => d.keys[x] # d.keys[y]
<1>1. d.keys \in [Reg!Roles -> Keys]
  BY DescriptorFields DEF Reg!RegistryAssumption
<1>2. d.keys \in Surjection(Reg!Roles, Reg!KeysOf(d))
  BY <1>1 DEF Surjection, Reg!KeysOf
<1>3. Cardinality(Reg!KeysOf(d)) = Cardinality(Reg!Roles)
  BY RegistryCardinality DEF Reg!UniqueSubKeys
<1>4. IsFiniteSet(Reg!Roles)
  <2>1. IsFiniteSet({})
    BY FS_EmptySet
  <2>2. IsFiniteSet({"consensus", "p2p", "vrf", "tls"})
    <3>1. IsFiniteSet({} \cup {"consensus"} \cup {"p2p"} \cup {"vrf"} \cup {"tls"})
      BY <2>1, FS_AddElement
    <3>2. {"consensus", "p2p", "vrf", "tls"} = {} \cup {"consensus"} \cup {"p2p"} \cup {"vrf"} \cup {"tls"}
      OBVIOUS
    <3> QED
      BY <3>1, <3>2
  <2> QED
    BY <2>2 DEF Reg!Roles
<1>5. d.keys \in Injection(Reg!Roles, Reg!KeysOf(d))
  BY <1>2, <1>3, <1>4, FS_SurjSameCardinalityImpliesInj
<1> QED
  BY <1>5 DEF Injection, IsInjective

LEMMA KeyInvStep ==
    ASSUME Reg!RegistryAssumption, RegistryInv, KeyInv, [Reg!Next]_(Reg!vars)
    PROVE  KeyInv'
<1>1. ASSUME UNCHANGED <<nodes, keyMap, lost>> PROVE KeyInv'
  BY <1>1 DEF KeyInv
<1>2. ASSUME NEW n \in Nodes, NEW d \in Reg!Descriptors(n), Reg!RegisterNode(n, d) PROVE KeyInv'
  <2> DEFINE exists == n \in DOMAIN nodes
             old == IF exists THEN nodes[n] ELSE d
  <2>1. /\ nodes' = Reg!With(nodes, n, d) /\ keyMap' = Reg!SetNode(n, exists, old, d) /\ Reg!UniqueSubKeys(n, d)
        /\ lost' = lost \cup Reg!Unmapped(exists, old, d)
    BY <1>2 DEF Reg!RegisterNode, Reg!VerifyRegisterNodeArgs
  <2>2. \A x, y \in Reg!Roles : x # y => d.keys[x] # d.keys[y]
    BY <2>1, KeysDistinct
  <2>3. AllReplaced(n, exists, old, d, keyMap')
    <3> HIDE DEF exists, old
    <3>1. exists \in BOOLEAN
      BY DEF exists
    <3> QED
      BY <2>1, <2>2, <3>1, SetNodeEffect
  <2>4. /\ DOMAIN nodes' = DOMAIN nodes \cup {n} /\ nodes'[n] = d
        /\ \A m \in DOMAIN nodes : m # n => nodes'[m] = nodes[m]
    BY <2>1 DEF Reg!With
  <2>5. \A x \in Reg!Roles : d.keys[x] \in DOMAIN keyMap => keyMap[d.keys[x]] = n
    BY <2>1 DEF Reg!UniqueSubKeys, Reg!KeysOf
  <2>6. /\ \A k : k \notin lost' => k \notin lost
        /\ \A x \in Reg!Roles : d.keys[x] \notin lost' => ~(exists /\ \E y \in Reg!Later[x] : old.keys[y] = d.keys[x])
    BY <2>1 DEF Reg!Unmapped, Reg!KeysOf
  <2>7. ASSUME NEW m \in DOMAIN nodes, m # n, NEW x \in Reg!Roles, nodes[m].keys[x] \notin lost'
        PROVE  nodes[m].keys[x] \in DOMAIN keyMap' /\ keyMap'[nodes[m].keys[x]] = m
    <3> DEFINE k == nodes[m].keys[x]
    <3>1. k \notin lost /\ k \in DOMAIN keyMap /\ keyMap[k] = m
      BY <2>6, <2>7 DEF KeyInv
    <3>2. \A y \in Reg!Roles : k # d.keys[y]
      BY <2>5, <2>7, <3>1
    <3>3. exists => \A y \in Reg!Roles : k # old.keys[y]
      BY <2>7, <3>1 DEF KeyInv
    <3> HIDE DEF k, exists, old
    <3>4. k \in DOMAIN keyMap' /\ keyMap'[k] = keyMap[k]
      BY <2>3, <3>1, <3>2, <3>3 DEF AllReplaced
    <3> QED
      BY <3>1, <3>4 DEF k
  <2>8. ASSUME NEW m \in DOMAIN nodes', NEW x \in Reg!Roles, nodes'[m].keys[x] \notin lost'
        PROVE  nodes'[m].keys[x] \in DOMAIN keyMap' /\ keyMap'[nodes'[m].keys[x]] = m
    <3> HIDE DEF exists, old
    <3>1. CASE m = n
      BY <2>3, <2>4, <2>6, <2>8, <3>1 DEF AllReplaced
    <3>2. CASE m # n
      BY <2>4, <2>7, <2>8, <3>2
    <3> QED
      BY <3>1, <3>2
  <2>9. ASSUME NEW k \in DOMAIN keyMap'
        PROVE  keyMap'[k] \in DOMAIN nodes' /\ \E x \in Reg!Roles : nodes'[keyMap'[k]].keys[x] = k
    <3>1. CASE keyMap'[k] = n /\ \E x \in Reg!Roles : k = d.keys[x]
      BY <2>4, <3>1
    <3>2. CASE /\ k \in DOMAIN keyMap /\ keyMap'[k] = keyMap[k]
               /\ \A x \in Reg!Roles : k # d.keys[x] /\ ~(exists /\ k = old.keys[x])
      <4>1. keyMap[k] \in DOMAIN nodes /\ \E x \in Reg!Roles : nodes[keyMap[k]].keys[x] = k
        BY <3>2 DEF KeyInv
      <4>2. keyMap[k] # n
        BY <3>2, <4>1
      <4> QED
        BY <2>4, <3>2, <4>1, <4>2
    <3> HIDE DEF exists, old
    <3> QED
      BY <2>3, <3>1, <3>2 DEF AllReplaced
  <2> QED
    BY <2>8, <2>9 DEF KeyInv
<1>3. CASE Reg!EpochTransition
  <2> DEFINE gone == Reg!RemovedAt(consensusEpoch + 1)
  <2>1. Reg!RemoveNodes(gone) /\ gone \subseteq DOMAIN nodes /\ lost' = lost
    BY <1>3 DEF Reg!EpochTransition, Reg!RemovedAt, Reg!ExpiredAt
  <2> HIDE DEF gone
  <2>2. /\ DOMAIN nodes' = DOMAIN nodes \ gone /\ \A n \in DOMAIN nodes' : nodes'[n] = nodes[n]
    BY <2>1 DEF Reg!RemoveNodes, Reg!Without
  <2>3. /\ \A k : k \in DOMAIN keyMap' <=> k \in DOMAIN keyMap /\ ~(\E n \in gone : \E x \in Reg!Roles : nodes[n].keys[x] = k)
        /\ \A k \in DOMAIN keyMap' : keyMap'[k] = keyMap[k]
    BY <2>1 DEF Reg!RemoveNodes, Reg!Without, Reg!KeysOf
  <2>4. ASSUME NEW n \in DOMAIN nodes', NEW x \in Reg!Roles, nodes'[n].keys[x] \notin lost'
        PROVE  nodes'[n].keys[x] \in DOMAIN keyMap' /\ keyMap'[nodes'[n].keys[x]] = n
    <3>1. n \in DOMAIN nodes /\ n \notin gone /\ nodes'[n] = nodes[n]
      BY <2>2
    <3>2. nodes[n].keys[x] \in DOMAIN keyMap /\ keyMap[nodes[n].keys[x]] = n
      BY <2>1, <2>4, <3>1 DEF KeyInv
    <3>3. ~(\E m \in gone : \E y \in Reg!Roles : nodes[m].keys[y] = nodes[n].keys[x])
      BY <2>1, <2>4, <3>1, <3>2 DEF KeyInv
    <3> QED
      BY <2>3, <3>1, <3>2, <3>3
  <2>5. \A k \in DOMAIN keyMap' : keyMap'[k] \in DOMAIN nodes' /\ \E x \in Reg!Roles : nodes'[keyMap'[k]].keys[x] = k
    BY <2>2, <2>3 DEF KeyInv
  <2> QED
    BY <2>4, <2>5 DEF KeyInv
<1>4. \/ UNCHANGED <<nodes, keyMap, lost>> \/ Reg!EpochTransition
      \/ \E n \in Nodes : \E d \in Reg!Descriptors(n) : Reg!RegisterNode(n, d)
  BY DEF Reg!Next, Reg!vars, Reg!RegisterEntity, Reg!DeregisterEntity, Reg!RegisterRuntime, Reg!BalanceChange
<1> QED
  BY <1>1, <1>2, <1>3, <1>4

\* Who is found by a subkey uses it, and who uses a subkey is found by it
\* unless an update has moved the key to an earlier role, whatever keys the
\* nodes register in whatever roles.
THEOREM KeyMapRight == ASSUME Reg!RegistryAssumption PROVE Reg!Spec => []Reg!KeyMapExact
<1>1. Reg!Init => KeyInv
  BY DEF Reg!Init, Reg!None, KeyInv
<1>2. RegistryInv /\ KeyInv /\ [Reg!Next]_(Reg!vars) => KeyInv'
  BY KeyInvStep
<1>3. ASSUME KeyInv PROVE Reg!KeyMapExact
  BY <1>3 DEF KeyInv, Reg!KeyMapExact, Reg!KeysOf
<1> QED
  BY <1>1, <1>2, <1>3, RegistryInvariance, PTL DEF Reg!Spec

\* No two registered nodes share a subkey that no update has moved to an
\* earlier role: that is the only way in which the registry comes to accept a
\* key of another node.
THEOREM KeysUnique == ASSUME Reg!RegistryAssumption PROVE Reg!Spec => []Reg!SharedKeysLost
<1>1. ASSUME Reg!KeyMapExact PROVE Reg!SharedKeysLost
  BY <1>1 DEF Reg!KeyMapExact, Reg!SharedKeysLost
<1> QED
  BY <1>1, KeyMapRight, PTL

-----------------------------------------------------------------------------
(***************************************************************************)
(* The liveness record of a node.  A node that is in a committee, or waits   *)
(* to be evaluated, has served its suspension; a node that is not frozen has *)
(* nothing left of a freeze.  Both have to be known of every step between    *)
(* two evaluations for the accountability of nodes to follow.                *)
(***************************************************************************)
CONSTANTS Width, MaxLivenessFailures, FreezeInterval, EvidenceFreeze, FailureBound

VARIABLES failures, suspension, frozen, freeze, member, todo, electing, since

Lv == INSTANCE NodeLiveness

\* What is left of the suspension and the epochs since make up the whole of it,
\* and those that are evaluated have served it.
ServedInv ==
    /\ since \in [Runtimes -> Nat]
    /\ \A r \in Runtimes :
          /\ failures[r] <= FailureBound
          /\ since[r] + suspension[r] >= Lv!ScheduleSuspension(failures[r])
    /\ \A r \in todo : since[r] >= Lv!ScheduleSuspension(failures[r])
    /\ ~electing => todo = {} /\ \A r \in member : suspension[r] = 0

LivenessInv == Lv!TypeOK /\ ServedInv /\ (~frozen => freeze = 0)

\* A suspension takes at most 64 epochs, and no less after more failures.
LEMMA SuspensionGrows ==
    ASSUME NEW f \in Nat, NEW g \in Nat, f <= g
    PROVE  /\ Lv!ScheduleSuspension(f) \in 0..Lv!MaxSuspension
           /\ Lv!ScheduleSuspension(f) <= Lv!ScheduleSuspension(g)
<1> DEFINE D == <<2, 4, 8, 16, 32, 64>>
<1>1. \A x \in 1..6 : D[x] \in 0..64
  OBVIOUS
<1>2. \A x \in 1..6, y \in 1..6 : x <= y => D[x] <= D[y]
  OBVIOUS
<1>3. \A x \in Nat : x # 0 => Lv!Cap(x, 6) \in 1..6
  BY DEF Lv!Cap
<1>4. f # 0 => Lv!Cap(f, 6) <= Lv!Cap(g, 6)
  BY DEF Lv!Cap
<1>5. \A x \in Nat : Lv!ScheduleSuspension(x) = IF x = 0 THEN 0 ELSE D[Lv!Cap(x, 6)]
  BY DEF Lv!ScheduleSuspension
<1> HIDE DEF D
<1>6. /\ Lv!ScheduleSuspension(f) = IF f = 0 THEN 0 ELSE D[Lv!Cap(f, 6)]
      /\ Lv!ScheduleSuspension(g) = IF g = 0 THEN 0 ELSE D[Lv!Cap(g, 6)]
  BY <1>5
<1> QED
  BY <1>1, <1>2, <1>3, <1>4, <1>6 DEF Lv!MaxSuspension

\* The counter never holds more than the failures there were.
LEMMA RecordTyped ==
    ASSUME Lv!LivenessAssumption, NEW f \in 0..2^Width - 1, NEW ok \in BOOLEAN
    PROVE  LET g == IF ok THEN Lv!RecordSuccess(f) ELSE Lv!RecordFailure(f)
           IN  g \in 0..2^Width - 1 /\ g <= f + 1 /\ (ok => g <= f)
<1>1. 2^Width \in Int /\ 2^Width > 0
  BY DEF Lv!LivenessAssumption
<1> DEFINE m == 2^Width
<1> HIDE DEF m
<1>2. m \in Nat \ {0}
  BY <1>1 DEF m
<1>3. (f + 1) % m \in 0..m - 1 /\ (f + 1) % m <= f + 1
  <2>1. f + 1 \in 0..m
    BY <1>2 DEF m
  <2>2. CASE f + 1 = m
    BY <1>2, <2>2
  <2>3. CASE f + 1 < m
    BY <1>2, <2>1, <2>3
  <2> QED
    BY <1>2, <2>1, <2>2, <2>3
<1> QED
  BY <1>2, <1>3 DEF m, Lv!RecordSuccess, Lv!RecordFailure, Lv!Dec

\* A node starts without a record.
LEMMA LivenessInitially == ASSUME Lv!LivenessAssumption, Lv!Init PROVE LivenessInv
<1>1. 0 \in 0..2^Width - 1 /\ FailureBound \in Nat
  BY DEF Lv!LivenessAssumption
<1>2. Lv!TypeOK
  <2>1. failures \in [Runtimes -> 0..2^Width - 1] /\ suspension \in [Runtimes -> 0..Lv!MaxSuspension]
    BY <1>1 DEF Lv!Init, Lv!MaxSuspension
  <2> QED
    BY <2>1 DEF Lv!Init, Lv!TypeOK
<1>3. Lv!SinceBound \in Nat /\ Lv!ScheduleSuspension(0) = 0
  <2>1. Lv!ScheduleSuspension(FailureBound) \in 0..64
    BY <1>1, SuspensionGrows DEF Lv!MaxSuspension
  <2>2. Lv!SinceBound \in Nat
    BY <2>1 DEF Lv!SinceBound
  <2> QED
    BY <2>2 DEF Lv!ScheduleSuspension
<1>4. ServedInv
  BY <1>1, <1>3 DEF Lv!Init, ServedInv
<1> QED
  BY <1>2, <1>4 DEF LivenessInv, Lv!Init

\* A new epoch.
LEMMA TransitionServes ==
    ASSUME Lv!LivenessAssumption, LivenessInv, Lv!EpochTransition
    PROVE  LivenessInv'
<1>0. /\ electing' = TRUE /\ ~electing /\ todo' = member /\ member' = member /\ failures' = failures /\ frozen' = frozen
      /\ freeze' = Lv!Dec(freeze)
      /\ suspension' = [r \in Runtimes |-> Lv!Dec(suspension[r])]
      /\ since' = [r \in Runtimes |-> Lv!Cap(since[r] + 1, Lv!SinceBound)]
  BY DEF Lv!EpochTransition
<1>1. /\ failures \in [Runtimes -> 0..2^Width - 1] /\ suspension \in [Runtimes -> 0..64] /\ since \in [Runtimes -> Nat]
      /\ member \subseteq Runtimes /\ freeze \in Nat /\ frozen \in BOOLEAN
      /\ \A r \in member : suspension[r] = 0
  BY <1>0 DEF LivenessInv, Lv!TypeOK, ServedInv, Lv!MaxSuspension
<1>2. ASSUME NEW r \in Runtimes
      PROVE  /\ failures[r] \in Nat /\ failures[r] <= FailureBound /\ FailureBound \in Nat
             /\ Lv!ScheduleSuspension(failures[r]) \in Nat /\ Lv!SinceBound \in Nat
             /\ Lv!SinceBound > Lv!ScheduleSuspension(failures[r])
             /\ since[r] + suspension[r] >= Lv!ScheduleSuspension(failures[r])
  <2>1. failures[r] \in Nat /\ failures[r] <= FailureBound /\ FailureBound \in Nat
    BY <1>1 DEF LivenessInv, ServedInv, Lv!LivenessAssumption
  <2>2. /\ Lv!ScheduleSuspension(failures[r]) \in 0..Lv!MaxSuspension
        /\ Lv!ScheduleSuspension(FailureBound) \in 0..Lv!MaxSuspension
        /\ Lv!ScheduleSuspension(failures[r]) <= Lv!ScheduleSuspension(FailureBound)
    BY <2>1, SuspensionGrows
  <2>3. since[r] + suspension[r] >= Lv!ScheduleSuspension(failures[r])
    BY DEF LivenessInv, ServedInv
  <2> QED
    BY <2>1, <2>2, <2>3 DEF Lv!SinceBound, Lv!MaxSuspension
<1>3. ASSUME NEW r \in Runtimes
      PROVE  /\ since'[r] \in Nat /\ suspension'[r] \in 0..64
             /\ since'[r] + suspension'[r] >= Lv!ScheduleSuspension(failures[r])
             /\ r \in member => since'[r] > Lv!ScheduleSuspension(failures[r])
  <2> DEFINE s == Lv!ScheduleSuspension(failures[r])
             b == Lv!SinceBound
  <2>1. s \in Nat /\ b \in Nat /\ b > s /\ since[r] + suspension[r] >= s
    BY <1>2
  <2>2. since[r] \in Nat /\ suspension[r] \in 0..64 /\ (r \in member => suspension[r] = 0)
    BY <1>1
  <2>3. since'[r] = Lv!Cap(since[r] + 1, b) /\ suspension'[r] = Lv!Dec(suspension[r])
    BY <1>0
  <2> HIDE DEF s, b
  <2>4. /\ since'[r] \in Nat /\ suspension'[r] \in 0..64
        /\ since'[r] + suspension'[r] >= s /\ (r \in member => since'[r] > s)
    BY <2>1, <2>2, <2>3 DEF Lv!Cap, Lv!Dec
  <2> QED
    BY <2>4 DEF s
<1>4. suspension' \in [Runtimes -> 0..64] /\ since' \in [Runtimes -> Nat]
  BY <1>0, <1>3
<1>5. ServedInv'
  BY <1>0, <1>1, <1>2, <1>3, <1>4 DEF ServedInv
<1>6. freeze' \in Nat /\ (freeze = 0 => freeze' = 0)
  BY <1>0, <1>1 DEF Lv!Dec
<1> QED
  BY <1>0, <1>1, <1>4, <1>5, <1>6 DEF LivenessInv, Lv!TypeOK, Lv!MaxSuspension

\* An election in the middle of an epoch.
LEMMA ReelectionServes ==
    ASSUME Lv!LivenessAssumption, LivenessInv, Lv!Reelection
    PROVE  LivenessInv'
<1>1. /\ electing' = TRUE /\ ~electing /\ todo' = member
      /\ UNCHANGED <<failures, suspension, frozen, freeze, member, since>>
  BY DEF Lv!Reelection
<1>2. /\ failures \in [Runtimes -> 0..2^Width - 1] /\ since \in [Runtimes -> Nat] /\ member \subseteq Runtimes
      /\ \A r \in member : suspension[r] = 0
      /\ \A r \in Runtimes : since[r] + suspension[r] >= Lv!ScheduleSuspension(failures[r])
  BY <1>1 DEF LivenessInv, Lv!TypeOK, ServedInv
<1>3. \A r \in member : since[r] >= Lv!ScheduleSuspension(failures[r])
  <2> TAKE r \in member
  <2>1. r \in Runtimes /\ since[r] \in Nat /\ suspension[r] = 0 /\ since[r] + suspension[r] >= Lv!ScheduleSuspension(failures[r])
    BY <1>2
  <2> HIDE DEF Lv!ScheduleSuspension
  <2> QED
    BY <2>1
<1>4. ServedInv'
  BY <1>1, <1>3 DEF LivenessInv, ServedInv
<1> QED
  BY <1>1, <1>4 DEF LivenessInv, Lv!TypeOK

\* The evaluation of a committee.
LEMMA EvaluationServes ==
    ASSUME Lv!LivenessAssumption, LivenessInv, NEW r \in Runtimes, NEW ok \in BOOLEAN,
           Lv!ProcessLivenessStatistics(r, ok)
    PROVE  LivenessInv'
<1> DEFINE f == IF ok THEN Lv!RecordSuccess(failures[r]) ELSE Lv!RecordFailure(failures[r])
           z == IF ok /\ failures[r] = 0 THEN suspension[r] ELSE Lv!ScheduleSuspension(f)
<1>0. r \in todo /\ todo' = todo \ {r} /\ (ok \/ failures[r] < FailureBound) /\ member' = member /\ electing' = electing
  BY DEF Lv!ProcessLivenessStatistics
<1>1. /\ failures \in [Runtimes -> 0..2^Width - 1] /\ suspension \in [Runtimes -> 0..64] /\ since \in [Runtimes -> Nat]
      /\ member \subseteq Runtimes /\ todo \subseteq member /\ freeze \in Nat /\ frozen \in BOOLEAN /\ electing = TRUE
      /\ FailureBound \in Nat /\ FreezeInterval \in Nat /\ (~frozen => freeze = 0)
  BY <1>0 DEF LivenessInv, Lv!TypeOK, ServedInv, Lv!MaxSuspension, Lv!LivenessAssumption
<1>2. CASE Lv!IsSuspended(r)
  <2>1. UNCHANGED <<failures, suspension, frozen, freeze, since>>
    BY <1>2 DEF Lv!ProcessLivenessStatistics
  <2> QED
    BY <1>0, <1>1, <2>1 DEF LivenessInv, ServedInv, Lv!TypeOK, Lv!MaxSuspension
<1>3. CASE ~Lv!IsSuspended(r)
  <2>1. /\ failures' = [failures EXCEPT ![r] = f]
        /\ suspension' = [suspension EXCEPT ![r] = z]
        /\ since' = [since EXCEPT ![r] = 0]
        /\ frozen' \in BOOLEAN /\ freeze' \in Nat
        /\ ~frozen' => freeze' = freeze /\ ~frozen
    BY <1>1, <1>3 DEF Lv!ProcessLivenessStatistics
  <2>2. failures[r] \in 0..2^Width - 1 /\ failures[r] \in Nat /\ suspension[r] \in 0..64 /\ failures[r] <= FailureBound
    BY <1>1 DEF LivenessInv, ServedInv
  <2>3. f \in 0..2^Width - 1 /\ f <= failures[r] + 1 /\ (ok => f <= failures[r])
    BY <2>2, RecordTyped
  <2>4. ok /\ failures[r] = 0 => f = 0
    BY DEF Lv!RecordSuccess, Lv!Dec
  <2> HIDE DEF f
  <2>5. f \in Nat /\ f <= FailureBound
    BY <1>0, <1>1, <2>2, <2>3
  <2>6. z \in 0..64 /\ z >= Lv!ScheduleSuspension(f)
    <3>1. Lv!ScheduleSuspension(f) \in 0..64
      BY <2>5, SuspensionGrows DEF Lv!MaxSuspension
    <3>2. f = 0 => Lv!ScheduleSuspension(f) = 0
      BY DEF Lv!ScheduleSuspension
    <3> QED
      BY <2>2, <2>4, <3>1, <3>2
  <2> HIDE DEF z
  <2>7. /\ failures' \in [Runtimes -> 0..2^Width - 1] /\ suspension' \in [Runtimes -> 0..64] /\ since' \in [Runtimes -> Nat]
        /\ failures'[r] = f /\ suspension'[r] = z /\ since'[r] = 0
        /\ \A q \in Runtimes \ {r} : failures'[q] = failures[q] /\ suspension'[q] = suspension[q] /\ since'[q] = since[q]
    BY <1>1, <2>1, <2>3, <2>6
  <2>8. \A q \in Runtimes : /\ failures'[q] <= FailureBound
                            /\ since'[q] + suspension'[q] >= Lv!ScheduleSuspension(failures'[q])
    <3> SUFFICES ASSUME NEW q \in Runtimes
                 PROVE  /\ failures'[q] <= FailureBound
                        /\ since'[q] + suspension'[q] >= Lv!ScheduleSuspension(failures'[q])
      OBVIOUS
    <3>1. CASE q = r
      <4>1. 0 + z = z
        BY <2>6
      <4> QED
        BY <2>5, <2>6, <2>7, <3>1, <4>1
    <3>2. CASE q # r
      BY <2>7, <3>2 DEF LivenessInv, ServedInv
    <3> QED
      BY <3>1, <3>2
  <2>9. \A q \in todo' : since'[q] >= Lv!ScheduleSuspension(failures'[q])
    BY <1>0, <1>1, <2>7 DEF LivenessInv, ServedInv
  <2>10. ServedInv'
    BY <1>0, <1>1, <2>7, <2>8, <2>9 DEF ServedInv
  <2> QED
    BY <1>0, <1>1, <2>1, <2>7, <2>10 DEF LivenessInv, Lv!TypeOK, Lv!MaxSuspension
<1> QED
  BY <1>2, <1>3

\* Every other step.
LEMMA OthersServe ==
    ASSUME Lv!LivenessAssumption, LivenessInv,
           \/ \E elected \in SUBSET Runtimes : Lv!Elect(elected)
           \/ Lv!OnEvidenceByzantineConsensus
           \/ Lv!UnfreezeNode
           \/ UNCHANGED Lv!vars
    PROVE  LivenessInv'
<1>1. CASE \E elected \in SUBSET Runtimes : Lv!Elect(elected)
  <2>1. PICK elected \in SUBSET Runtimes : Lv!Elect(elected)
    BY <1>1
  <2>2. /\ suspension \in [Runtimes -> 0..Lv!MaxSuspension] /\ todo = {} /\ todo' = {} /\ member' = elected /\ electing' = FALSE
        /\ \A r \in elected : ~Lv!IsSuspended(r)
        /\ UNCHANGED <<failures, suspension, frozen, freeze, since>>
    BY <2>1 DEF Lv!Elect, LivenessInv, Lv!TypeOK
  <2>3. \A r \in elected : suspension[r] = 0
    BY <2>2 DEF Lv!IsSuspended, Lv!MaxSuspension
  <2> QED
    BY <2>2, <2>3 DEF LivenessInv, ServedInv, Lv!TypeOK
<1>2. CASE Lv!OnEvidenceByzantineConsensus
  BY <1>2 DEF Lv!OnEvidenceByzantineConsensus, LivenessInv, ServedInv, Lv!TypeOK, Lv!LivenessAssumption
<1>3. CASE Lv!UnfreezeNode
  BY <1>3 DEF Lv!UnfreezeNode, LivenessInv, ServedInv, Lv!TypeOK
<1>4. CASE UNCHANGED Lv!vars
  BY <1>4 DEF Lv!vars, LivenessInv, ServedInv, Lv!TypeOK
<1> QED
  BY <1>1, <1>2, <1>3, <1>4

\* The inductive invariant of the liveness record, for every runtime
\* (processLivenessStatistics, scheduleSuspension, Freeze, Unfreeze).
THEOREM LivenessInvariance == ASSUME Lv!LivenessAssumption PROVE Lv!Spec => []LivenessInv
<1>1. Lv!Init => LivenessInv
  BY LivenessInitially
<1>2. LivenessInv /\ [Lv!Next]_(Lv!vars) => LivenessInv'
  BY TransitionServes, ReelectionServes, EvaluationServes, OthersServe DEF Lv!Next
<1> QED
  BY <1>1, <1>2, PTL DEF Lv!Spec

\* A node is evaluated again only after it has served the suspension of its
\* last evaluation, a freeze runs its whole term whatever evidence, other
\* runtimes and elections in the middle of an epoch do, and in one block the
\* node is frozen at most once, whether or not the counter wraps,
\* for every number of runtimes, every width of the counter and every penalty.
THEOREM AccountabilityAlwaysKept ==
    ASSUME Lv!LivenessAssumption
    PROVE  Lv!Spec => [][Lv!SuspensionServed /\ Lv!FreezeNeverShortened /\ Lv!FrozenAtMostOnce]_(Lv!vars)
<1>1. ASSUME LivenessInv, Lv!Next
      PROVE  Lv!SuspensionServed /\ Lv!FreezeNeverShortened /\ Lv!FrozenAtMostOnce
  <2>0. /\ failures \in [Runtimes -> 0..2^Width - 1] /\ freeze \in Nat /\ frozen \in BOOLEAN
        /\ \A r \in todo : since[r] >= Lv!ScheduleSuspension(failures[r])
        /\ ~frozen => freeze = 0
    BY <1>1 DEF LivenessInv, Lv!TypeOK, ServedInv
  <2>1. CASE Lv!EpochTransition
    BY <2>0, <2>1 DEF Lv!EpochTransition, Lv!Dec, Lv!SuspensionServed, Lv!FreezeNeverShortened, Lv!FrozenAtMostOnce
  <2>6. CASE Lv!Reelection
    BY <2>0, <2>6 DEF Lv!Reelection, Lv!SuspensionServed, Lv!FreezeNeverShortened, Lv!FrozenAtMostOnce
  <2>2. ASSUME NEW r \in Runtimes, NEW ok \in BOOLEAN, Lv!ProcessLivenessStatistics(r, ok)
        PROVE  Lv!SuspensionServed /\ Lv!FreezeNeverShortened /\ Lv!FrozenAtMostOnce
    <3>1. r \in todo /\ \A q \in Runtimes \ {r} : failures'[q] = failures[q]
      BY <2>0, <2>2 DEF Lv!ProcessLivenessStatistics
    <3>2. Lv!SuspensionServed
      BY <2>0, <3>1 DEF Lv!SuspensionServed
    <3>3. freeze' = freeze \/ (~frozen /\ freeze' = FreezeInterval)
      BY <2>2 DEF Lv!ProcessLivenessStatistics, Lv!IsSuspended
    <3>6. frozen => frozen'
      BY <2>2 DEF Lv!ProcessLivenessStatistics, Lv!IsSuspended
    <3>4. Lv!FreezeNeverShortened
      BY <2>0, <3>3, <3>6 DEF Lv!FreezeNeverShortened, Lv!LivenessAssumption
    <3>5. Lv!FrozenAtMostOnce
      BY <2>2 DEF Lv!ProcessLivenessStatistics, Lv!IsSuspended, Lv!FrozenAtMostOnce
    <3> QED
      BY <3>2, <3>4, <3>5
  <2>3. CASE \E elected \in SUBSET Runtimes : Lv!Elect(elected)
    BY <2>0, <2>3 DEF Lv!Elect, Lv!SuspensionServed, Lv!FreezeNeverShortened, Lv!FrozenAtMostOnce
  <2>4. CASE Lv!OnEvidenceByzantineConsensus
    BY <2>0, <2>4 DEF Lv!OnEvidenceByzantineConsensus, Lv!SuspensionServed, Lv!FreezeNeverShortened, Lv!FrozenAtMostOnce,
       Lv!LivenessAssumption
  <2>5. CASE Lv!UnfreezeNode
    BY <2>0, <2>5 DEF Lv!UnfreezeNode, Lv!SuspensionServed, Lv!FreezeNeverShortened, Lv!FrozenAtMostOnce
  <2> QED
    BY <1>1, <2>1, <2>2, <2>3, <2>4, <2>5, <2>6 DEF Lv!Next
<1> QED
  BY <1>1, LivenessInvariance, PTL DEF Lv!Spec
=============================================================================

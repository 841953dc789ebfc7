------------------------------- MODULE Registry -------------------------------
(***************************************************************************)
(* The registry application of the consensus layer: entities, nodes and     *)
(* runtimes, the stake claims each of them puts on an escrow account, the   *)
(* map from subkeys to nodes, the expiration and removal of nodes at epoch  *)
(* transitions, and the suspension and resumption of runtimes (which the    *)
(* roothash application decides at the same transitions).                   *)
(*                                                                         *)
(* A transaction that fails leaves the state alone, so a guard stands for   *)
(* every early return.  Balances belong to the staking application and      *)
(* change arbitrarily here; which nodes a runtime's committee gets is the   *)
(* scheduler's choice among the nodes that are not expired.                 *)
(***************************************************************************)
EXTENDS Integers, FiniteSets, FiniteSetsExt, Functions

CONSTANTS Entities, Nodes, Runtimes, Keys,
          KeySets,            \* node |-> the subkey records it may register
          MaxEpoch,           \* bound on the epochs of a behaviour
          MaxBalance,         \* bound on an escrow balance
          MaxNodeExpiration,  \* consensus parameter
          DebondingInterval   \* consensus parameter of staking

Roles == {"consensus", "p2p", "vrf", "tls"}
Accounts == Entities \cup Runtimes
Governance == {"entity", "runtime"}

RegistryAssumption ==
    /\ MaxEpoch \in Nat /\ MaxBalance \in Nat /\ DebondingInterval \in Nat
    /\ MaxNodeExpiration \in Nat \ {0}
    /\ KeySets \in [Nodes -> SUBSET [Roles -> Keys]]
    /\ Entities \cap Runtimes = {}

VARIABLES
    epoch,      \* the current epoch
    entities,   \* registered entity |-> the nodes it lists
    nodes,      \* registered node |-> its descriptor
    keyMap,     \* subkey |-> the node it belongs to
    lost,       \* history: the subkeys that an update has unmapped although they are used
    processed,  \* node with a status |-> its ExpirationProcessed flag
    runtimes,   \* registered runtime |-> [owner, gov]
    suspended,  \* the registered runtimes that are suspended
    owners,     \* the index of runtimes by owning entity
    claims,     \* account |-> (claim |-> the stake it requires)
    balance,    \* account |-> active escrow balance (staking application)
    committee,  \* runtime |-> the members elected for this epoch
    served,     \* node |-> the last epoch in which it was a member
    failed      \* why a block could not be executed, or "ok"

vars == <<epoch, entities, nodes, keyMap, lost, processed, runtimes, suspended,
          owners, claims, balance, committee, served, failed>>

\* A node descriptor.  A node without runtimes is a validator.
Descriptors(n) == [entity : Entities, keys : KeySets[n],
                   expiration : 0..MaxEpoch + MaxNodeExpiration,
                   rts : SUBSET Runtimes]

EntityClaim == <<"entity", "self">>
StakeClaimForNode(n) == <<"node", n>>
StakeClaimForRuntime(r) == <<"runtime", r>>
Claims == {EntityClaim} \cup {StakeClaimForNode(n) : n \in Nodes}
                        \cup {StakeClaimForRuntime(r) : r \in Runtimes}

With(f, k, v) == [x \in DOMAIN f \cup {k} |-> IF x = k THEN v ELSE f[x]]
Without(f, K) == [x \in DOMAIN f \ K |-> f[x]]

\* Every threshold is one token: one for a validator, one per runtime of a
\* compute node.
StakeThresholdsForNode(d) == IF d.rts = {} THEN 1 ELSE Cardinality(d.rts)

TotalClaims(a, exclude) ==
    MapThenSumSet(LAMBDA c : claims[a][c], DOMAIN claims[a] \ exclude)

CheckStakeClaims(a) == balance[a] >= TotalClaims(a, {})

\* The claim that is being replaced does not count twice.
CanAddStakeClaim(a, claim, amount) ==
    balance[a] >= TotalClaims(a, {claim}) + amount

AddStakeClaim(cl, a, claim, amount) == [cl EXCEPT ![a] = With(@, claim, amount)]
HasClaim(cl, a, claim) == claim \in DOMAIN cl[a]
RemoveStakeClaim(cl, a, claim) == [cl EXCEPT ![a] = Without(@, {claim})]

StakingAddress(r, d) == IF d.gov = "entity" THEN d.owner ELSE r

IsExpired(d) == d.expiration < epoch

-----------------------------------------------------------------------------
(***************************************************************************)
(* Entities.                                                                *)
(***************************************************************************)

RegisterEntity(e, ns) ==
    /\ CanAddStakeClaim(e, EntityClaim, 1)
    /\ claims' = AddStakeClaim(claims, e, EntityClaim, 1)
    /\ entities' = With(entities, e, ns)
    /\ UNCHANGED <<epoch, nodes, keyMap, lost, processed, runtimes, suspended, owners,
                   balance, committee, served, failed>>

HasEntityNodes(e) == \E n \in DOMAIN nodes : nodes[n].entity = e
HasEntityRuntimes(e) == \E r \in Runtimes : <<e, r>> \in owners

\* Refused while nodes or runtimes remain; panics if the claim is missing.
DeregisterEntity(e) ==
    /\ ~HasEntityNodes(e)
    /\ ~HasEntityRuntimes(e)
    /\ e \in DOMAIN entities
    /\ entities' = Without(entities, {e})
    /\ failed' = IF HasClaim(claims, e, EntityClaim) THEN failed
                 ELSE "DeregisterEntity: failed to remove stake claim"
    /\ claims' = RemoveStakeClaim(claims, e, EntityClaim)
    /\ UNCHANGED <<epoch, nodes, keyMap, lost, processed, runtimes, suspended, owners,
                   balance, committee, served>>

-----------------------------------------------------------------------------
(***************************************************************************)
(* Nodes.                                                                   *)
(***************************************************************************)

KeysOf(d) == {d.keys[role] : role \in Roles}

\* The subkeys differ from each other and none is mapped to another node.
UniqueSubKeys(n, d) ==
    /\ Cardinality(KeysOf(d)) = Cardinality(Roles)
    /\ \A k \in KeysOf(d) \cap DOMAIN keyMap : keyMap[k] = n

VerifyRegisterNodeArgs(n, d) ==
    /\ d.entity \in DOMAIN entities
    /\ n \in entities[d.entity]
    /\ d.expiration <= epoch + MaxNodeExpiration
    /\ d.rts \subseteq DOMAIN runtimes
    /\ UniqueSubKeys(n, d)

\* The owner and the consensus key never change; runtimes are not dropped by
\* a node that is not expired.
VerifyNodeUpdate(cur, d) ==
    /\ cur.entity = d.entity
    /\ cur.keys["consensus"] = d.keys["consensus"]
    /\ IsExpired(cur) \/ cur.rts \subseteq d.rts

\* One role at a time, in the code's order: the old key is unmapped if it has
\* changed, then the new one is mapped.
SetKey(km, n, exists, old, d, role) ==
    LET kept == IF exists /\ old.keys[role] # d.keys[role]
                THEN Without(km, {old.keys[role]}) ELSE km
    IN With(kept, d.keys[role], n)

SetNode(n, exists, old, d) ==
    LET c == SetKey(keyMap, n, exists, old, d, "consensus")
        p == SetKey(c, n, exists, old, d, "p2p")
        v == SetKey(p, n, exists, old, d, "vrf")
    IN SetKey(v, n, exists, old, d, "tls")

\* A key that moves to an earlier role is mapped there, and then unmapped with
\* the role that it had.
Later == [consensus |-> {"p2p", "vrf", "tls"}, p2p |-> {"vrf", "tls"}, vrf |-> {"tls"}, tls |-> {}]
Unmapped(exists, old, d) ==
    {k \in KeysOf(d) : exists /\ \E x \in Roles : d.keys[x] = k /\ \E y \in Later[x] : old.keys[y] = k}

ResetStatusMutant(n, live) == [m \in DOMAIN processed |-> processed[m] /\ m # n]

\* A new node gets a status, an expired one that comes back is live again.
ResetStatus(n, live) == IF live THEN processed ELSE With(processed, n, FALSE)

ResumeRuntimes(cl, rts) ==
    suspended \ {r \in rts : LET a == StakingAddress(r, runtimes[r]) IN
        balance[a] >= MapThenSumSet(LAMBDA c : cl[a][c], DOMAIN cl[a])}

RegisterNode(n, d) ==
    LET exists == n \in DOMAIN nodes
        old    == IF exists THEN nodes[n] ELSE d
        claim  == StakeClaimForNode(n)
        live   == exists /\ ~IsExpired(old)
    IN /\ VerifyRegisterNodeArgs(n, d)
       /\ d.expiration > epoch
       /\ CanAddStakeClaim(d.entity, claim, StakeThresholdsForNode(d))
       /\ exists => VerifyNodeUpdate(old, d)
       /\ claims' = AddStakeClaim(claims, d.entity, claim, StakeThresholdsForNode(d))
       /\ nodes' = With(nodes, n, d)
       /\ keyMap' = SetNode(n, exists, old, d)
       /\ lost' = lost \cup Unmapped(exists, old, d)
       /\ processed' = ResetStatus(n, live)
       /\ suspended' = ResumeRuntimes(claims', d.rts)
       /\ UNCHANGED <<epoch, entities, runtimes, owners, balance, committee,
                      served, failed>>

-----------------------------------------------------------------------------
(***************************************************************************)
(* Runtimes.                                                                *)
(***************************************************************************)

VerifyRuntimeUpdate(cur, d) ==
    cur.gov # d.gov => cur.gov = "entity" /\ d.gov = "runtime"

\* A runtime calls with a message of its own, which only a running runtime
\* emits.
CallerExists(caller) ==
    caller \in Runtimes => caller \in DOMAIN runtimes \ suspended

SetRuntimeOwner(r, exists, old, d) ==
    IF exists /\ old.owner = d.owner THEN owners
    ELSE (owners \ {<<old.owner, r>>}) \cup {<<d.owner, r>>}

MoveRuntimeClaimMutant(r, exists, old, d) ==
    AddStakeClaim(claims, StakingAddress(r, d), StakeClaimForRuntime(r), 1)

\* The claim goes to the new address and leaves the previous one.
MoveRuntimeClaim(r, exists, old, d) ==
    LET added == AddStakeClaim(claims, StakingAddress(r, d), StakeClaimForRuntime(r), 1)
    IN IF exists /\ StakingAddress(r, old) # StakingAddress(r, d)
       THEN RemoveStakeClaim(added, StakingAddress(r, old), StakeClaimForRuntime(r))
       ELSE added

RegisterRuntime(caller, r, d) ==
    LET exists == r \in DOMAIN runtimes
        old    == IF exists THEN runtimes[r] ELSE d
    IN /\ CallerExists(caller)
       /\ VerifyRuntimeUpdate(old, d)
       /\ caller = StakingAddress(r, old)
       /\ CanAddStakeClaim(StakingAddress(r, d), StakeClaimForRuntime(r), 1)
       \* A missing claim of the previous owner fails the transaction.
       /\ \/ ~exists
          \/ StakingAddress(r, old) = StakingAddress(r, d)
          \/ HasClaim(claims, StakingAddress(r, old), StakeClaimForRuntime(r))
       /\ claims' = MoveRuntimeClaim(r, exists, old, d)
       /\ runtimes' = With(runtimes, r, d)
       /\ owners' = SetRuntimeOwner(r, exists, old, d)
       /\ UNCHANGED <<epoch, entities, nodes, keyMap, lost, processed, suspended,
                      balance, committee, served, failed>>

-----------------------------------------------------------------------------
(***************************************************************************)
(* The epoch transition, in the order in which the applications run: the    *)
(* registry expires and removes nodes, the roothash application evaluates    *)
(* the members of the ending epoch before the election, the scheduler       *)
(* elects, and the roothash application suspends runtimes.                   *)
(***************************************************************************)

ExpiredAt(ep) == {n \in DOMAIN nodes : nodes[n].expiration < ep}

RemovedAt(ep) == {n \in ExpiredAt(ep) : nodes[n].expiration + DebondingInterval < ep}

RemoveNodes(gone) ==
    /\ nodes' = Without(nodes, gone)
    /\ keyMap' = Without(keyMap, UNION {KeysOf(nodes[n]) : n \in gone})
    /\ claims' = [a \in Accounts |->
           Without(claims[a], {StakeClaimForNode(n) : n \in {m \in gone : nodes[m].entity = a}})]

\* processLivenessStatistics looks up the status of every member.
Unresolvable(gone) == \E r \in DOMAIN runtimes \ suspended :
                          committee[r] \cap gone # {}

EpochFailure(gone) ==
    IF \E n \in gone : ~HasClaim(claims, nodes[n].entity, StakeClaimForNode(n))
    THEN "registry: couldn't remove stake claim"
    ELSE IF Unresolvable(gone) THEN "roothash: failed to retrieve status for node"
    ELSE failed

Candidates(r) == {n \in DOMAIN nodes' : r \in nodes'[n].rts /\ ~(nodes'[n].expiration < epoch')}

\* No committee, or not enough stake.
Suspends(r, members) ==
    \/ members = {}
    \/ LET a == StakingAddress(r, runtimes[r])
       IN balance[a] < MapThenSumSet(LAMBDA c : claims'[a][c], DOMAIN claims'[a])

EpochTransition ==
    /\ epoch < MaxEpoch
    /\ epoch' = epoch + 1
    /\ LET gone == RemovedAt(epoch + 1) IN
       /\ RemoveNodes(gone)
       /\ processed' = [n \in DOMAIN processed \ gone |->
                            processed[n] \/ n \in ExpiredAt(epoch + 1)]
       /\ failed' = EpochFailure(gone)
    /\ \E elected \in [Runtimes -> SUBSET Nodes] :
       /\ \A r \in Runtimes : elected[r] \subseteq
              IF r \in DOMAIN runtimes \ suspended THEN Candidates(r) ELSE {}
       /\ suspended' = suspended \cup
              {r \in DOMAIN runtimes \ suspended : Suspends(r, elected[r])}
       /\ committee' = [r \in Runtimes |-> IF r \in suspended' THEN {} ELSE elected[r]]
    /\ served' = [n \in Nodes |->
           IF \E r \in Runtimes : n \in committee'[r] THEN epoch' ELSE served[n]]
    /\ UNCHANGED <<entities, lost, runtimes, owners, balance>>

\* Deposits, withdrawals, rewards and slashing in the staking application.
BalanceChange(a, b) ==
    /\ b # balance[a]
    /\ balance' = [balance EXCEPT ![a] = b]
    /\ UNCHANGED <<epoch, entities, nodes, keyMap, lost, processed, runtimes, suspended,
                   owners, claims, committee, served, failed>>

-----------------------------------------------------------------------------
None == [x \in {} |-> x]

Init ==
    /\ epoch = 0
    /\ entities = None /\ nodes = None /\ keyMap = None /\ lost = {} /\ processed = None
    /\ runtimes = None /\ suspended = {} /\ owners = {}
    /\ claims = [a \in Accounts |-> None]
    /\ balance = [a \in Accounts |-> MaxBalance]
    /\ committee = [r \in Runtimes |-> {}]
    /\ served = [n \in Nodes |-> -1]
    /\ failed = "ok"

Next ==
    \/ \E e \in Entities, ns \in SUBSET Nodes : RegisterEntity(e, ns)
    \/ \E e \in Entities : DeregisterEntity(e)
    \/ \E n \in Nodes : \E d \in Descriptors(n) : RegisterNode(n, d)
    \/ \E caller \in Accounts, r \in Runtimes :
          \E d \in [owner : Entities, gov : Governance] : RegisterRuntime(caller, r, d)
    \/ EpochTransition
    \/ \E a \in Accounts, b \in 0..MaxBalance : BalanceChange(a, b)

Spec == Init /\ [][Next]_vars

-----------------------------------------------------------------------------
(***************************************************************************)
(* Properties.                                                              *)
(***************************************************************************)

\* The registered nodes are those with a status; members are registered.
TypeOK ==
    /\ epoch \in 0..MaxEpoch
    /\ DOMAIN entities \subseteq Entities
    /\ \A n \in DOMAIN nodes : nodes[n] \in Descriptors(n)
    /\ DOMAIN processed = DOMAIN nodes
    /\ suspended \subseteq DOMAIN runtimes
    /\ \A r \in DOMAIN runtimes : runtimes[r] \in [owner : Entities, gov : Governance]
    /\ \A a \in Accounts : DOMAIN claims[a] \subseteq Claims
    /\ balance \in [Accounts -> 0..MaxBalance]
    /\ \A r \in Runtimes : committee[r] \subseteq DOMAIN nodes

\* The stake claims on an account are exactly those of what is registered on
\* it: an entity, its nodes (expired ones until they are removed) and the
\* runtimes whose staking address it is.  A claim that is left behind locks
\* stake forever; a missing one panics in deregisterEntity and fails the
\* epoch transition.
ClaimsMatchRegistrations ==
    \A a \in Accounts : DOMAIN claims[a] =
        {EntityClaim : e \in {x \in DOMAIN entities : x = a}}
        \cup {StakeClaimForNode(n) : n \in {m \in DOMAIN nodes : nodes[m].entity = a}}
        \cup {StakeClaimForRuntime(r) :
                  r \in {q \in DOMAIN runtimes : StakingAddress(q, runtimes[q]) = a}}

\* Every node belongs to a registered entity, so it can be slashed, and every
\* runtime is indexed under its current owner and no one else, so that a
\* former owner can deregister.
OwnersExist ==
    /\ \A n \in DOMAIN nodes : nodes[n].entity \in DOMAIN entities
    /\ owners = {<<runtimes[r].owner, r>> : r \in DOMAIN runtimes}

\* "the consensus, TLS, P2P, and VRF keys are unique (between themselves and
\* compared to other nodes)" (registry/api/api.go).
SubKeysUnique ==
    \A n, m \in DOMAIN nodes : n # m => KeysOf(nodes[n]) \cap KeysOf(nodes[m]) = {}

\* No two nodes share a key, except one that an update has unmapped.
SharedKeysLost ==
    \A n, m \in DOMAIN nodes : n # m => KeysOf(nodes[n]) \cap KeysOf(nodes[m]) \subseteq lost

\* Who is found by a key uses it, and who uses a key is found by it unless an
\* update has unmapped the key.
KeyMapExact ==
    /\ \A k \in DOMAIN keyMap : keyMap[k] \in DOMAIN nodes /\ k \in KeysOf(nodes[keyMap[k]])
    /\ \A n \in DOMAIN nodes : \A k \in KeysOf(nodes[n]) \ lost : k \in DOMAIN keyMap /\ keyMap[k] = n

\* "Node should not be able to disappear on an epoch boundary"
\* (roothash/slashing.go): no epoch transition fails on a missing node, a
\* missing status or a missing claim, and deregistration never panics.
BlocksNeverFail == failed = "ok"

\* A node that served in a committee stays registered, and so can be slashed,
\* for the debonding interval after the last epoch in which it served.
SlashableWhileDebonding ==
    \A n \in Nodes :
        served[n] >= 0 /\ epoch <= served[n] + DebondingInterval => n \in DOMAIN nodes

\* The expiration of a node has been processed exactly when the node is
\* expired: renewals reset the flag, transitions set it.
ExpirationProcessedOnce ==
    \A n \in DOMAIN nodes : processed[n] <=> nodes[n].expiration < epoch

\* A runtime only runs an epoch when it has a committee and its account
\* covers all of its claims at the transition.
RunningRuntimesFunded ==
    epoch' # epoch =>
        \A r \in DOMAIN runtimes \ suspended' :
            /\ committee'[r] # {}
            /\ LET a == StakingAddress(r, runtimes[r]) IN
               balance[a] >= MapThenSumSet(LAMBDA c : claims'[a][c], DOMAIN claims'[a])
=============================================================================

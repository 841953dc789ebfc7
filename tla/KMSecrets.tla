------------------------------ MODULE KMSecrets ------------------------------
(***************************************************************************)
(* The master and the ephemeral secrets of the key manager: the status and *)
(* the published secrets that consensus keeps                              *)
(* (apps/keymanager/secrets), the worker of every node                     *)
(* (worker/keymanager/secrets.go) and the enclave that generates, loads,   *)
(* stores and replicates secrets (keymanager/src/runtime/secrets.rs,       *)
(* keymanager/src/crypto/kdf.rs).                                          *)
(*                                                                         *)
(* Secrets are numbers. A checksum is the sequence of what was hashed: the *)
(* runtime ID, 0, and the master secrets since, so that it stands for the  *)
(* signing key as well, which is derived from the last secret; <<>> is no  *)
(* checksum. A policy is its serial number, RotationInterval[p] is the     *)
(* interval of policy p. All enclaves run one build.                       *)
(***************************************************************************)
EXTENDS Integers, Sequences, FiniteSets

CONSTANTS
    Nodes,              \* the key manager nodes
    Committee,          \* those that start as the committee
    Faulty,             \* those that are restarted or expire
    RotationInterval,   \* of every policy; 0 disables rotation
    ReplicationPercent, \* minProposalReplicationPercent
    Kinds,              \* the kinds of secrets that are generated
    MaxRetries,         \* of generating and of loading a secret
    MaxEpoch,           \* bound: epochs
    MaxSecrets,         \* bound: generated secrets
    MaxPolicy,          \* bound: serial numbers of policies
    MaxFaults           \* bound: restarts and expired registrations

VARIABLES
    epoch,              \* the current epoch
    status,             \* consensus: the status of the key manager
    published,          \* consensus: the last published secret of each kind
    reg,                \* consensus: the registration of every node
    txs,                \* submitted secrets
    worker,             \* the worker of every node
    enclave,            \* the memory of every enclave
    disk,               \* what every enclave has stored
    made, faults        \* numbers of generated secrets and of faults so far

vars == <<epoch, status, published, reg, txs, worker, enclave, disk, made, faults>>

AllKinds == {"master", "ephemeral"}

KMSecretsAssumption ==
    /\ IsFiniteSet(Nodes) /\ RotationInterval \in [1..MaxPolicy -> Nat] /\ MaxRetries \in Nat /\ ReplicationPercent \in 1..100
    /\ Kinds \subseteq AllKinds /\ Committee \subseteq Nodes /\ Faulty \subseteq Nodes
    /\ MaxEpoch \in Nat \ {0} /\ MaxSecrets \in Nat /\ MaxPolicy \in Nat \ {0} /\ MaxFaults \in Nat

Generations == 0..MaxSecrets
RuntimeID == <<0>>
ChecksumMasterSecret(secret, checksum) == Append(checksum, secret)

NoSecret == [generation |-> 0, epoch |-> 0, secret |-> 0, checksum |-> <<>>, reks |-> {}, node |-> "none", rak |-> 0]
NoStatus == [generation |-> 0, rotationEpoch |-> 0, checksum |-> <<>>, nodes |-> {}, policy |-> 0, nextPolicy |-> 0]
NoResponse == [rak |-> 0, checksum |-> <<>>, next |-> <<>>, policy |-> 0]
Done == MaxRetries + 1      \* no more attempts

-----------------------------------------------------------------------------
(* Consensus *)

NextGeneration(s) == IF s.checksum = <<>> THEN 0 ELSE s.generation + 1

\* The policy of a status lets the next secret rotate in epoch e.
RotationDue(s, e) ==
    RotationInterval[s.policy] # 0 /\ e >= s.rotationEpoch + RotationInterval[s.policy]

VerifyRotationEpoch(s, e) == NextGeneration(s) = 0 \/ RotationDue(s, e)

\* The nodes of the next committee: their init response was signed by the
\* enclave that is registered, and they have the policy and the secrets.
ValidNodes(s, policy, r) ==
    {n \in Nodes : /\ r[n].rek # 0 /\ r[n].rsp.rak = r[n].rek
                   /\ r[n].rsp.policy = policy /\ r[n].rsp.checksum = s.checksum}

RotateMutant(s, checksum, nodes, e) ==
    [s EXCEPT !.generation = @ + 1, !.rotationEpoch = e, !.checksum = checksum, !.nodes = nodes]
Rotate(s, checksum, nodes, e) ==
    [s EXCEPT !.generation = NextGeneration(s), !.rotationEpoch = e, !.checksum = checksum, !.nodes = nodes]

GenerateStatus(s, secret, r, e) ==
    LET policy == IF s.nextPolicy # 0 THEN s.nextPolicy ELSE s.policy
        valid == ValidNodes(s, policy, r)
        next == IF secret.generation = NextGeneration(s) /\ secret.epoch = e THEN secret.checksum ELSE <<>>
        updated == {n \in valid : r[n].rsp.next = next}
        kept == [s EXCEPT !.policy = policy, !.nextPolicy = 0, !.nodes = valid]
    IN  IF /\ valid # {} /\ next # <<>>
           /\ (Cardinality(updated) * 100) \div Cardinality(valid) >= ReplicationPercent
        THEN Rotate(kept, next, updated, e)
        ELSE kept

\* The runtime encryption keys of the committee.
REKs(ns) == {<<n, reg[n].rek>> : n \in ns}

\* The checks of a secret: who may publish it, once in an epoch, for the next
\* one, encrypted to members of the committee and to most of them.
SanityCheck(secret) ==
    /\ secret.reks \subseteq REKs(status.nodes)
    /\ (Cardinality(secret.reks) * 100) \div Cardinality(status.nodes) >= ReplicationPercent

OncePerEpoch(k, e) == published[k].epoch # e

MayPublish(k, secret) ==
    /\ secret.node \in status.nodes
    /\ OncePerEpoch(k, secret.epoch)
    /\ k = "master" => VerifyRotationEpoch(status, secret.epoch) /\ secret.generation = NextGeneration(status)
    /\ \A n \in status.nodes : reg[n].rek # 0
    /\ secret.epoch = epoch + 1
    /\ secret.rak = reg[secret.node].rek
    /\ SanityCheck(secret)

-----------------------------------------------------------------------------
(* The worker: initialization of the enclave. An init call has the status   *)
(* that it was started with and the phase that it is in.                    *)

NoInit == [phase |-> "none", status |-> NoStatus, next |-> 0, generation |-> 0, checksum |-> <<>>, last |-> <<>>,
           startup |-> FALSE, policy |-> 0]

HandleInitEnclave(w) ==
    IF ~w.up THEN w
    ELSE IF w.init.phase # "none" THEN [w EXCEPT !.required = TRUE]
    ELSE [w EXCEPT !.required = FALSE, !.init = [NoInit EXCEPT !.phase = "call", !.status = w.status]]

HandleStatusUpdate(n) ==
    /\ ~worker[n].up \/ worker[n].status # status
    /\ worker' = [worker EXCEPT ![n] = HandleInitEnclave([@ EXCEPT !.up = TRUE, !.status = status])]
    /\ UNCHANGED <<epoch, status, published, reg, txs, enclave, disk, made, faults>>

InitEnclaveRetry(n) ==
    /\ worker[n].ticker /\ worker[n].init.phase = "none"
    /\ worker' = [worker EXCEPT ![n] = HandleInitEnclave(@)]
    /\ UNCHANGED <<epoch, status, published, reg, txs, enclave, disk, made, faults>>

\* The call has returned a response, which the node is to be registered with,
\* or an error, and then it is retried.
HandleInitEnclaveDone(w, rsp) ==
    LET failed == rsp.rak = 0
        ended == [w EXCEPT !.init = NoInit, !.ticker = IF failed THEN @ \/ ~w.required ELSE FALSE]
    IN  IF w.required THEN HandleInitEnclave(ended)
        ELSE IF failed THEN ended
        ELSE [ended EXCEPT !.rsp = rsp]

\* The registration worker registers the node with the keys of its enclave
\* and the last init response.
RegisterNode(n) ==
    LET r == [rek |-> enclave[n].rek, rsp |-> worker[n].rsp]
    IN  /\ reg[n] # r
        /\ reg' = [reg EXCEPT ![n] = r]
        /\ UNCHANGED <<epoch, status, published, txs, worker, enclave, disk, made, faults>>

-----------------------------------------------------------------------------
(* The enclave: init *)

Empty(rek) == [rek |-> rek, ready |-> FALSE, generation |-> -1, checksum |-> <<>>, next |-> <<>>,
               policy |-> 0, eph |-> {}]
\* A reset keeps the checksum of a proposal.
Reset(en) == [Empty(en.rek) EXCEPT !.next = en.next, !.policy = en.policy]
Blank == [secret |-> [g \in Generations |-> 0], checksum |-> [g \in Generations |-> <<>>],
          proposal |-> [generation |-> 0, secret |-> 0]]

LastChecksum(en) == IF en.checksum = <<>> THEN RuntimeID ELSE en.checksum
EnclaveNext(en) == en.generation + 1
Proposal(d, g) == IF d.proposal.generation = g THEN d.proposal.secret ELSE 0

\* The secrets that were stored without a gap, when the enclave has started.
Stored(d) == {g \in Generations : \A h \in 0..g : d.secret[h] # 0}
Loaded(d) == [i \in 1..Cardinality(Stored(d)) |-> d.secret[i - 1]]
ChainOf(d) == RuntimeID \o Loaded(d)
ChainStored(d) == \A g \in Stored(d) : d.checksum[g] = SubSeq(ChainOf(d), 1, g + 1)

StoreSecret(d, g, secret) == [d EXCEPT !.secret[g] = secret]
StoreSecretAndChecksum(d, g, secret, checksum) ==
    [StoreSecret(d, g, secret) EXCEPT !.checksum[g] = checksum]

Response(en, policy, checksum) == [rak |-> en.rek, checksum |-> checksum, next |-> en.next, policy |-> policy]
Returns(n, rsp) == worker' = [worker EXCEPT ![n] = HandleInitEnclaveDone(@, rsp)]
Fails(n) == Returns(n, NoResponse)

Accepted(n) == worker[n].init.status = status /\ enclave[n].policy <= status.policy
Startup(n) == EnclaveNext(enclave[n]) = 0
NextMissing(n) == IF Startup(n) THEN Cardinality(Stored(disk[n])) ELSE EnclaveNext(enclave[n])
OwnChecksum(n) == IF Startup(n) THEN ChainOf(disk[n]) ELSE LastChecksum(enclave[n])
Corrupted(n) == Startup(n) /\ ~ChainStored(disk[n])

\* The proposal of the only secret that is missing, if it is the published one.
Promoted(n) ==
    LET p == Proposal(disk[n], status.generation)
    IN  IF /\ NextMissing(n) = status.generation /\ p # 0
           /\ ChecksumMasterSecret(p, OwnChecksum(n)) = status.checksum THEN p ELSE 0

InitKdf(n) ==
    LET i == worker[n].init
        en == [enclave[n] EXCEPT !.policy = status.policy, !.ready = TRUE]
        policy == IF status.nextPolicy # 0 THEN status.nextPolicy ELSE status.policy
        p == Promoted(n)
        goesOn == [i EXCEPT !.phase = "replicate", !.generation = status.generation, !.last = status.checksum,
                            !.startup = Startup(n), !.policy = policy,
                            !.next = IF p = 0 THEN NextMissing(n) ELSE NextMissing(n) + 1,
                            !.checksum = IF p = 0 THEN OwnChecksum(n) ELSE status.checksum]
    IN  /\ i.phase = "call"
        /\ \/ ~Accepted(n) /\ Fails(n) /\ UNCHANGED <<enclave, disk>>
           \/ /\ Accepted(n) /\ status.checksum = <<>>
              /\ enclave' = [enclave EXCEPT ![n] = en]
              /\ Returns(n, Response(en, policy, <<>>))
              /\ UNCHANGED disk
           \/ /\ Accepted(n) /\ status.checksum # <<>> /\ Corrupted(n)
              /\ enclave' = [enclave EXCEPT ![n] = Reset(en)]
              /\ Fails(n) /\ UNCHANGED disk
           \/ /\ Accepted(n) /\ status.checksum # <<>> /\ ~Corrupted(n)
              /\ enclave' = [enclave EXCEPT ![n] = en]
              /\ worker' = [worker EXCEPT ![n].init = goesOn]
              /\ disk' = IF p = 0 THEN disk
                         ELSE [disk EXCEPT ![n] = StoreSecretAndChecksum(@, status.generation, p, OwnChecksum(n))]
        /\ UNCHANGED <<epoch, status, published, reg, txs, made, faults>>

\* What the nodes that have the secret of generation g answer, if it is the
\* one with the given checksum.
ChecksumOf(d, g) == IF d.checksum[g] = <<>> THEN RuntimeID ELSE d.checksum[g]
Replicas(ns, g, checksum) ==
    {m \in ns : /\ enclave[m].generation >= g /\ disk[m].secret[g] # 0
                /\ ChecksumMasterSecret(disk[m].secret[g], ChecksumOf(disk[m], g)) = checksum}

\* Secrets are replicated from the last one down, each one is verified
\* against the checksum that consensus has, or that came with the next one.
ReplicateMasterSecret(n) ==
    LET i == worker[n].init
        g == i.generation
        checksum == disk[n].checksum[g]
        down(c) == worker' = [worker EXCEPT ![n].init.generation = g - 1, ![n].init.last = c]
    IN  /\ i.phase = "replicate" /\ g >= i.next
        /\ \/ /\ disk[n].secret[g] # 0 /\ ChecksumMasterSecret(disk[n].secret[g], checksum) = i.last
              /\ down(checksum) /\ UNCHANGED <<enclave, disk>>
           \/ /\ disk[n].secret[g] # 0 /\ ChecksumMasterSecret(disk[n].secret[g], checksum) # i.last
              /\ enclave' = [enclave EXCEPT ![n] = Reset(@)] /\ Fails(n) /\ UNCHANGED disk
           \/ /\ disk[n].secret[g] = 0
              /\ \E m \in Replicas(i.status.nodes, g, i.last) :
                    LET c == ChecksumOf(disk[m], g)
                    IN  /\ disk' = [disk EXCEPT ![n] = StoreSecretAndChecksum(@, g, disk[m].secret[g], c)]
                        /\ down(c) /\ UNCHANGED enclave
           \* no node answers
           \/ disk[n].secret[g] = 0 /\ Fails(n) /\ UNCHANGED <<enclave, disk>>
        /\ UNCHANGED <<epoch, status, published, reg, txs, made, faults>>

\* Ephemeral secrets that an enclave replicates when it starts: those of the
\* next epoch, of the current one and of the ones before without a gap.
Replicated(i) ==
    LET known == UNION {enclave[m].eph : m \in i.status.nodes}
    IN  {es \in SUBSET known :
            \A x \in es : /\ x.epoch <= epoch + 1
                          /\ \A y \in es : x.epoch = y.epoch => x = y
                          /\ \A e \in x.epoch..epoch : \E y \in es : y.epoch = e}

AddEphemeral(eph, new) == {x \in eph : \A y \in new : x.epoch # y.epoch} \cup new

FinishInit(n) ==
    LET i == worker[n].init
        s == i.status
        en == enclave[n]
        updated == [en EXCEPT !.generation = s.generation, !.checksum = s.checksum, !.next = <<>>]
        now == IF en.generation = s.generation THEN en ELSE updated
    IN  /\ i.phase = "replicate" /\ i.generation < i.next
        /\ \/ /\ i.next > s.generation + 1 \/ i.checksum # i.last
              /\ enclave' = [enclave EXCEPT ![n] = Reset(@)] /\ Fails(n)
           \/ /\ i.next <= s.generation + 1 /\ i.checksum = i.last
              /\ \E es \in IF i.startup THEN Replicated(i) ELSE {{}} :
                    enclave' = [enclave EXCEPT ![n] = [now EXCEPT !.eph = AddEphemeral(@, es)]]
              /\ Returns(n, Response(now, i.policy, now.checksum))
        /\ UNCHANGED <<epoch, status, published, reg, txs, disk, made, faults>>

-----------------------------------------------------------------------------
(* Loading secrets; an outcome is the worker, the enclave and the disk after,   *)
(* with the secrets that were generated                                     *)

AddMasterSecretProposalMutant(o, s) == [o EXCEPT !.en.next = s.checksum]
AddMasterSecretProposal(o, s) ==
    [o EXCEPT !.d.proposal = [generation |-> s.generation, secret |-> s.secret], !.en.next = s.checksum]

\* The nodes that a secret was encrypted to and that have it.
NodesWithEphemeralSecret(s) ==
    {m \in Nodes : <<m, reg[m].rek>> \in s.reks /\ \E x \in enclave[m].eph : x.epoch = s.epoch /\ x.secret = s.secret}

Load(n, k, o) ==
    LET s == o.w.seen[k]
        mine == <<n, o.en.rek>> \in s.reks
        failed == [o EXCEPT !.w.load[k] = @ + 1]
        ok(o2) == [o2 EXCEPT !.w.load[k] = Done]
        reinit(o2) == [ok(o2) EXCEPT !.w = HandleInitEnclave(@)]
        added == ok([o EXCEPT !.en.eph = AddEphemeral(@, {[epoch |-> s.epoch, secret |-> s.secret]})])
    IN  IF ~o.w.up \/ s.secret = 0 \/ o.w.load[k] = Done THEN {o}
        ELSE IF s # published[k] THEN {failed}
        ELSE IF k = "ephemeral"
        THEN (IF o.en.ready /\ (mine \/ NodesWithEphemeralSecret(s) # {}) THEN {added} ELSE {})
             \cup (IF o.en.ready /\ mine THEN {} ELSE {failed})
        ELSE IF ~mine THEN {reinit(o)}
        ELSE IF /\ o.en.ready /\ EnclaveNext(o.en) = s.generation
                /\ ChecksumMasterSecret(s.secret, LastChecksum(o.en)) = s.checksum
        THEN {reinit(AddMasterSecretProposal(o, s))}
        ELSE {failed}

Outcome(n) == [w |-> worker[n], en |-> enclave[n], d |-> disk[n], new |-> {}]
Apply(n, o) ==
    /\ worker' = [worker EXCEPT ![n] = o.w]
    /\ enclave' = [enclave EXCEPT ![n] = o.en]
    /\ disk' = [disk EXCEPT ![n] = o.d]

\* The worker is notified of a secret that was published.
HandleNewSecret(n, k) ==
    LET w == [worker[n] EXCEPT !.events = @ \ {k}, !.seen[k] = published[k], !.load[k] = 0,
                               !.gen[k] = IF k = "ephemeral" /\ published[k].epoch = epoch + 1 THEN Done ELSE @]
    IN  /\ k \in worker[n].events
        /\ \E o \in Load(n, k, [Outcome(n) EXCEPT !.w = w]) : Apply(n, o)
        /\ UNCHANGED <<epoch, status, published, reg, txs, made, faults>>

-----------------------------------------------------------------------------
(* Generating secrets *)

\* The first epoch in which the worker generates a master secret, genMstSecEpoch.
GenMasterSecretEpoch(w) ==
    LET s == w.status
        rotation == IF NextGeneration(s) = 0 THEN 0
                    ELSE IF RotationInterval[s.policy] = 0 THEN MaxEpoch + 1
                    ELSE s.rotationEpoch + RotationInterval[s.policy] - 1
        proposed == w.seen["master"].epoch
    IN  IF rotation < proposed THEN proposed ELSE rotation

\* due: the random height of the epoch has come
MayGenerate(k, due, w) ==
    /\ w.up /\ k \in Kinds /\ ~w.busy[k] /\ w.gen[k] # Done
    /\ due \/ Cardinality(w.status.nodes) <= 1
    /\ k = "master" => GenMasterSecretEpoch(w) <= epoch

\* The secret that the enclave generates for the next epoch, encrypted to the
\* committee, as the node number x of all secrets.
NewSecret(n, k, x) ==
    LET en == enclave[n]
    IN  [generation |-> IF k = "master" THEN NextGeneration(worker[n].status) ELSE 0,
         epoch |-> epoch + 1, secret |-> x,
         checksum |-> IF k = "master" THEN ChecksumMasterSecret(x, LastChecksum(en)) ELSE <<x>>,
         reks |-> {r \in REKs(status.nodes) : r[2] # 0}, node |-> n, rak |-> en.rek]

\* The checks of the worker before and after, and those of the enclave.
CanGenerate(n, k, secret) ==
    LET s == worker[n].status
        en == enclave[n]
    IN  /\ OncePerEpoch(k, epoch + 1) /\ n \in s.nodes
        /\ k = "master" => VerifyRotationEpoch(s, epoch + 1) /\ EnclaveNext(en) = secret.generation
        /\ en.ready /\ <<n, en.rek>> \in secret.reks
        /\ secret.reks \subseteq REKs(s.nodes)
        /\ (Cardinality(secret.reks) * 100) \div Cardinality(s.nodes) >= ReplicationPercent

Generate(n, k, due, o) ==
    LET secret == NewSecret(n, k, made + Cardinality(o.new) + 1)
    IN  IF ~MayGenerate(k, due, o.w) \/ secret.secret > MaxSecrets THEN o
        ELSE IF ~CanGenerate(n, k, secret) THEN [o EXCEPT !.w.gen[k] = @ + 1]
        ELSE [o EXCEPT !.w.gen[k] = @ + 1, !.w.busy[k] = TRUE,
                       !.new = @ \cup {[kind |-> k, secret |-> secret]}]

\* A block: secrets are generated and submitted, and loading secrets that were
\* published is tried again.
HandleNewBlock(n) ==
    \E due \in BOOLEAN :
        \E o1 \in Load(n, "master", Generate(n, "ephemeral", due, Generate(n, "master", due, Outcome(n)))) :
            \E o \in Load(n, "ephemeral", o1) :
                /\ o # Outcome(n)
                /\ Apply(n, o)
                /\ txs' = txs \cup o.new /\ made' = made + Cardinality(o.new)
                /\ UNCHANGED <<epoch, status, published, reg, faults>>

\* Consensus executes the transaction, and the worker that waits is told.
PublishSecret(tx) ==
    LET k == tx.kind
        ok == MayPublish(k, tx.secret)
        told(w) == IF ~w.busy[k] THEN w
                   ELSE [w EXCEPT !.busy[k] = FALSE, !.gen[k] = IF ok /\ @ > 0 THEN Done ELSE @]
        notified(w) == IF ok THEN [w EXCEPT !.events = @ \cup {k}] ELSE w
    IN  /\ txs' = txs \ {tx}
        /\ published' = IF ok THEN [published EXCEPT ![k] = tx.secret] ELSE published
        /\ worker' = [n \in Nodes |-> notified(IF n = tx.secret.node THEN told(worker[n]) ELSE worker[n])]
        /\ UNCHANGED <<epoch, status, reg, enclave, disk, made, faults>>

-----------------------------------------------------------------------------
\* The epoch changes, with registrations that have expired, and the workers
\* may generate secrets again.
EpochChange ==
    /\ epoch < MaxEpoch
    /\ \E expired \in SUBSET Faulty :
        /\ faults + Cardinality(expired) <= MaxFaults
        /\ faults' = faults + Cardinality(expired)
        /\ reg' = [n \in Nodes |-> IF n \in expired THEN [rek |-> 0, rsp |-> NoResponse] ELSE reg[n]]
    /\ epoch' = epoch + 1
    /\ status' = GenerateStatus(status, published["master"], reg', epoch + 1)
    /\ worker' = [n \in Nodes |-> [worker[n] EXCEPT !.gen = [k \in DOMAIN @ |-> 0]]]
    /\ UNCHANGED <<published, txs, enclave, disk, made>>

UpdatePolicy ==
    /\ \E serial \in status.policy + 1..MaxPolicy :
        status' = [status EXCEPT !.nextPolicy = serial] /\ status' # status
    /\ UNCHANGED <<epoch, published, reg, txs, worker, enclave, disk, made, faults>>

Started == [up |-> FALSE, status |-> NoStatus, init |-> NoInit, required |-> FALSE, ticker |-> FALSE, rsp |-> NoResponse,
            seen |-> [k \in AllKinds |-> NoSecret], load |-> [k \in AllKinds |-> 0],
            gen |-> [k \in AllKinds |-> 0], busy |-> [k \in AllKinds |-> FALSE],
            events |-> {}]

Restarted(n) ==
    /\ n \in Faulty /\ faults < MaxFaults /\ faults' = faults + 1
    /\ enclave' = [enclave EXCEPT ![n] = Empty(@.rek + 1)]
    /\ UNCHANGED <<epoch, status, published, reg, txs, made>>

RestartNode(n) ==
    /\ worker' = [worker EXCEPT ![n] = Started]
    /\ Restarted(n) /\ UNCHANGED disk

\* The host restarts the enclave: calls to it fail, and it is initialized.
RestartEnclave(n) ==
    LET w == worker[n]
        failed == IF w.init.phase = "none" THEN w ELSE HandleInitEnclaveDone(w, NoResponse)
    IN  /\ worker' = [worker EXCEPT ![n] = HandleInitEnclave(failed)]
        /\ Restarted(n) /\ UNCHANGED disk

\* What the next step of an init call stores.
Storing(n) ==
    LET i == worker[n].init
        g == i.generation
    IN  IF i.phase = "call"
        THEN IF Accepted(n) /\ status.checksum # <<>> /\ ~Corrupted(n) /\ Promoted(n) # 0
             THEN {<<status.generation, Promoted(n)>>} ELSE {}
        ELSE IF i.phase = "replicate" /\ g >= i.next /\ disk[n].secret[g] = 0
             THEN {<<g, disk[m].secret[g]>> : m \in Replicas(i.status.nodes, g, i.last)}
        ELSE {}

\* A crash after a master secret was stored and before its checksum is.
CrashWhileStoring(n) ==
    /\ \E x \in Storing(n) : disk' = [disk EXCEPT ![n] = StoreSecret(@, x[1], x[2])]
    /\ worker' = [worker EXCEPT ![n] = Started]
    /\ Restarted(n)

\* A committee without a secret; the other nodes are new.
Init ==
    LET rsp == [NoResponse EXCEPT !.rak = 1, !.policy = 1]
        s == [NoStatus EXCEPT !.nodes = Committee, !.policy = 1]
    IN  /\ epoch = 1 /\ status = s
        /\ published = [k \in AllKinds |-> NoSecret]
        /\ reg = [n \in Nodes |-> IF n \in Committee THEN [rek |-> 1, rsp |-> rsp] ELSE [rek |-> 0, rsp |-> NoResponse]]
        /\ worker = [n \in Nodes |-> IF n \in Committee THEN [Started EXCEPT !.up = TRUE, !.status = s, !.rsp = rsp]
                                     ELSE Started]
        /\ enclave = [n \in Nodes |-> IF n \in Committee THEN [Empty(1) EXCEPT !.ready = TRUE, !.policy = 1]
                                      ELSE Empty(1)]
        /\ disk = [n \in Nodes |-> Blank]
        /\ txs = {} /\ made = 0 /\ faults = 0

Next ==
    \/ EpochChange \/ UpdatePolicy
    \/ \E tx \in txs : PublishSecret(tx)
    \/ \E n \in Nodes : \/ HandleStatusUpdate(n) \/ InitEnclaveRetry(n) \/ RegisterNode(n)
                        \/ InitKdf(n) \/ ReplicateMasterSecret(n) \/ FinishInit(n) \/ HandleNewBlock(n)
                        \/ \E k \in AllKinds : HandleNewSecret(n, k)
                        \/ RestartNode(n) \/ RestartEnclave(n) \/ CrashWhileStoring(n)

Spec == Init /\ [][Next]_vars

-----------------------------------------------------------------------------
IsChecksum(c) == c \in Seq(0..MaxSecrets)

TypeOK ==
    /\ epoch \in 1..MaxEpoch /\ made \in 0..MaxSecrets /\ faults \in 0..MaxFaults
    /\ status.generation \in Generations /\ status.nodes \subseteq Nodes /\ IsChecksum(status.checksum)
    /\ \A tx \in txs : tx.kind \in AllKinds /\ tx.secret.secret \in 1..MaxSecrets
    /\ \A n \in Nodes :
        /\ enclave[n].generation \in -1..MaxSecrets /\ IsChecksum(enclave[n].checksum)
        /\ \A k \in AllKinds : worker[n].load[k] \in 0..Done /\ worker[n].gen[k] \in 0..Done
        /\ \A g \in Generations : disk[n].secret[g] \in 0..MaxSecrets

\* The master secret of a generation, according to consensus.
MasterSecret(g) == status.checksum[g + 2]
Rotated == IF status.checksum = <<>> THEN {} ELSE 0..status.generation

\* Every node of the committee has stored every master secret, the last one
\* maybe as a proposal, wherever it or its enclave was restarted: as long as
\* one of them remains no secret is lost.
CommitteeHasSecrets ==
    \A n \in status.nodes : \A g \in Rotated :
        \/ disk[n].secret[g] = MasterSecret(g)
        \/ g = status.generation /\ Proposal(disk[n], g) = MasterSecret(g)

\* Enclaves use and store master secrets that consensus has accepted, and no
\* two of them use different ephemeral secrets in an epoch.
SecretsAgree ==
    \A n \in Nodes :
        /\ enclave[n].generation >= 0 =>
            /\ enclave[n].generation \in Rotated
            /\ enclave[n].checksum = SubSeq(status.checksum, 1, enclave[n].generation + 2)
        /\ \A g \in Generations : disk[n].secret[g] # 0 => g \in Rotated /\ disk[n].secret[g] = MasterSecret(g)
        /\ \A m \in Nodes : \A x \in enclave[n].eph, y \in enclave[m].eph : x.epoch = y.epoch => x = y

\* Consensus only adds master secrets, one at a time and not more often than
\* the policy says that was in force until then; a policy that is installed in
\* the same transition is not asked. Consensus does not know the secrets and
\* relies on the checksums that enclaves compute.
RotationsRight ==
    status'.checksum # status.checksum =>
        /\ status'.generation = NextGeneration(status)
        /\ Len(status'.checksum) = status'.generation + 2
        /\ status.checksum # <<>> =>
            /\ SubSeq(status'.checksum, 1, Len(status.checksum)) = status.checksum
            /\ status'.rotationEpoch = epoch' /\ RotationDue(status, epoch')
=============================================================================

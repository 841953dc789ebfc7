-------------------------------- MODULE NodeDB --------------------------------
(***************************************************************************)
(* The node database of MKVS trees (storage/mkvs/db/pathbadger).  A version  *)
(* may have several candidate roots of a type until one of them is           *)
(* finalized.  The first batch of a version and type (sequence number 0)     *)
(* writes its nodes where finalized nodes live, under keys that its rivals   *)
(* use too; the others write to a pending area, from which finalization      *)
(* copies them.  Checkpoints are restored by a multipart insert.  Every      *)
(* operation holds a lock, but the process may crash between its writes.     *)
(*                                                                         *)
(* A tree has one node per slot, below its root; its hash is the tree.  The  *)
(* values of a key in the underlying database have timestamps, and a read    *)
(* at a version sees the newest value that is not newer than the version.    *)
(***************************************************************************)
EXTENDS Integers, FiniteSets, FiniteSetsExt

CONSTANTS Types,        \* subset of {"state", "io"}
          Slots,        \* of a tree, numbers
          Trees,        \* the trees that batches may build, functions from Slots
          MaxVersion,
          MaxPendingVersions,
          MaxBatches,   \* version |-> its batches per type
          CleanInserts, \* TRUE if multipart inserts are of untouched versions and are never aborted
          MaxCrashes, MaxInserts  \* bounds on crashes and on multipart inserts

Versions == 1..MaxVersion
None     == 0
Deleted  == <<>>

NodeDBAssumption ==
    /\ Types \subseteq {"state", "io"} /\ Slots \subseteq Nat /\ MaxVersion \in Nat
    /\ \A t \in Trees : DOMAIN t = Slots
    /\ MaxPendingVersions \in Nat /\ MaxBatches \in [Versions -> Nat]

VARIABLES
    decided,   \* version |-> type |-> the tree that consensus decided on
    final,     \* versions that were finalized
    nodes,     \* the place of finalized nodes: [type, id, ts, value]
    pending,   \* nodes of other candidates: [version, type, seq, id, value]
    roots,     \* root nodes: [version, type, tree, ptrs]
    updated,   \* index of updated nodes: [version, type, tree, put, removed]
    meta,      \* metadata: [last, earliest, nextSeq, seqs, multipart]
    batches,   \* open batches, in memory: [version, type, old, tree, seq]
    insert,    \* the multipart insert, in memory: [version, seq, root, done]
    touched,   \* versions whose finalization was interrupted
    crashes, inserts

vars    == <<decided, final, nodes, pending, roots, updated, meta, batches, insert, touched, crashes, inserts>>
store   == <<nodes, pending, roots, updated>>
bounds  == <<crashes, inserts>>

\* Of every type: its root, once there is one, and the slots that chunks brought.
NoInsert == [version |-> None, seq |-> [t \in Types |-> 0], root |-> [t \in Types |-> {}], done |-> [t \in Types |-> {}]]

-----------------------------------------------------------------------------
(***************************************************************************)
(* Reading.                                                                 *)
(***************************************************************************)

\* The value of a node key that is visible at a version.
Visible(t, id, v) ==
    LET es == {e \in nodes : e.type = t /\ e.id = id /\ e.ts <= v}
    IN IF es = {} THEN Deleted ELSE (CHOOSE e \in es : \A f \in es : f.ts <= e.ts).value

RootNodes(v, t, tree) == {r \in roots : r.version = v /\ r.type = t /\ r.tree = tree}
HasRoot(v, t, tree) == v >= meta.earliest /\ RootNodes(v, t, tree) # {}

SeqsOf(v, t, tree) == {s \in meta.seqs : s.version = v /\ s.type = t /\ s.tree = tree}
SeqNo(v, t, tree) == IF SeqsOf(v, t, tree) = {} THEN 0 ELSE (CHOOSE s \in SeqsOf(v, t, tree) : TRUE).seq

\* GetNode below a root.
GetNode(v, t, tree, id) ==
    LET seq == SeqNo(v, t, tree)
        own == {p \in pending : p.version = v /\ p.type = t /\ p.seq = seq /\ p.id = id}
    IN IF seq # 0 /\ own # {} THEN (CHOOSE p \in own : TRUE).value ELSE Visible(t, id, v)

\* Every node below the root is the one that its hash says.
Readable(v, t, tree) ==
    /\ HasRoot(v, t, tree)
    /\ \A r \in RootNodes(v, t, tree), s \in Slots : GetNode(v, t, tree, r.ptrs[s]) = <<s, tree[s]>>

-----------------------------------------------------------------------------
(***************************************************************************)
(* Metadata.                                                                *)
(***************************************************************************)

PendingVersions(m) == {p.version : p \in m.nextSeq}
CanReserve(m) == Cardinality(PendingVersions(m)) <= MaxPendingVersions

NextSeq(m, v, t) ==
    LET ps == {p \in m.nextSeq : p.version = v /\ p.type = t}
    IN IF ps = {} THEN 0 ELSE (CHOOSE p \in ps : TRUE).seq

\* reserveRootSeqNo
Reserve(m, v, t) ==
    [m EXCEPT !.nextSeq = {p \in @ : ~(p.version = v /\ p.type = t)}
                          \cup {[version |-> v, type |-> t, seq |-> NextSeq(m, v, t) + 1]}]

CanSetSeq(m) == Cardinality({s.version : s \in m.seqs}) <= MaxPendingVersions
SetSeq(m, v, t, tree, seq) ==
    [m EXCEPT !.seqs = {s \in @ : ~(s.version = v /\ s.type = t /\ s.tree = tree)}
                       \cup {[version |-> v, type |-> t, tree |-> tree, seq |-> seq]}]

SetLastFinalized(m, v) ==
    [m EXCEPT !.earliest = IF m.last = None THEN v ELSE @, !.last = v,
              !.nextSeq = {p \in @ : p.version # v}, !.seqs = {s \in @ : s.version # v}]

\* The process dies and is started again, which ends a multipart insert.
Reopen(m) ==
    /\ batches' = {} /\ insert' = NoInsert /\ crashes' = crashes + 1
    /\ meta' = [m EXCEPT !.multipart = None]

\* The writes of an operation have stages 1..n; with fewer of them it crashed.
Crashed(stage, n) == stage < n
StageAllowed(stage, n) == Crashed(stage, n) => crashes < MaxCrashes

-----------------------------------------------------------------------------
(***************************************************************************)
(* Batches.                                                                 *)
(***************************************************************************)

\* Consensus decides on the roots of the next version.
Decide(v, ts) ==
    /\ v = Cardinality(DOMAIN decided) + 1
    /\ decided' = [x \in 1..v |-> IF x = v THEN ts ELSE decided[x]]
    /\ UNCHANGED <<final, store, meta, batches, insert, touched, bounds>>

\* The root that a batch starts from: none, or the one decided on before.
OldRoot(v, t) ==
    IF t = "io" \/ v - 1 \notin DOMAIN decided THEN {}
    ELSE RootNodes(v - 1, t, decided[v - 1][t])

CanFollow(v, t) == (t = "io" /\ v - 1 \in {0} \cup DOMAIN decided) \/ v = 1 \/ OldRoot(v, t) # {}

NewBatch(v, t, tree) ==
    /\ CanFollow(v, t) /\ insert.version = None
    /\ NextSeq(meta, v, t) < MaxBatches[v]
    /\ CanReserve(meta)
    /\ meta' = Reserve(meta, v, t)
    /\ batches' = batches \cup {[version |-> v, type |-> t, old |-> OldRoot(v, t), tree |-> tree,
                                 seq |-> NextSeq(meta, v, t)]}
    /\ UNCHANGED <<decided, final, store, insert, touched, bounds>>

\* What a batch writes: nodes for the slots that change, numbered in order,
\* and the pointers to all nodes.
Changed(b) == {s \in Slots : \A r \in b.old : r.tree[s] # b.tree[s]}
NewId(b, s) == <<b.version, Cardinality({x \in Changed(b) : x <= s})>>
Ptrs(b) == [s \in Slots |-> IF s \in Changed(b) THEN NewId(b, s) ELSE (CHOOSE r \in b.old : TRUE).ptrs[s]]
Removed(b) == {r.ptrs[s] : r \in b.old, s \in Changed(b)}

PutFinal(ns, t, ts, new) ==
    {e \in ns : ~(e.type = t /\ e.ts = ts /\ \E n \in new : n[1] = e.id)}
    \cup {[type |-> t, id |-> n[1], ts |-> ts, value |-> n[2]] : n \in new}

PutRoot(rs, v, t, tree, ptrs) ==
    {r \in rs : ~(r.version = v /\ r.type = t /\ r.tree = tree)}
    \cup {[version |-> v, type |-> t, tree |-> tree, ptrs |-> ptrs]}

PutPending(b, new) ==
    pending \cup {[version |-> b.version, type |-> b.type, seq |-> b.seq, id |-> n[1], value |-> n[2]] : n \in new}

\* During a multipart insert, the root of its version and of each type is the
\* one that was committed first, be it by a chunk or by a batch opened before.
Admitted(v, t, tree) == insert.version \in {None, v} /\ insert.root[t] \subseteq {tree}
Noted(t, tree) == IF insert.version = None THEN insert ELSE [insert EXCEPT !.root[t] = {tree}]

\* The metadata first, then the index and the nodes of a pending root, then the
\* root node and the nodes of the first root.
Commit(b, stage) ==
    LET new == {<<NewId(b, s), <<s, b.tree[s]>>>> : s \in Changed(b)}
        idx == [version |-> b.version, type |-> b.type, tree |-> b.tree,
                put |-> {n[1] : n \in new}, removed |-> Removed(b)]
        m   == SetSeq(meta, b.version, b.type, b.tree, b.seq)
    IN /\ b \in batches /\ meta.last < b.version /\ Admitted(b.version, b.type, b.tree)
       /\ RootNodes(b.version, b.type, b.tree) = {} /\ CanSetSeq(meta)
       /\ StageAllowed(stage, 3)
       /\ IF Crashed(stage, 3)
          THEN Reopen(m) /\ UNCHANGED inserts
          ELSE /\ meta' = m /\ batches' = batches \ {b} /\ insert' = Noted(b.type, b.tree)
               /\ UNCHANGED bounds
       /\ IF stage < 2 THEN UNCHANGED <<updated, pending>>
          ELSE /\ updated' = {u \in updated : ~(u.version = b.version /\ u.type = b.type /\ u.tree = b.tree)} \cup {idx}
               /\ pending' = IF b.seq = 0 THEN pending ELSE PutPending(b, new)
       /\ IF stage < 3 THEN UNCHANGED <<nodes, roots>>
          ELSE /\ roots' = PutRoot(roots, b.version, b.type, b.tree, Ptrs(b))
               /\ nodes' = IF b.seq # 0 THEN nodes ELSE PutFinal(nodes, b.type, b.version, new)
       /\ UNCHANGED <<decided, final, touched>>

\* A batch whose root is there already.
CommitExisting(b) ==
    /\ b \in batches /\ meta.last < b.version /\ Admitted(b.version, b.type, b.tree)
    /\ RootNodes(b.version, b.type, b.tree) # {}
    /\ batches' = batches \ {b} /\ insert' = Noted(b.type, b.tree)
    /\ UNCHANGED <<decided, final, store, meta, touched, bounds>>

\* A batch that comes too late, is not admitted, or is given up.
Drop(b) ==
    /\ b \in batches
    /\ batches' = batches \ {b}
    /\ UNCHANGED <<decided, final, store, meta, insert, touched, bounds>>

-----------------------------------------------------------------------------
(***************************************************************************)
(* Finalization and pruning.                                                *)
(***************************************************************************)

Updates(v) == {u \in updated : u.version = v}
IsFinal(u) == decided[u.version][u.type] = u.tree

\* Nodes of the finalized roots, and those that nothing refers to any more.
NotLone(v, t) == UNION {u.put : u \in {u \in Updates(v) : u.type = t /\ IsFinal(u)}}

LoneMutant(v, t) ==
    UNION {IF IsFinal(u) THEN u.removed ELSE IF SeqNo(v, t, u.tree) > 0 THEN {} ELSE u.put :
              u \in {u \in Updates(v) : u.type = t /\ RootNodes(v, t, u.tree) # {}}}

Lone(v, t) ==
    UNION {IF IsFinal(u) THEN u.removed ELSE IF SeqNo(v, t, u.tree) > 0 THEN {} ELSE u.put :
              u \in {u \in Updates(v) : u.type = t /\ RootNodes(v, t, u.tree) # {}}}
    \ NotLone(v, t)

\* The nodes that move from the pending area.
Moved(v, t) ==
    LET seq == SeqNo(v, t, decided[v][t])
    IN IF seq = 0 THEN {}
       ELSE {<<p.id, p.value>> : p \in {p \in pending : p.version = v /\ p.type = t /\ p.seq = seq /\ p.id \in NotLone(v, t)}}

PutAll(ns, v, new) == {e \in ns : ~(e.ts = v /\ \E n \in new[e.type] : n[1] = e.id)}
    \cup UNION {{[type |-> t, id |-> n[1], ts |-> v, value |-> n[2]] : n \in new[t]} : t \in Types}

\* A root node whose sequence number is not known makes finalization fail.
CanFinalize(v) ==
    /\ v \in DOMAIN decided
    /\ insert.version \in {None, v}
    /\ meta.last < v
    /\ meta.last # None /\ insert.version = None => meta.last + 1 = v
    /\ \A t \in Types : RootNodes(v, t, decided[v][t]) # {}
    /\ \A r \in roots : r.version = v => SeqsOf(v, r.type, r.tree) # {}

\* Nodes are copied, lone ones deleted, then the index and the pending nodes;
\* last the metadata.  An insert of the version is over.
Finalize(v, stage) ==
    LET Dead     == [t \in Types |-> {<<id, Deleted>> : id \in Lone(v, t)}]
        Copy     == [t \in Types |-> Moved(v, t)]
        m        == SetLastFinalized(meta, v)
    IN /\ CanFinalize(v) /\ StageAllowed(stage, 5)
       /\ nodes' = CASE stage = 0 -> nodes
                     [] stage = 1 -> PutAll(nodes, v, Copy)
                     [] OTHER -> PutAll(PutAll(nodes, v, Copy), v, Dead)
       /\ IF stage < 3 THEN UNCHANGED <<updated, pending>>
          ELSE updated' = updated \ Updates(v) /\ pending' = {p \in pending : p.version # v}
       /\ IF stage < 4 THEN Reopen(meta) /\ touched' = touched \cup {v} /\ UNCHANGED final
          ELSE /\ final' = final \cup {v}
               /\ touched' = touched \ {v}
               /\ IF stage = 4 THEN Reopen(m)
                  ELSE /\ meta' = [m EXCEPT !.multipart = None] /\ insert' = NoInsert
                       /\ UNCHANGED <<batches, crashes>>
       /\ UNCHANGED <<decided, roots, inserts>>

\* Roots without children go with their nodes; the nodes of others go when the
\* underlying database discards what no version from the next one on can see.
Prune(v, stage) ==
    LET Dead == [t \in Types |-> IF t # "io" THEN {}
                    ELSE {<<e.id, Deleted>> : e \in {e \in nodes : e.type = t /\ e.id[1] = v /\ e.ts <= v}}]
    IN /\ insert.version = None
       /\ meta.last # None /\ v = meta.earliest /\ v < meta.last
       /\ StageAllowed(stage, 2)
       /\ nodes' = PutAll(nodes, v, Dead)
       /\ roots' = {r \in roots : ~(r.version = v /\ r.type = "io")}
       /\ IF Crashed(stage, 2) THEN Reopen(meta)
          ELSE meta' = [meta EXCEPT !.earliest = v + 1] /\ UNCHANGED <<batches, insert, crashes>>
       /\ UNCHANGED <<decided, final, pending, updated, touched, inserts>>

DiscardTs == meta.earliest

\* Compaction of the underlying database.
Compact ==
    LET Newest(e)  == ~\E f \in nodes : f.type = e.type /\ f.id = e.id /\ e.ts < f.ts /\ f.ts <= DiscardTs
        Useless(e) == e.ts <= DiscardTs /\ (Newest(e) => e.value = Deleted)
    IN /\ \E e \in nodes : Useless(e)
       /\ nodes' = {e \in nodes : ~Useless(e)}
       /\ UNCHANGED <<decided, final, pending, roots, updated, meta, batches, insert, touched, bounds>>

-----------------------------------------------------------------------------
(***************************************************************************)
(* Multipart inserts.                                                       *)
(***************************************************************************)

Reserved(m, v) ==
    [m EXCEPT !.multipart = v,
              !.nextSeq = {p \in @ : p.version # v}
                          \cup {[version |-> v, type |-> t, seq |-> NextSeq(m, v, t) + 1] : t \in Types}]

StartMultipartInsert(v) ==
    /\ v \in DOMAIN decided /\ meta.last < v /\ insert.version = None /\ inserts < MaxInserts
    /\ CleanInserts => \A t \in Types : NextSeq(meta, v, t) = 0
    /\ CanReserve(meta)
    /\ inserts' = inserts + 1
    /\ meta' = Reserved(meta, v)
    /\ insert' = [NoInsert EXCEPT !.version = v, !.seq = [t \in Types |-> NextSeq(meta, v, t)]]
    /\ UNCHANGED <<decided, final, store, batches, touched, crashes>>

\* The pointers below the root of this insert, which chunks are merged with.
Known(t) == IF insert.root[t] = {} THEN [s \in Slots |-> <<0, 0>>]
            ELSE (CHOOSE r \in RootNodes(insert.version, t, decided[insert.version][t]) : TRUE).ptrs

\* A chunk with the nodes of some slots, each of which needs its own.
RestoreChunk(t, ss, stage) ==
    LET v    == insert.version
        seq  == insert.seq[t]
        tree == decided[v][t]
        id(s) == <<v, Cardinality(insert.done[t]) + Cardinality({x \in ss : x <= s})>>
        new  == {<<id(s), <<s, tree[s]>>>> : s \in ss}
        m    == SetSeq(meta, v, t, tree, seq)
    IN /\ v # None /\ Admitted(v, t, tree)
       /\ ss \subseteq Slots \ insert.done[t] /\ ss # {}
       /\ StageAllowed(stage, 3) /\ CanSetSeq(meta)
       /\ IF Crashed(stage, 3) THEN Reopen(m)
          ELSE /\ meta' = m
               /\ insert' = [insert EXCEPT !.root[t] = {tree}, !.done[t] = @ \cup ss]
               /\ UNCHANGED <<batches, crashes>>
       /\ IF stage < 2 \/ seq = 0 THEN UNCHANGED pending
          ELSE pending' = PutPending([version |-> v, type |-> t, seq |-> seq], new)
       /\ IF stage < 3 THEN UNCHANGED <<nodes, roots>>
          ELSE /\ roots' = PutRoot(roots, v, t, tree, [s \in Slots |-> IF s \in ss THEN id(s) ELSE Known(t)[s]])
               /\ nodes' = IF seq # 0 THEN nodes ELSE PutFinal(nodes, t, v, new)
       /\ UNCHANGED <<decided, final, updated, touched, inserts>>

\* The log of inserted nodes, which is what would be removed, is always empty.
AbortMultipartInsert ==
    /\ insert.version # None /\ ~CleanInserts
    /\ meta' = [meta EXCEPT !.multipart = None] /\ insert' = NoInsert
    /\ UNCHANGED <<decided, final, store, batches, touched, bounds>>

\* Versions are finalized in order, or once all their roots are restored.
Due(v) == IF insert.version # None THEN \A t \in Types : insert.done[t] = Slots ELSE v = 1 \/ v - 1 \in final

Init ==
    /\ decided = <<>> /\ final = {}
    /\ nodes = {} /\ pending = {} /\ roots = {} /\ updated = {}
    /\ meta = [last |-> None, earliest |-> 0, nextSeq |-> {}, seqs |-> {}, multipart |-> None]
    /\ batches = {} /\ insert = NoInsert /\ touched = {}
    /\ crashes = 0 /\ inserts = 0

Next ==
    \/ \E v \in Versions, ts \in [Types -> Trees] : Decide(v, ts)
    \/ \E v \in Versions, t \in Types, tree \in Trees : NewBatch(v, t, tree)
    \/ \E b \in batches : Drop(b) \/ CommitExisting(b) \/ \E stage \in 1..3 : Commit(b, stage)
    \/ \E v \in Versions, stage \in 0..5 : Due(v) /\ Finalize(v, stage)
    \/ \E v \in Versions, stage \in 1..2 : Prune(v, stage)
    \/ Compact
    \/ \E v \in Versions : StartMultipartInsert(v)
    \/ \E t \in Types, ss \in SUBSET Slots, stage \in 1..3 : RestoreChunk(t, ss, stage)
    \/ AbortMultipartInsert

-----------------------------------------------------------------------------
\* Every variable stays in its type.
TypeOK ==
    /\ DOMAIN decided \subseteq Versions /\ final \subseteq Versions /\ touched \subseteq Versions
    /\ \A e \in nodes : e.type \in Types /\ e.ts \in Versions
    /\ \A p \in pending : p.version \in Versions /\ p.type \in Types /\ p.seq > 0
    /\ \A r \in roots : r.version \in Versions /\ r.type \in Types /\ r.tree \in Trees
    /\ meta.last \in {None} \cup Versions /\ meta.earliest \in 0..MaxVersion
    /\ insert.version \in {None} \cup Versions

\* The finalized root of every version that is not pruned can be read in full,
\* whatever rivals it had, and wherever commits, finalization and pruning crashed.
\* (Pruning may have taken the roots that have no children already.)
FinalizedComplete ==
    \A v \in final, t \in Types :
        v >= meta.earliest => Readable(v, t, decided[v][t]) \/ (t = "io" /\ v < meta.last /\ ~HasRoot(v, t, decided[v][t]))

\* Candidates do not disturb each other: until the finalization of its version
\* begins, a candidate that follows finalized state can be read in full.
CandidatesApart ==
    \A r \in roots :
        r.version > meta.last /\ r.version \notin touched /\ inserts = 0 /\ r.version - 1 \in {0} \cup final
        => Readable(r.version, r.type, r.tree)

\* Nothing of a finalized version stays in the pending area or in the index.
NoLeftovers ==
    /\ \A p \in pending : p.version > meta.last
    /\ \A u \in updated : u.version > meta.last
    /\ \A s \in meta.seqs : s.version > meta.last
================================================================================

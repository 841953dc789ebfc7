------------------------ MODULE RoundRecords_proofs ------------------------
(***************************************************************************)
(* The records of past rounds, for every number of nodes, every sequence of *)
(* parameter changes and every width of the integers.  Further down, the     *)
(* governance application.                                                  *)
(***************************************************************************)
EXTENDS RoundRecords, SumTheorems

(* The stored roots as an interval, and its length without Cardinality.     *)
Window(past, r, limit) ==
    \E first \in GenesisRound .. r + 1 :
        DOMAIN past = first .. r /\ r - first + 1 <= limit

(* Punished evidence is remembered until it is too old to be accepted, as    *)
(* long as the age has only been lowered.                                    *)
Remembered ==
    raised \/ \A e \in Evidence :
        /\ punished[e] <= 1
        /\ punished[e] = 1 => e \in evidence \/ e.round + maxAge < round

IInv ==
    /\ TypeOK
    /\ Window(pastRoots, round, maxStored)
    /\ chain[round] = roots
    /\ \A r \in DOMAIN pastRoots : pastRoots[r] = chain[r]
    /\ Remembered

-----------------------------------------------------------------------------
\* The length of an interval, as ShrinkPastRoots counts it.
LEMMA IntervalLength ==
    ASSUME NEW a \in Int, NEW b \in Int, a <= b + 1
    PROVE  Cardinality(a .. b) = b - a + 1
BY FS_Interval

\* A sum that does not wrap around is its own remainder.
LEMMA ModSmall ==
    ASSUME NEW t \in Nat \ {0}, NEW x \in 0 .. t - 1
    PROVE  x % t = x
BY Z3

\* Storing the roots of the last or the next block keeps a window, and makes room only when full.
LEMMA StoreRootsWindow ==
    ASSUME NEW past, NEW r \in GenesisRound .. MaxRound, NEW s \in {r, r + 1}, NEW new,
           NEW limit \in Nat, Window(past, r, limit)
    PROVE  LET p == StoreRoots(past, s, new, limit) IN
           /\ Window(p, s, limit)
           /\ DOMAIN past \subseteq DOMAIN p \/ Cardinality(DOMAIN p) = limit
           /\ \A q \in DOMAIN p : p[q] = IF limit # 0 /\ q = s THEN new ELSE past[q]
           /\ \A q \in DOMAIN p : q = s \/ q \in DOMAIN past
<1> DEFINE p == StoreRoots(past, s, new, limit)
<1>0. GenesisRound \in Nat /\ r \in Nat /\ s \in Nat /\ r >= GenesisRound
  BY RecordsAssumption
<1>1. PICK first \in GenesisRound .. r + 1 : DOMAIN past = first .. r /\ r - first + 1 <= limit
  BY DEF Window
<1>2. CASE limit = 0
  <2>1. p = past /\ DOMAIN past = {} /\ DOMAIN past = (s + 1) .. s
    BY <1>0, <1>1, <1>2 DEF StoreRoots
  <2>2. s + 1 \in GenesisRound .. s + 1
    BY <1>0
  <2>3. s - (s + 1) + 1 <= limit
    BY <1>0, <1>2
  <2> QED BY <2>1, <2>2, <2>3, <1>2 DEF Window
<1>3. CASE limit # 0
  <2> DEFINE kept == IF s >= limit THEN DOMAIN past \ {s - limit} ELSE DOMAIN past
  <2>1. p = [q \in kept \cup {s} |-> IF q = s THEN new ELSE past[q]]
    BY <1>3 DEF StoreRoots
  <2>2. DOMAIN p = kept \cup {s} /\ \A q \in DOMAIN p : p[q] = IF q = s THEN new ELSE past[q]
    BY <2>1
  <2>3. CASE first = s - limit
    <3>1. first \in Nat /\ s >= limit /\ first <= r
      BY <1>0, <1>3, <2>3
    <3>2. kept = (first .. r) \ {first}
      BY <1>1, <2>3, <3>1
    <3>3. DOMAIN p = first + 1 .. s
      BY <1>0, <1>1, <1>3, <2>2, <2>3, <3>1, <3>2
    <3>4. first + 1 \in GenesisRound .. s + 1 /\ s - (first + 1) + 1 = limit
      BY <1>0, <1>3, <2>3, <3>1
    <3>5. Cardinality(DOMAIN p) = limit
      BY <3>1, <3>3, <3>4, <1>0, IntervalLength
    <3> QED BY <1>3, <2>2, <3>2, <3>3, <3>4, <3>5, <1>1 DEF Window
  <2>4. CASE first # s - limit
    <3>1. s - limit \notin first .. r
      BY <1>0, <1>1, <2>4
    <3>2. kept = first .. r
      BY <1>1, <3>1
    <3> DEFINE low == IF first > s THEN s ELSE first
    <3>3. DOMAIN p = low .. s
      <4>1. (first .. r) \cup {s} = low .. s
        BY <1>0
      <4> HIDE DEF kept, low
      <4> QED BY <2>2, <3>2, <4>1
    <3>4. low \in GenesisRound .. s + 1 /\ s - low + 1 <= limit
      BY <1>0, <1>1, <1>3, <2>4
    <3> QED BY <1>3, <2>2, <3>2, <3>3, <3>4, <1>1 DEF Window
  <2> QED BY <2>3, <2>4
<1> QED BY <1>2, <1>3

\* ShrinkPastRoots keeps the youngest roots: as many as there may be, or all of them.
LEMMA ShrinkWindow ==
    ASSUME NEW past, NEW r \in GenesisRound .. MaxRound, NEW old \in Nat, NEW limit \in Nat,
           Window(past, r, old)
    PROVE  LET p == ShrinkPastRoots(past, limit) IN
           /\ Window(p, r, limit)
           /\ DOMAIN past \subseteq DOMAIN p \/ Cardinality(DOMAIN p) = limit
           /\ \A q \in DOMAIN p : q \in DOMAIN past /\ p[q] = past[q]
<1> DEFINE p == ShrinkPastRoots(past, limit)
<1>0. GenesisRound \in Nat /\ r \in Nat /\ r >= GenesisRound
  BY RecordsAssumption
<1>1. PICK first \in GenesisRound .. r + 1 : DOMAIN past = first .. r /\ r - first + 1 <= old
  BY DEF Window
<1>2. first \in Nat /\ Cardinality(DOMAIN past) = r - first + 1
  BY <1>0, <1>1, IntervalLength
<1>3. ASSUME NEW q \in first .. r
      PROVE  Cardinality({x \in DOMAIN past : x < q}) = q - first
  <2>1. {x \in DOMAIN past : x < q} = first .. q - 1
    BY <1>0, <1>1, <1>2
  <2>2. q - 1 \in Int /\ first <= (q - 1) + 1
    BY <1>0, <1>2
  <2>3. Cardinality(first .. q - 1) = (q - 1) - first + 1
    BY <2>2, <1>2, IntervalLength
  <2>4. (q - 1) - first + 1 = q - first
    BY <1>0, <1>2
  <2> QED BY <2>1, <2>3, <2>4, Zenon
<1>4. DOMAIN p = {q \in first .. r : q - first >= (r - first + 1) - limit}
  BY <1>1, <1>2, <1>3 DEF ShrinkPastRoots
<1>5. \A q \in DOMAIN p : q \in DOMAIN past /\ p[q] = past[q]
  BY DEF ShrinkPastRoots
<1> HIDE DEF p
<1>6. CASE r - first + 1 <= limit
  <2>1. DOMAIN p = first .. r
    BY <1>0, <1>2, <1>4, <1>6
  <2> QED BY <1>1, <1>5, <1>6, <2>1 DEF Window, p
<1>7. CASE ~(r - first + 1 <= limit)
  <2> DEFINE low == r + 1 - limit
  <2>1. DOMAIN p = low .. r
    BY <1>0, <1>2, <1>4, <1>7
  <2>2. low \in GenesisRound .. r + 1 /\ r - low + 1 = limit
    BY <1>0, <1>1, <1>2, <1>7
  <2>3. Cardinality(DOMAIN p) = limit
    BY <2>1, <2>2, <1>0, IntervalLength
  <2> QED BY <1>5, <2>1, <2>2, <2>3 DEF Window, p
<1> QED BY <1>6, <1>7

-----------------------------------------------------------------------------
\* The parameters and rounds are natural numbers.
LEMMA Numbers ==
    ASSUME TypeOK
    PROVE  /\ GenesisRound \in Nat /\ round \in Nat /\ maxAge \in Nat /\ maxStored \in Nat
           /\ Ages \subseteq Nat /\ Limits \subseteq Nat /\ Modulus \in Nat \ {0}
           /\ round < Modulus /\ \A e \in Evidence : e.round \in Nat
BY RecordsAssumption DEF TypeOK, Evidence

\* Appending a block keeps the window of roots and the history in step.
LEMMA AppendBlockInv ==
    ASSUME IInv, NEW new \in Roots, AppendBlock(new), UNCHANGED maxStored
    PROVE  /\ round' \in GenesisRound .. MaxRound /\ round' = round + 1
           /\ roots' \in Roots /\ chain' \in [GenesisRound .. round' -> Roots]
           /\ DOMAIN pastRoots' \subseteq GenesisRound .. round'
           /\ Window(pastRoots', round', maxStored')
           /\ chain'[round'] = roots'
           /\ \A r \in DOMAIN pastRoots' : pastRoots'[r] = chain'[r]
           /\ RootsKeptStep
<1> DEFINE p == StoreRoots(pastRoots, round + 1, new, maxStored)
<1>1. TypeOK /\ round \in GenesisRound .. MaxRound /\ round < MaxRound
  BY DEF IInv, TypeOK, AppendBlock
<1>2. /\ Window(p, round + 1, maxStored)
      /\ DOMAIN pastRoots \subseteq DOMAIN p \/ Cardinality(DOMAIN p) = maxStored
      /\ \A q \in DOMAIN p : p[q] = IF maxStored # 0 /\ q = round + 1 THEN new ELSE pastRoots[q]
      /\ \A q \in DOMAIN p : q = round + 1 \/ q \in DOMAIN pastRoots
  BY <1>1, Numbers, StoreRootsWindow DEF IInv
<1> HIDE DEF p
<1>3. /\ round' = round + 1 /\ roots' = new /\ pastRoots' = p
      /\ chain' = [r \in GenesisRound .. round + 1 |-> IF r = round + 1 THEN new ELSE chain[r]]
  BY DEF AppendBlock, p
<1>4. round' \in GenesisRound .. MaxRound
  BY <1>1, <1>3, Numbers, RecordsAssumption
<1>5. chain \in [GenesisRound .. round -> Roots]
  BY <1>1 DEF TypeOK
<1>6. chain' \in [GenesisRound .. round' -> Roots] /\ chain'[round'] = new
  BY <1>1, <1>3, <1>5, Numbers
<1>7. DOMAIN p \subseteq GenesisRound .. round + 1
  BY <1>1, <1>2, Numbers DEF Window
<1>8. ASSUME NEW r \in DOMAIN p PROVE p[r] = chain'[r]
  <2>1. CASE r = round + 1
    <3>1. maxStored # 0
      BY <1>1, <1>2, <1>8, <2>1, Numbers DEF Window
    <3> QED BY <1>2, <1>3, <1>6, <2>1, <3>1
  <2>2. CASE r # round + 1
    <3>1. r \in DOMAIN pastRoots /\ p[r] = pastRoots[r] /\ pastRoots[r] = chain[r]
      BY <1>2, <1>8, <2>2 DEF IInv
    <3>2. chain'[r] = chain[r]
      BY <1>3, <1>7, <1>8, <2>2
    <3> QED BY <3>1, <3>2
  <2> QED BY <2>1, <2>2
<1> QED BY <1>2, <1>3, <1>4, <1>6, <1>7, <1>8 DEF RootsKeptStep

\* A new block, or a lower age, does not make forgotten evidence acceptable.
LEMMA RememberedLater ==
    ASSUME IInv, UNCHANGED <<evidence, punished>>, round' \in Nat, round' >= round,
           maxAge' \in Nat, raised' = (raised \/ maxAge' > maxAge)
    PROVE  Remembered'
<1>1. Remembered /\ TypeOK
  BY DEF IInv
<1>2. CASE raised'
  BY <1>2 DEF Remembered
<1>3. CASE ~raised'
  <2>0. ~raised /\ ~(maxAge' > maxAge)
    BY <1>3, Zenon
  <2>1. maxAge' <= maxAge
    BY <1>1, <2>0, Numbers
  <2>2. ASSUME NEW e \in Evidence, e.round + maxAge < round PROVE e.round + maxAge' < round'
    BY <1>1, <2>1, <2>2, Numbers
  <2> QED BY <1>1, <2>0, <2>2 DEF Remembered
<1> QED BY <1>2, <1>3

\* Evidence that is accepted was not remembered, so the node had not been punished for it.
LEMMA SubmitEvidenceInv ==
    ASSUME IInv, NEW e \in Evidence, SubmitEvidence(e)
    PROVE  Remembered' /\ punished' \in [Evidence -> Nat]
<1>1. Remembered /\ TypeOK /\ punished \in [Evidence -> Nat] /\ e.round \in Nat
  BY Numbers DEF IInv, TypeOK
<1>2. ~Expired(e) /\ e \notin evidence /\ evidence' = evidence \cup {e}
      /\ UNCHANGED <<round, maxAge, raised>>
      /\ punished' = IF e.node \in registered THEN [punished EXCEPT ![e] = @ + 1] ELSE punished
  BY DEF SubmitEvidence
<1>3. ~(e.round + maxAge < round)
  <2>1. SUFFICES ASSUME e.round + maxAge < round PROVE FALSE
    OBVIOUS
  <2>2. e.round + maxAge \in 0 .. Modulus - 1
    BY <1>1, <2>1, Numbers
  <2>3. (e.round + maxAge) % Modulus = e.round + maxAge
    BY <1>1, <2>2, Numbers, ModSmall
  <2> QED BY <1>2, <2>1, <2>3 DEF Expired
<1>4. punished' \in [Evidence -> Nat] /\ punished'[e] \in {punished[e], punished[e] + 1}
      /\ \A f \in Evidence : f # e => punished'[f] = punished[f]
  BY <1>1, <1>2
<1>5. raised \/ punished[e] = 0
  BY <1>1, <1>2, <1>3 DEF Remembered
<1>6. CASE raised
  BY <1>2, <1>4, <1>6 DEF Remembered
<1>7. CASE ~raised
  <2>1. punished'[e] <= 1 /\ e \in evidence'
    BY <1>2, <1>4, <1>5, <1>7
  <2>2. \A f \in Evidence : f # e => punished'[f] <= 1
            /\ (punished'[f] = 1 => f \in evidence' \/ f.round + maxAge' < round')
    BY <1>1, <1>2, <1>4, <1>7 DEF Remembered
  <2> QED BY <1>4, <2>1, <2>2 DEF Remembered
<1> QED BY <1>4, <1>6, <1>7

\* Evidence is removed only once it is too old to be accepted again.
LEMMA CommitteeChangedInv ==
    ASSUME IInv, NEW suspend \in BOOLEAN, CommitteeChanged(suspend)
    PROVE  Remembered' /\ evidence' \subseteq Evidence
<1>1. Remembered /\ TypeOK /\ evidence \subseteq Evidence
  BY DEF IInv, TypeOK
<1>2. evidence' = RemoveExpiredEvidence(evidence, round, maxAge) /\ round' = round + 1
      /\ UNCHANGED <<maxAge, punished, raised>>
  BY DEF CommitteeChanged, AppendBlock
<1>3. evidence' \subseteq evidence
  BY <1>2 DEF RemoveExpiredEvidence
<1>4. ASSUME NEW e \in evidence, e \notin evidence' PROVE e.round + maxAge < round
  BY <1>1, <1>2, <1>4, Numbers DEF RemoveExpiredEvidence
<1>5. ASSUME NEW e \in Evidence, e.round + maxAge < round PROVE e.round + maxAge' < round'
  BY <1>1, <1>2, <1>5, Numbers
<1> QED BY <1>1, <1>2, <1>3, <1>4, <1>5 DEF Remembered

-----------------------------------------------------------------------------
\* A newly registered runtime has only its genesis block.
LEMMA InitIInv == ASSUME Init PROVE IInv
<1> DEFINE none == [r \in {} |-> roots]
<1>1. roots \in Roots /\ maxStored \in Nat /\ GenesisRound \in 0 .. MaxRound
      /\ GenesisRound \in Nat /\ round = GenesisRound
  BY RecordsAssumption DEF Init, Roots
<1>2. Window(none, GenesisRound, maxStored)
  <2>1. GenesisRound + 1 \in GenesisRound .. GenesisRound + 1
    BY <1>1
  <2>2. DOMAIN none = (GenesisRound + 1) .. GenesisRound
    BY <1>1
  <2>3. GenesisRound - (GenesisRound + 1) + 1 <= maxStored
    BY <1>1
  <2> QED BY <2>1, <2>2, <2>3 DEF Window
<1>3. pastRoots = StoreRoots(none, GenesisRound, roots, maxStored)
  BY DEF Init
<1> HIDE DEF none
<1>4. GenesisRound \in GenesisRound .. MaxRound /\ GenesisRound \in {GenesisRound, GenesisRound + 1}
  BY <1>1
<1>5. /\ Window(pastRoots, round, maxStored)
      /\ \A q \in DOMAIN pastRoots : pastRoots[q] = IF maxStored # 0 /\ q = round THEN roots ELSE none[q]
      /\ \A q \in DOMAIN pastRoots : q = round \/ q \in DOMAIN none
  <2> DEFINE p == StoreRoots(none, GenesisRound, roots, maxStored)
  <2>1. /\ Window(p, GenesisRound, maxStored)
        /\ \A q \in DOMAIN p : p[q] = IF maxStored # 0 /\ q = GenesisRound THEN roots ELSE none[q]
        /\ \A q \in DOMAIN p : q = GenesisRound \/ q \in DOMAIN none
    BY <1>1, <1>2, <1>4, StoreRootsWindow
  <2>2. p = pastRoots /\ GenesisRound = round
    BY <1>1, <1>3
  <2> HIDE DEF p
  <2> QED BY <2>1, <2>2, Zenon
<1>6. DOMAIN pastRoots \subseteq {round} /\ \A q \in DOMAIN pastRoots : pastRoots[q] = roots
  <2>1. DOMAIN none = {}
    BY DEF none
  <2>2. \A q \in DOMAIN pastRoots : maxStored # 0
    BY <1>1, <1>5 DEF Window
  <2> QED BY <1>5, <2>1, <2>2
<1>7. chain = [r \in {round} |-> roots] /\ GenesisRound .. round = {round}
  BY <1>1 DEF Init
<1>8. TypeOK
  <2>1. suspended \in BOOLEAN /\ raised \in BOOLEAN
    BY Zenon DEF Init
  <2>2. chain \in [GenesisRound .. round -> Roots]
    BY <1>1, <1>7
  <2>3. round \in GenesisRound .. MaxRound /\ DOMAIN pastRoots \subseteq GenesisRound .. round
    BY <1>1, <1>4, <1>6, <1>7
  <2>4. maxAge \in Ages /\ maxStored \in Limits /\ evidence \subseteq Evidence
        /\ registered \subseteq Node /\ punished \in [Evidence -> Nat]
    BY DEF Init
  <2> QED BY <1>1, <2>1, <2>2, <2>3, <2>4 DEF TypeOK
<1>9. Remembered
  BY DEF Init, Remembered
<1> QED BY <1>5, <1>6, <1>7, <1>8, <1>9 DEF IInv

\* Every step keeps the invariant and drops roots only for want of room.
LEMMA NextIInv == ASSUME IInv, [Next]_vars PROVE IInv' /\ RootsKeptStep
<1>0. TypeOK /\ round \in Nat /\ maxAge \in Nat /\ maxStored \in Nat
      /\ raised \in BOOLEAN /\ EmptyBlockRoots \in Roots
  <2>1. TypeOK /\ raised \in BOOLEAN
    BY DEF IInv, TypeOK
  <2>2. EmptyBlockRoots \in Roots
    BY <2>1, RecordsAssumption DEF TypeOK, Roots, EmptyBlockRoots
  <2> QED BY <2>1, <2>2, Numbers
<1>1. ASSUME NEW new \in Roots, AppendBlock(new), ~suspended,
             UNCHANGED <<suspended, maxAge, maxStored, evidence, registered, punished, raised>>
      PROVE  IInv' /\ RootsKeptStep
  <2>1. raised' = (raised \/ maxAge' > maxAge)
    <3>1. raised' = raised /\ maxAge' = maxAge /\ ~(maxAge > maxAge)
      BY <1>0, <1>1
    <3> QED BY <3>1, <1>0, Zenon
  <2>2. round' = round + 1
    BY <1>1 DEF AppendBlock
  <2>3. Remembered'
    BY <1>0, <1>1, <2>1, <2>2, RememberedLater
  <2> QED BY <1>0, <1>1, <2>3, AppendBlockInv DEF IInv, TypeOK
<1>2. CASE ExecutorCommit
  <2> DEFINE p == StoreRoots(pastRoots, round, roots, maxStored)
  <2>1. /\ Window(p, round, maxStored)
        /\ DOMAIN pastRoots \subseteq DOMAIN p \/ Cardinality(DOMAIN p) = maxStored
        /\ \A q \in DOMAIN p : p[q] = IF maxStored # 0 /\ q = round THEN roots ELSE pastRoots[q]
        /\ \A q \in DOMAIN p : q = round \/ q \in DOMAIN pastRoots
    BY <1>0, StoreRootsWindow DEF IInv, TypeOK
  <2> HIDE DEF p
  <2>2. pastRoots' = p
        /\ UNCHANGED <<suspended, round, roots, maxAge, maxStored, evidence, registered, chain,
                       punished, raised>>
    BY <1>2 DEF ExecutorCommit, p
  <2>3. \A q \in DOMAIN p : p[q] = chain[q]
    <3>1. \A q \in DOMAIN p : maxStored # 0
      BY <1>0, <2>1, Numbers DEF Window
    <3> QED BY <2>1, <3>1 DEF IInv
  <2>4. DOMAIN p \subseteq GenesisRound .. round
    BY <1>0, <2>1, Numbers DEF Window
  <2>5. Remembered'
    BY <2>2 DEF IInv, Remembered
  <2> QED BY <2>1, <2>2, <2>3, <2>4, <2>5 DEF IInv, TypeOK, RootsKeptStep
<1>3. ASSUME NEW suspend \in BOOLEAN, CommitteeChanged(suspend)
      PROVE  IInv' /\ RootsKeptStep
  <2>1. AppendBlock(EmptyBlockRoots) /\ suspended' = suspend
        /\ UNCHANGED <<maxAge, maxStored, registered, punished, raised>>
    BY <1>3 DEF CommitteeChanged
  <2>2. Remembered' /\ evidence' \subseteq Evidence
    BY <1>3, CommitteeChangedInv
  <2> QED BY <1>0, <1>3, <2>1, <2>2, AppendBlockInv DEF IInv, TypeOK
<1>4. ASSUME NEW e \in Evidence, SubmitEvidence(e)
      PROVE  IInv' /\ RootsKeptStep
  <2>1. Remembered' /\ punished' \in [Evidence -> Nat]
    BY <1>4, SubmitEvidenceInv
  <2>2. evidence' = evidence \cup {e}
        /\ UNCHANGED <<suspended, round, roots, maxAge, maxStored, pastRoots, registered, chain, raised>>
    BY <1>4 DEF SubmitEvidence
  <2> QED BY <2>1, <2>2 DEF IInv, TypeOK, RootsKeptStep
<1>5. ASSUME NEW age \in Ages, NEW limit \in Limits, ChangeParameters(age, limit)
      PROVE  IInv' /\ RootsKeptStep
  <2>1. /\ maxAge' = age /\ maxStored' = limit /\ raised' = (raised \/ age > maxAge)
        /\ pastRoots' = IF limit < maxStored THEN ShrinkPastRoots(pastRoots, limit) ELSE pastRoots
        /\ UNCHANGED <<suspended, round, roots, evidence, registered, chain, punished>>
    BY <1>5 DEF ChangeParameters
  <2>2. age \in Nat /\ limit \in Nat
    BY <1>0, Numbers
  <2>3. raised' \in BOOLEAN /\ raised' = (raised \/ maxAge' > maxAge)
    BY <2>1, <1>0, Zenon
  <2>4. Remembered'
    BY <1>0, <2>1, <2>2, <2>3, RememberedLater
  <2>5. /\ Window(pastRoots', round, limit) /\ RootsKeptStep
        /\ \A q \in DOMAIN pastRoots' : q \in DOMAIN pastRoots /\ pastRoots'[q] = pastRoots[q]
    <3>1. CASE limit < maxStored
      <4> DEFINE p == ShrinkPastRoots(pastRoots, limit)
      <4>1. /\ Window(p, round, limit)
            /\ DOMAIN pastRoots \subseteq DOMAIN p \/ Cardinality(DOMAIN p) = limit
            /\ \A q \in DOMAIN p : q \in DOMAIN pastRoots /\ p[q] = pastRoots[q]
        BY <1>0, <2>2, ShrinkWindow DEF IInv, TypeOK
      <4>2. pastRoots' = p
        BY <2>1, <3>1
      <4> HIDE DEF p
      <4> QED BY <2>1, <4>1, <4>2 DEF RootsKeptStep
    <3>2. CASE ~(limit < maxStored)
      <4>1. pastRoots' = pastRoots
        BY <2>1, <3>2
      <4>2. Window(pastRoots, round, limit)
        BY <1>0, <2>2, <3>2, Numbers DEF IInv, Window
      <4> QED BY <4>1, <4>2 DEF RootsKeptStep
    <3> QED BY <3>1, <3>2
  <2>6. TypeOK'
    BY <1>0, <2>1, <2>3, <2>5 DEF TypeOK
  <2> QED BY <2>1, <2>4, <2>5, <2>6 DEF IInv
<1>6. ASSUME NEW n \in Node, RegisterNode(n) \/ RemoveNode(n)
      PROVE  IInv' /\ RootsKeptStep
  BY <1>6 DEF RegisterNode, RemoveNode, IInv, TypeOK, Remembered, RootsKeptStep
<1>7. CASE UNCHANGED vars
  BY <1>7 DEF vars, IInv, TypeOK, Remembered, RootsKeptStep
<1>8. CASE FailRound
  BY <1>0, <1>1, <1>8 DEF FailRound
<1>9. ASSUME NEW new \in Roots, FinalizeNormal(new) PROVE IInv' /\ RootsKeptStep
  BY <1>1, <1>9 DEF FinalizeNormal
<1> QED BY <1>2, <1>3, <1>4, <1>5, <1>6, <1>7, <1>8, <1>9 DEF Next

\* The inductive invariant holds in every reachable state.
THEOREM Invariance == Spec => []IInv
<1>1. Init => IInv
  BY InitIInv
<1>2. IInv /\ [Next]_vars => IInv'
  BY NextIInv
<1> QED BY <1>1, <1>2, PTL DEF Spec

\* Every variable keeps its type, whatever is submitted, registered or voted for.
THEOREM TypeCorrect == Spec => []TypeOK
<1>1. IInv => TypeOK
  BY DEF IInv
<1> QED BY <1>1, Invariance, PTL

(* The stored roots are those of the last blocks without a gap and within the *)
(* limit, for every sequence of changes of MaxPastRootsStored.                *)
THEOREM PastRootsAlwaysWindow == Spec => []PastRootsWindow
<1>1. ASSUME IInv PROVE PastRootsWindow
  <2>1. PICK first \in GenesisRound .. round + 1 :
            DOMAIN pastRoots = first .. round /\ round - first + 1 <= maxStored
    BY <1>1 DEF IInv, Window
  <2>2. round \in Nat /\ first \in Nat
    BY <1>1, Numbers DEF IInv
  <2>3. Cardinality(DOMAIN pastRoots) = round - first + 1
    BY <2>1, <2>2, IntervalLength
  <2> QED BY <1>1, <2>1, <2>3 DEF IInv, PastRootsWindow
<1> QED BY <1>1, Invariance, PTL

\* Past roots are dropped by SetRuntimeState and ShrinkPastRoots only for want of room.
THEOREM RootsAlwaysKept == Spec => RootsKept
<1>1. IInv /\ [Next]_vars => [RootsKeptStep]_vars
  BY NextIInv
<1> QED BY <1>1, Invariance, PTL DEF Spec, RootsKept

(* submitEvidence punishes a node at most once for a round, wherever the sum  *)
(* of round and age wraps around, as long as MaxEvidenceAge is not raised.    *)
THEOREM AlwaysPunishedOnce == Spec => []PunishedOnce
<1>1. IInv => PunishedOnce
  BY DEF IInv, Remembered, PunishedOnce
<1> QED BY <1>1, Invariance, PTL

-----------------------------------------------------------------------------
(***************************************************************************)
(* Governance, whose proposals change such parameters: for every set of      *)
(* accounts, delegations, parameters and proposals, tallies follow the       *)
(* delegators, deposits match, proposals close in time and upgrades are      *)
(* apart.                                                                    *)
(***************************************************************************)
CONSTANTS Accounts, Entities, Delegations, Balance, GenesisParams, ParamChanges,
          InitialBalance, MaxEpoch, MaxProposals

VARIABLES epoch, transition, validators, params, proposals, active, votes, pending,
          general, deposits, pool, failed

\* The governance application.
Gov == INSTANCE Governance

\* Seen through the instance, the operators on sets are the same ones.
LEMMA GovernanceFinite == ASSUME NEW S PROVE Gov!IsFiniteSet(S) <=> IsFiniteSet(S)
BY DEF Gov!IsFiniteSet, IsFiniteSet

\* Cardinality, through the instance.
LEMMA GovernanceCardinality == ASSUME NEW S PROVE Gov!Cardinality(S) = Cardinality(S)
BY Zenon DEF Gov!Cardinality, Cardinality

\* The model's total is the sum the theorems about sums speak of.
LEMMA GovernanceSum == ASSUME NEW f PROVE Gov!Total(f) = SumFunctionOnSet(f, DOMAIN f)
BY Zenon DEF Gov!Total, Gov!SumFunction, Gov!SumFunctionOnSet, Gov!FoldFunctionOnSet, Gov!MapThenFoldSet,
   SumFunctionOnSet, FoldFunctionOnSet, MapThenFoldSet

\* There are finitely many accounts.
LEMMA AccountsFinite == ASSUME Gov!GovernanceAssumption PROVE IsFiniteSet(Accounts)
BY GovernanceFinite DEF Gov!GovernanceAssumption

\* One voter's turn in the tally of a validator.
Turn(ballot, v, t, a) ==
    IF ballot[a] = Gov!NoVote \/ Delegations[a][v] = 0 THEN t
    ELSE Gov!DelegatorVote(t, v, ballot[v], a, ballot[a])

\* One step of a fold: a proposal that is closed, or a voter's turn.
Step(kind, arg, l, x) ==
    IF kind = "close" THEN Gov!CloseDue(l, x) ELSE Turn(arg[1], arg[2], l, x)

\* h is the fold on the sets of at most n positions of S.
FoldUpTo(kind, arg, base, seq, S, n, h) ==
    h = [s \in {t \in SUBSET S : Cardinality(t) <= n} |->
            IF s = {} THEN base ELSE Step(kind, arg, h[s \ {Gov!Max(s)}], seq[Gov!Max(s)])]

\* h is the fold on all sets of positions of S.
FoldOver(kind, arg, base, seq, S, h) ==
    h = [s \in SUBSET S |->
            IF s = {} THEN base ELSE Step(kind, arg, h[s \ {Gov!Max(s)}], seq[Gov!Max(s)])]

\* A trace of the fold.
IsTrace(kind, arg, base, seq, n, r) ==
    /\ r[0] = base
    /\ \A i \in 1..n : r[i] = Step(kind, arg, r[i - 1], seq[i])

\* The largest element of a set of positions.
LEMMA MaxIn ==
    ASSUME NEW n \in Nat, NEW S \in SUBSET (1..n), S # {}
    PROVE  Gov!Max(S) \in S /\ \A y \in S : Gov!Max(S) >= y
<1> DEFINE F == {m \in Nat : \A T \in SUBSET (1..m) : T = {} \/ \E x \in T : \A y \in T : x >= y}
<1>1. 0 \in F
  OBVIOUS
<1>2. ASSUME NEW m \in Nat, m \in F PROVE m + 1 \in F
  <2> SUFFICES ASSUME NEW T \in SUBSET (1..m + 1), T # {} PROVE \E x \in T : \A y \in T : x >= y
    OBVIOUS
  <2>1. CASE m + 1 \in T
    BY <2>1
  <2>2. CASE m + 1 \notin T
    <3>1. T \in SUBSET (1..m)
      BY <2>2
    <3> QED
      BY <1>2, <3>1
  <2> QED
    BY <2>1, <2>2
<1>3. \A m \in Nat : m \in F
  <2> HIDE DEF F
  <2> QED
    BY <1>1, <1>2, NatSetInduction
<1>4. \E x \in S : \A y \in S : x >= y
  BY <1>3
<1> QED
  BY <1>4 DEF Gov!Max

\* The largest of the first i positions, and what is left without it.
LEMMA MaxUpTo ==
    ASSUME NEW i \in Nat \ {0}
    PROVE  Gov!Max(1..i) = i /\ (1..i) \ {Gov!Max(1..i)} = 1..(i - 1)
<1>1. Gov!Max(1..i) \in 1..i /\ Gov!Max(1..i) >= i
  <2>1. 1..i \in SUBSET (1..i) /\ 1..i # {} /\ i \in 1..i
    OBVIOUS
  <2> QED
    BY <2>1, MaxIn
<1> QED
  BY <1>1

\* The recursion defines a function.
LEMMA FoldExists ==
    ASSUME NEW kind, NEW arg, NEW base, NEW seq, NEW k \in Nat
    PROVE  \E h : FoldOver(kind, arg, base, seq, 1..k, h)
<1> DEFINE S == 1..k
           Small(n) == {t \in SUBSET S : Cardinality(t) <= n}
           Body(g, s) == IF s = {} THEN base ELSE Step(kind, arg, g[s \ {Gov!Max(s)}], seq[Gov!Max(s)])
           F == {n \in Nat : \E h : FoldUpTo(kind, arg, base, seq, S, n, h)}
<1>0. IsFiniteSet(S)
  BY FS_Interval
<1>1. 0 \in F
  <2>1. \A s \in Small(0) : s = {}
    <3> HIDE DEF S
    <3> QED
      BY <1>0, FS_Subset, FS_EmptySet, FS_CardinalityType
  <2> DEFINE h == [s \in Small(0) |-> base]
  <2>2. h = [s \in Small(0) |-> Body(h, s)]
    BY <2>1
  <2>3. FoldUpTo(kind, arg, base, seq, S, 0, h)
    BY <2>2 DEF FoldUpTo
  <2> HIDE DEF h
  <2> QED
    BY <2>3
<1>2. ASSUME NEW n \in Nat, n \in F PROVE n + 1 \in F
  <2>0. PICK h : FoldUpTo(kind, arg, base, seq, S, n, h)
    BY <1>2
  <2>1. h = [s \in Small(n) |-> Body(h, s)]
    BY <2>0 DEF FoldUpTo
  <2> DEFINE g == [s \in Small(n + 1) |-> Body(h, s)]
  <2>2. ASSUME NEW s \in Small(n) PROVE s \in Small(n + 1) /\ g[s] = h[s]
    <3>1. s \in Small(n + 1)
      <4> HIDE DEF S
      <4> QED
        BY <1>0, FS_Subset, FS_CardinalityType
    <3>2. h[s] = Body(h, s)
      BY <2>1
    <3> QED
      BY <3>1, <3>2
  <2>3. ASSUME NEW s \in Small(n + 1), s # {} PROVE s \ {Gov!Max(s)} \in Small(n)
    <3>1. IsFiniteSet(s) /\ Cardinality(s) \in Nat /\ Cardinality(s) <= n + 1
      BY <1>0, FS_Subset, FS_CardinalityType
    <3>2. Gov!Max(s) \in s
      BY <2>3, MaxIn
    <3>3. Cardinality(s \ {Gov!Max(s)}) = Cardinality(s) - 1
      BY <3>1, <3>2, FS_RemoveElement
    <3>4. Cardinality(s \ {Gov!Max(s)}) <= n
      BY <3>1, <3>3
    <3> QED
      BY <3>4
  <2>4. ASSUME NEW s \in Small(n + 1) PROVE Body(h, s) = Body(g, s)
    <3>1. CASE s = {}
      BY <3>1
    <3>2. CASE s # {}
      <4>1. g[s \ {Gov!Max(s)}] = h[s \ {Gov!Max(s)}]
        BY <2>2, <2>3, <3>2
      <4> HIDE DEF g
      <4> QED
        BY <4>1
    <3> QED
      BY <3>1, <3>2
  <2>5. g = [s \in Small(n + 1) |-> Body(g, s)]
    <3> HIDE DEF Body, Small
    <3> QED
      BY <2>4
  <2>6. FoldUpTo(kind, arg, base, seq, S, n + 1, g)
    BY <2>5 DEF FoldUpTo
  <2> HIDE DEF g
  <2> QED
    BY <2>6
<1>3. \A n \in Nat : n \in F
  <2> HIDE DEF F
  <2> QED
    BY <1>1, <1>2, NatSetInduction
<1>4. Cardinality(S) \in Nat /\ \A t \in SUBSET S : Cardinality(t) <= Cardinality(S)
  BY <1>0, FS_Subset, FS_CardinalityType
<1>5. {t \in SUBSET S : Cardinality(t) <= Cardinality(S)} = SUBSET S
  BY <1>4
<1>6. PICK h : FoldUpTo(kind, arg, base, seq, S, Cardinality(S), h)
  BY <1>3, <1>4
<1>7. FoldOver(kind, arg, base, seq, S, h)
  BY <1>5, <1>6 DEF FoldOver, FoldUpTo
<1> QED
  BY <1>7

\* The values for the first positions are a trace.
LEMMA FoldTrace ==
    ASSUME NEW kind, NEW arg, NEW base, NEW seq, NEW k \in Nat, NEW h,
           FoldOver(kind, arg, base, seq, 1..k, h)
    PROVE  \E r : IsTrace(kind, arg, base, seq, k, r) /\ h[1..k] = r[k]
<1> DEFINE r == [i \in 0..k |-> h[1..i]]
<1>1. r[0] = base
  <2>1. 1..0 = {} /\ {} \in SUBSET (1..k)
    OBVIOUS
  <2>2. h[{}] = base
    BY <2>1 DEF FoldOver
  <2> QED
    BY <2>1, <2>2
<1>2. ASSUME NEW i \in 1..k PROVE r[i] = Step(kind, arg, r[i - 1], seq[i])
  <2>0. i \in Nat \ {0} /\ i <= k /\ i \in 1..i
    OBVIOUS
  <2>1. 1..i \in SUBSET (1..k) /\ 1..i # {} /\ i - 1 \in 0..k
    <3>1. \A j \in 1..i : j \in 1..k
      BY <2>0
    <3>2. i - 1 \in 0..k
      BY <2>0
    <3> QED
      BY <2>0, <3>1, <3>2
  <2>2. h[1..i] = Step(kind, arg, h[(1..i) \ {Gov!Max(1..i)}], seq[Gov!Max(1..i)])
    BY <2>1 DEF FoldOver
  <2>3. h[1..i] = Step(kind, arg, h[1..(i - 1)], seq[i])
    BY <2>0, <2>2, MaxUpTo
  <2> QED
    BY <2>1, <2>3
<1>3. IsTrace(kind, arg, base, seq, k, r) /\ h[1..k] = r[k]
  BY <1>1, <1>2 DEF IsTrace
<1> HIDE DEF r
<1> QED
  BY <1>3

\* The sequence of a finite set has each element once.
LEMMA SeqOfSet ==
    ASSUME NEW S, IsFiniteSet(S)
    PROVE  /\ Cardinality(S) \in Nat /\ Gov!SetToSeq(S) \in [1..Cardinality(S) -> S]
           /\ \A i, j \in 1..Cardinality(S) : Gov!SetToSeq(S)[i] = Gov!SetToSeq(S)[j] => i = j
           /\ \A x \in S : \E i \in 1..Cardinality(S) : Gov!SetToSeq(S)[i] = x
<1> DEFINE n == Cardinality(S)
           q == Gov!SetToSeq(S)
<1>1. n \in Nat /\ ExistsBijection(1..n, S)
  BY FS_CardinalityType
<1>2. \E f \in [1..n -> S] : Gov!IsInjective(f)
  BY <1>1 DEF ExistsBijection, Bijection, Injection, IsInjective, Gov!IsInjective
<1>3. q \in [1..n -> S] /\ Gov!IsInjective(q)
  <2>1. q = CHOOSE f \in [1..n -> S] : Gov!IsInjective(f)
    <3>1. Gov!Cardinality(S) = n
      BY GovernanceCardinality
    <3> HIDE DEF n
    <3> QED
      BY <3>1 DEF Gov!SetToSeq
  <2> QED
    BY <1>2, <2>1, Zenon
<1>4. \A i, j \in 1..n : q[i] = q[j] => i = j
  BY <1>3 DEF Gov!IsInjective
<1>5. ASSUME NEW x \in S PROVE \E i \in 1..n : q[i] = x
  <2>1. IsFiniteSet(1..n) /\ Cardinality(1..n) = n
    BY <1>1, FS_Interval
  <2> HIDE DEF n, q
  <2> DEFINE T == {q[i] : i \in 1..n}
  <2>2. q \in Surjection(1..n, T) /\ q \in [1..n -> T]
    BY <1>3 DEF Surjection
  <2>3. IsFiniteSet(T) /\ Cardinality(T) = n
    <3>1. q \in Bijection(1..n, T)
      BY <2>2, <1>4 DEF Bijection, Injection, IsInjective
    <3> QED
      BY <3>1, <2>1, FS_Bijection DEF ExistsBijection
  <2>4. T \subseteq S /\ Cardinality(S) = n
    BY <1>3 DEF n
  <2>5. T = S
    BY <2>3, <2>4, FS_Subset
  <2> QED
    BY <2>5
<1> QED
  BY <1>1, <1>3, <1>4, <1>5

-----------------------------------------------------------------------------
(***************************************************************************)
(* The proposals.                                                           *)
(***************************************************************************)

\* A proposal as it is stored.
States == {"active", "passed", "rejected", "failed"}

Stored ==
    [content : Gov!Contents, submitter : Accounts, deposit : Nat,
     state : States, createdAt : Nat, closesAt : Nat]

\* The state of a block that ends, with n proposals.
Ending(n) ==
    [props : [1..n -> Stored], act : SUBSET (Nat \X Gov!IDs), pend : SUBSET (1..n), par : [Gov!Fields -> Nat],
     gen : [Accounts -> Nat], dep : Nat, pl : Nat, fail : BOOLEAN]

\* The proposals being voted on, and the deposits they hold.
Opened(props) == {i \in DOMAIN props : props[i].state = "active"}
Held(props) == [i \in Opened(props) |-> props[i].deposit]

\* The index has the active proposals, with their epochs.
Indexed(s) ==
    \A c \in Nat, i \in Gov!IDs :
        <<c, i>> \in s.act <=> i \in DOMAIN s.props /\ s.props[i].state = "active" /\ s.props[i].closesAt = c

\* Upgrades are due after their proposal closes.
UpgradesAhead(props) ==
    \A i \in DOMAIN props : props[i].content.kind = "upgrade" => props[i].content.epoch > props[i].closesAt

\* A proposal that cancels upgrade i has passed.
Cancels(props, i) ==
    \E c \in DOMAIN props :
        /\ props[c].state = "passed"
        /\ props[c].content.kind = "cancel"
        /\ props[c].content.target = i

\* Only what has passed is cancelled.
PassedFirst(props) == \A i \in Gov!IDs : Cancels(props, i) => i \in DOMAIN props /\ props[i].state = "passed"

\* Upgrade i has passed, is not yet due in epoch e and is not cancelled.
Waits(props, i, e) ==
    /\ props[i].state = "passed"
    /\ props[i].content.kind = "upgrade"
    /\ props[i].content.epoch > e
    /\ ~Cancels(props, i)

\* The pending upgrades are those that wait.
PendingExact(s, e) == \A i \in DOMAIN s.props : i \in s.pend <=> Waits(s.props, i, e)

\* The deposits and the tokens there are.
DepositsExact(s) == s.dep = SumFunctionOnSet(Held(s.props), Opened(s.props))
TokensKept(s) == SumFunctionOnSet(s.gen, Accounts) + s.dep + s.pl = InitialBalance * Cardinality(Accounts)

\* All of what is true of proposals.
Orderly(s, n, e) ==
    /\ s \in Ending(n) /\ n \in 0..MaxProposals
    /\ Indexed(s) /\ UpgradesAhead(s.props) /\ PassedFirst(s.props) /\ PendingExact(s, e)
    /\ Gov!ParamsSane(s.par) /\ DepositsExact(s) /\ TokensKept(s)

\* What each kind of content has.
LEMMA ContentParts ==
    ASSUME Gov!GovernanceAssumption, NEW c \in Gov!Contents
    PROVE  /\ c.kind \in {"upgrade", "cancel", "change"}
           /\ c.kind = "upgrade" => c.epoch \in Nat
           /\ c.kind = "cancel" => c.target \in Gov!IDs
           /\ c.kind = "change" => c.change \in ParamChanges /\ c.change.field \in Gov!Fields /\ c.change.value \in Nat
<1>1. CASE c \in [kind : {"upgrade"}, epoch : 1..(MaxEpoch + 1)]
  BY <1>1 DEF Gov!GovernanceAssumption
<1>2. CASE c \in [kind : {"cancel"}, target : Gov!IDs]
  BY <1>2
<1>3. CASE c \in [kind : {"change"}, change : ParamChanges]
  BY <1>3 DEF Gov!GovernanceAssumption
<1> QED
  BY <1>1, <1>2, <1>3 DEF Gov!Contents

\* A change gives parameters.
LEMMA ApplyTyped ==
    ASSUME Gov!GovernanceAssumption, NEW p \in [Gov!Fields -> Nat], NEW c \in ParamChanges
    PROVE  Gov!Apply(p, c) \in [Gov!Fields -> Nat] /\ (c.field # "minDiff" => Gov!Apply(p, c)["minDiff"] = p["minDiff"])
           /\ (c.field = "minDiff" => Gov!Apply(p, c)["minDiff"] = c.value)
<1>1. c.field \in Gov!Fields /\ c.value \in Nat
  BY DEF Gov!GovernanceAssumption
<1> QED
  BY <1>1 DEF Gov!Apply, Gov!Fields

\* The proposals with the state of one of them set.
WithState(props, id, st) == [props EXCEPT ![id].state = st]

\* Proposal id has ended as one of the outcomes, and nothing else of the
\* proposals, the index and the tokens has changed.
Decided(s, t, n, id) ==
    /\ t \in Ending(n)
    /\ t.act = s.act /\ t.gen = s.gen /\ t.dep = s.dep /\ t.pl = s.pl /\ t.fail = s.fail
    /\ t.props[id].state \in {"passed", "rejected", "failed"}
    /\ t.props = WithState(s.props, id, t.props[id].state)

\* Proposals with the state of one of them changed.
LEMMA StateOnly ==
    ASSUME NEW n \in Nat, NEW props \in [1..n -> Stored], NEW id \in 1..n, NEW st \in States
    PROVE  LET new == WithState(props, id, st) IN
           /\ new \in [1..n -> Stored]
           /\ new[id].state = st
           /\ \A i \in 1..n : /\ new[i].content = props[i].content /\ new[i].submitter = props[i].submitter
                              /\ new[i].deposit = props[i].deposit /\ new[i].closesAt = props[i].closesAt
                              /\ i # id => new[i] = props[i]
<1> DEFINE C == Gov!Contents
           new == WithState(props, id, st)
<1> HIDE DEF C
<1>1. props \in [1..n -> [content : C, submitter : Accounts, deposit : Nat,
          state : States, createdAt : Nat, closesAt : Nat]]
  BY DEF Stored, C
<1>2. new \in [1..n -> [content : C, submitter : Accounts, deposit : Nat,
          state : States, createdAt : Nat, closesAt : Nat]]
  BY <1>1 DEF WithState
<1> QED
  BY <1>1, <1>2 DEF Stored, C, WithState

\* What a decision leaves of the proposals.
LEMMA DecidedProps ==
    ASSUME NEW n \in Nat, NEW s \in Ending(n), NEW t, NEW id \in 1..n, Decided(s, t, n, id)
    PROVE  /\ t.props \in [1..n -> Stored]
           /\ \A i \in 1..n : /\ t.props[i].content = s.props[i].content /\ t.props[i].submitter = s.props[i].submitter
                              /\ t.props[i].deposit = s.props[i].deposit /\ t.props[i].closesAt = s.props[i].closesAt
                              /\ i # id => t.props[i] = s.props[i]
<1>1. PICK old, st : old = s.props /\ st = t.props[id].state
  OBVIOUS
<1>2. old \in [1..n -> Stored] /\ st \in States /\ t.props = WithState(old, id, st)
  BY <1>1 DEF Ending, Decided, States
<1>3. PICK new : new = WithState(old, id, st)
  OBVIOUS
<1>4. /\ new \in [1..n -> Stored]
      /\ new[id].state = st
      /\ \A i \in 1..n : /\ new[i].content = old[i].content /\ new[i].submitter = old[i].submitter
                         /\ new[i].deposit = old[i].deposit /\ new[i].closesAt = old[i].closesAt
                         /\ i # id => new[i] = old[i]
  <2> HIDE <1>1
  <2> QED
    BY <1>2, <1>3, StateOnly
<1> QED
  BY <1>1, <1>2, <1>3, <1>4

\* A proposal that is not upgraded, cancelled or changed any more.
LEMMA DecidedKeeps ==
    ASSUME Gov!GovernanceAssumption, NEW n \in Nat, NEW s, NEW t, NEW id \in 1..n, NEW e \in Nat,
           Orderly(s, n, e), s.props[id].state = "active", s.props[id].closesAt = e, Decided(s, t, n, id),
           t.props[id].state = "passed" /\ s.props[id].content.kind = "upgrade" => t.pend = s.pend \cup {id},
           t.props[id].state = "passed" /\ s.props[id].content.kind = "cancel" =>
               s.props[id].content.target \in s.pend /\ t.pend = s.pend \ {s.props[id].content.target},
           ~(t.props[id].state = "passed" /\ s.props[id].content.kind \in {"upgrade", "cancel"}) => t.pend = s.pend
    PROVE  UpgradesAhead(t.props) /\ PassedFirst(t.props) /\ PendingExact(t, e)
<1> DEFINE new == t.props
           old == s.props
           st == new[id].state
<1>0. /\ old \in [1..n -> Stored] /\ new = WithState(old, id, st) /\ st \in {"passed", "rejected", "failed"}
      /\ n <= MaxProposals /\ s.pend \in SUBSET (1..n)
  BY DEF Orderly, Ending, Decided
<1>1. /\ new \in [1..n -> Stored]
      /\ \A i \in 1..n : new[i].content = old[i].content /\ new[i].closesAt = old[i].closesAt /\ (i # id => new[i] = old[i])
  BY DecidedProps DEF Orderly
<1>2. DOMAIN new = 1..n /\ DOMAIN old = 1..n
  BY <1>0, <1>1
<1>3. UpgradesAhead(old) /\ PassedFirst(old) /\ PendingExact(s, e) /\ old[id].state = "active" /\ old[id].closesAt = e
  BY DEF Orderly
<1>4. old[id].content.kind \in {"upgrade", "cancel", "change"} /\ (old[id].content.kind = "cancel" => old[id].content.target \in Gov!IDs)
      /\ (old[id].content.kind = "upgrade" => old[id].content.epoch \in Nat)
  BY <1>0, ContentParts DEF Stored
<1>5. 1..n \subseteq Gov!IDs
  BY <1>0 DEF Gov!IDs, Gov!GovernanceAssumption
<1>6. \A i \in 1..n : i \in s.pend <=> Waits(old, i, e)
  BY <1>2, <1>3 DEF PendingExact
<1> DEFINE gone == st = "passed" /\ old[id].content.kind = "cancel"
           added == st = "passed" /\ old[id].content.kind = "upgrade"
           x == old[id].content.target
<1>7. /\ added => t.pend = s.pend \cup {id}
      /\ gone => x \in s.pend /\ t.pend = s.pend \ {x}
      /\ ~added /\ ~gone => t.pend = s.pend
  BY <1>4
<1> HIDE DEF new, old
<1>8. UpgradesAhead(new)
  BY <1>1, <1>2, <1>3 DEF UpgradesAhead
<1>9. ASSUME NEW i \in Gov!IDs PROVE Cancels(new, i) <=> Cancels(old, i) \/ (gone /\ i = x)
  BY <1>1, <1>2, <1>3 DEF Cancels
<1>10. ~Cancels(old, id)
  BY <1>3, <1>5 DEF PassedFirst
<1>11. gone => x \in 1..n /\ old[x].state = "passed" /\ x # id
  BY <1>0, <1>6, <1>7, <1>3 DEF Waits
<1>12. PassedFirst(new)
  <2> SUFFICES ASSUME NEW i \in Gov!IDs, Cancels(new, i) PROVE i \in 1..n /\ new[i].state = "passed"
    BY <1>2 DEF PassedFirst
  <2>1. CASE Cancels(old, i)
    <3>1. i \in 1..n /\ old[i].state = "passed"
      BY <1>2, <1>3, <2>1 DEF PassedFirst
    <3>2. i # id
      BY <1>3, <3>1
    <3> QED
      BY <1>1, <3>1, <3>2
  <2>2. CASE gone /\ i = x
    BY <1>1, <1>11, <2>2
  <2> QED
    BY <1>9, <2>1, <2>2
<1>13. ASSUME NEW i \in 1..n PROVE i \in t.pend <=> Waits(new, i, e)
  <2>0. i \in Gov!IDs /\ new[i].content = old[i].content
    BY <1>1, <1>5
  <2>1. CASE i = id
    <3>1. i \notin s.pend
      BY <1>3, <1>6, <2>1 DEF Waits
    <3>2. i \in t.pend <=> added
      BY <1>7, <2>1, <3>1
    <3>3. ~Cancels(new, i)
      BY <1>9, <1>10, <1>11, <2>0, <2>1
    <3>4. added => old[id].content.epoch > e
      BY <1>2, <1>3 DEF UpgradesAhead
    <3> QED
      BY <2>0, <2>1, <3>2, <3>3, <3>4 DEF Waits
  <2>2. CASE i # id
    <3>1. new[i] = old[i]
      BY <1>1, <2>2
    <3>2. i \in t.pend <=> i \in s.pend /\ ~(gone /\ i = x)
      BY <1>7, <2>2
    <3> QED
      BY <1>6, <1>9, <2>0, <3>1, <3>2 DEF Waits
  <2> QED
    BY <2>1, <2>2
<1>14. PendingExact(t, e)
  BY <1>2, <1>13 DEF PendingExact, new
<1> QED
  BY <1>8, <1>12, <1>14 DEF new

\* What the execution of a passed proposal does to the block.
LEMMA ExecuteEffect ==
    ASSUME Gov!GovernanceAssumption, NEW n \in Nat, NEW s, NEW t, NEW id \in 1..n, NEW e \in Nat,
           Orderly(s, n, e), s.props[id].state = "active", s.props[id].closesAt = e,
           t = Gov!ExecuteProposal(s, id) \/ t = [s EXCEPT !.props[id].state = "rejected"]
    PROVE  /\ Decided(s, t, n, id)
           /\ UpgradesAhead(t.props) /\ PassedFirst(t.props) /\ PendingExact(t, e)
           /\ Gov!ParamsSane(t.par)
<1> DEFINE c == s.props[id].content
           Outcome(st, pend, par) ==
               /\ t \in Ending(n)
               /\ t.act = s.act /\ t.gen = s.gen /\ t.dep = s.dep /\ t.pl = s.pl /\ t.fail = s.fail
               /\ t.props = WithState(s.props, id, st) /\ t.props[id].state = st
               /\ t.pend = pend /\ t.par = par
<1>0. /\ s \in Ending(n) /\ s.props \in [1..n -> Stored] /\ s.pend \in SUBSET (1..n) /\ s.par \in [Gov!Fields -> Nat]
      /\ Gov!ParamsSane(s.par) /\ DOMAIN s.props = 1..n
  BY DEF Orderly, Ending
<1>1. c \in Gov!Contents
  BY <1>0 DEF Stored
<1>2. /\ c.kind \in {"upgrade", "cancel", "change"}
      /\ c.kind = "cancel" => c.target \in Gov!IDs
      /\ c.kind = "change" => c.change \in ParamChanges
  BY <1>1, ContentParts
<1>3. ASSUME NEW st \in {"passed", "rejected", "failed"}, NEW pend \in SUBSET (1..n), NEW par \in [Gov!Fields -> Nat],
             t = [s EXCEPT !.pend = pend, !.par = par, !.props[id].state = st]
      PROVE  Outcome(st, pend, par)
  <2> DEFINE new == WithState(s.props, id, st)
  <2>1. new \in [1..n -> Stored] /\ new[id].state = st
    <3>1. st \in States
      BY DEF States
    <3> HIDE DEF new
    <3>2. /\ new \in [1..n -> Stored]
          /\ new[id].state = st
          /\ \A i \in 1..n : /\ new[i].content = s.props[i].content /\ new[i].submitter = s.props[i].submitter
                             /\ new[i].deposit = s.props[i].deposit /\ new[i].closesAt = s.props[i].closesAt
                             /\ i # id => new[i] = s.props[i]
      <4>1. new = WithState(s.props, id, st)
        BY DEF new
      <4> QED
        BY <1>0, <3>1, <4>1, StateOnly
    <3> QED
      BY <3>2
  <2>2. t = [s EXCEPT !.pend = pend, !.par = par, !.props = new]
    BY <1>0, <1>3 DEF Ending, WithState
  <2> HIDE DEF new
  <2>3. t \in Ending(n) /\ t.props = new /\ t.pend = pend /\ t.par = par
        /\ t.act = s.act /\ t.gen = s.gen /\ t.dep = s.dep /\ t.pl = s.pl /\ t.fail = s.fail
    <3> DEFINE P == [1..n -> Stored]
    <3> HIDE DEF P
    <3>1. s \in [props : P, act : SUBSET (Nat \X Gov!IDs), pend : SUBSET (1..n), par : [Gov!Fields -> Nat],
                 gen : [Accounts -> Nat], dep : Nat, pl : Nat, fail : BOOLEAN] /\ new \in P
      BY <1>0, <2>1 DEF Ending, P
    <3> QED
      BY <2>2, <3>1 DEF Ending, P
  <2> QED
    BY <2>1, <2>3 DEF new
<1>4. ASSUME NEW st \in {"passed", "rejected", "failed"}, NEW pend, NEW par, Outcome(st, pend, par)
      PROVE  Decided(s, t, n, id)
  BY <1>4 DEF Decided
<1>5. \/ Outcome("rejected", s.pend, s.par)
      \/ Outcome("failed", s.pend, s.par)
      \/ c.kind = "upgrade" /\ Outcome("passed", s.pend \cup {id}, s.par)
      \/ c.kind = "cancel" /\ c.target \in s.pend /\ Outcome("passed", s.pend \ {c.target}, s.par)
      \/ \E par \in [Gov!Fields -> Nat] : c.kind = "change" /\ Gov!ParamsSane(par) /\ Outcome("passed", s.pend, par)
  <2>1. CASE t = [s EXCEPT !.props[id].state = "rejected"]
    <3>1. t = [s EXCEPT !.pend = s.pend, !.par = s.par, !.props[id].state = "rejected"]
      BY <1>0, <2>1 DEF Ending
    <3> QED
      BY <1>0, <1>3, <3>1, ZenonT(30)
  <2>2. CASE t = [s EXCEPT !.props[id].state = "failed"]
    <3>1. t = [s EXCEPT !.pend = s.pend, !.par = s.par, !.props[id].state = "failed"]
      BY <1>0, <2>2 DEF Ending
    <3> QED
      BY <1>0, <1>3, <3>1, ZenonT(30)
  <2>3. CASE t = Gov!ExecuteProposal(s, id) /\ t # [s EXCEPT !.props[id].state = "failed"]
    <3>1. CASE c.kind = "upgrade"
      <4>1. t = [s EXCEPT !.pend = @ \cup {id}, !.props[id].state = "passed"]
        BY <2>3, <3>1 DEF Gov!ExecuteProposal, Gov!ExecuteUpgrade
      <4>2. t = [s EXCEPT !.pend = s.pend \cup {id}, !.par = s.par, !.props[id].state = "passed"]
        BY <1>0, <4>1 DEF Ending
      <4>3. s.pend \cup {id} \in SUBSET (1..n)
        BY <1>0
      <4>4. Outcome("passed", s.pend \cup {id}, s.par)
        <5> HIDE DEF Outcome
        <5> QED
          BY <1>0, <1>3, <4>2, <4>3
      <4> QED
        BY <3>1, <4>4
    <3>2. CASE c.kind = "cancel"
      <4>1. t = [s EXCEPT !.pend = @ \ {c.target}, !.props[id].state = "passed"] /\ c.target \in s.pend
        BY <2>3, <3>2 DEF Gov!ExecuteProposal, Gov!ExecuteCancel
      <4>2. t = [s EXCEPT !.pend = s.pend \ {c.target}, !.par = s.par, !.props[id].state = "passed"]
        BY <1>0, <4>1 DEF Ending
      <4>3. s.pend \ {c.target} \in SUBSET (1..n)
        BY <1>0
      <4>4. Outcome("passed", s.pend \ {c.target}, s.par)
        <5> HIDE DEF Outcome
        <5> QED
          BY <1>0, <1>3, <4>2, <4>3
      <4> QED
        BY <3>2, <4>1, <4>4
    <3>3. CASE c.kind = "change"
      <4> DEFINE par == Gov!Apply(s.par, c.change)
      <4>0. par \in [Gov!Fields -> Nat]
        BY <1>0, <1>2, <3>3, ApplyTyped
      <4>1. t = [s EXCEPT !.par = par, !.props[id].state = "passed"] /\ Gov!ParamsSane(par)
        BY <2>3, <3>3 DEF Gov!ExecuteProposal, Gov!ExecuteChange
      <4> HIDE DEF par
      <4>2. t = [s EXCEPT !.pend = s.pend, !.par = par, !.props[id].state = "passed"]
        BY <1>0, <4>1 DEF Ending
      <4>3. Outcome("passed", s.pend, par)
        <5> HIDE DEF Outcome
        <5> QED
          BY <1>0, <1>3, <4>0, <4>2
      <4> QED
        BY <3>3, <4>0, <4>1, <4>3
    <3> QED
      BY <1>2, <3>1, <3>2, <3>3
  <2> QED
    BY <2>1, <2>2, <2>3
<1>6. Decided(s, t, n, id) /\ Gov!ParamsSane(t.par)
  BY <1>0, <1>4, <1>5
<1>7. /\ t.props[id].state = "passed" /\ c.kind = "upgrade" => t.pend = s.pend \cup {id}
      /\ t.props[id].state = "passed" /\ c.kind = "cancel" => c.target \in s.pend /\ t.pend = s.pend \ {c.target}
      /\ ~(t.props[id].state = "passed" /\ c.kind \in {"upgrade", "cancel"}) => t.pend = s.pend
  BY <1>5
<1> QED
  BY <1>6, <1>7, DecidedKeeps

\* The deposits of open proposals without one of them.
LEMMA DepositLeaves ==
    ASSUME Gov!GovernanceAssumption, NEW n \in Nat, NEW s \in Ending(n), NEW t, NEW id \in 1..n, Decided(s, t, n, id),
           s.props[id].state = "active", DepositsExact(s)
    PROVE  /\ SumFunctionOnSet(Held(t.props), Opened(t.props)) = s.dep - s.props[id].deposit
           /\ s.dep - s.props[id].deposit \in Nat
<1>1. PICK old, new : old = s.props /\ new = t.props
  OBVIOUS
<1>2. /\ old \in [1..n -> Stored] /\ new \in [1..n -> Stored]
      /\ \A i \in 1..n : new[i].deposit = old[i].deposit /\ (i # id => new[i] = old[i])
      /\ new[id].state \in {"passed", "rejected", "failed"} /\ old[id].state = "active"
  <2>1. s.props \in [1..n -> Stored] /\ t.props[id].state \in {"passed", "rejected", "failed"}
    BY DEF Ending, Decided
  <2> QED
    BY <1>1, <2>1, DecidedProps
<1>3. /\ \A i \in 1..n : old[i].deposit \in Nat /\ new[i].deposit \in Nat
      /\ DOMAIN old = 1..n /\ DOMAIN new = 1..n
  BY <1>2 DEF Stored
<1>4. Opened(old) \subseteq 1..n /\ id \in Opened(old) /\ Opened(new) = Opened(old) \ {id}
  BY <1>2, <1>3 DEF Opened
<1>5. IsFiniteSet(Opened(old)) /\ IsFiniteSet(Opened(new))
  <2>1. IsFiniteSet(1..n) /\ Opened(old) \in SUBSET (1..n) /\ Opened(new) \in SUBSET (1..n)
    <3>1. IsFiniteSet(1..n)
      BY FS_Interval
    <3> QED
      BY <1>4, <3>1
  <2> QED
    BY <2>1, FS_Subset
<1>6. /\ \A i \in Opened(old) : Held(old)[i] = old[i].deposit /\ Held(old)[i] \in Nat
      /\ \A i \in Opened(new) : Held(new)[i] = Held(old)[i]
  BY <1>2, <1>3, <1>4 DEF Held
<1>7. SumFunctionOnSet(Held(old), Opened(old)) = Held(old)[id] + SumFunctionOnSet(Held(old), Opened(new))
  BY <1>4, <1>5, <1>6, SumRemove
<1>8. SumFunctionOnSet(Held(new), Opened(new)) = SumFunctionOnSet(Held(old), Opened(new))
  BY <1>5, <1>6, SumSame
<1>9. SumFunctionOnSet(Held(old), Opened(new)) \in Nat
  BY <1>4, <1>5, <1>6, SumNat
<1>10. s.dep = SumFunctionOnSet(Held(old), Opened(old)) /\ Held(old)[id] = old[id].deposit /\ old[id].deposit \in Nat
  BY <1>1, <1>3, <1>4, <1>6 DEF DepositsExact
<1> HIDE <1>1
<1>11. /\ SumFunctionOnSet(Held(new), Opened(new)) = s.dep - old[id].deposit
       /\ s.dep - old[id].deposit \in Nat
  BY <1>7, <1>8, <1>9, <1>10
<1> QED
  BY <1>1, <1>11

\* Returning or discarding the deposit of a proposal that has ended, and
\* taking it out of the index.
LEMMA SettleEffect ==
    ASSUME Gov!GovernanceAssumption, NEW n \in Nat, NEW s, NEW t, NEW id \in 1..n, NEW e \in Nat, NEW u,
           Orderly(s, n, e), Decided(s, t, n, id), s.props[id].state = "active",
           u = [Gov!Settle(t, id) EXCEPT !.act = @ \ {<<s.props[id].closesAt, id>>}]
    PROVE  /\ u \in Ending(n) /\ u.props = t.props /\ u.pend = t.pend /\ u.par = t.par /\ u.fail = t.fail
           /\ DepositsExact(u) /\ TokensKept(u) /\ Indexed(u)
<1> DEFINE P == [1..n -> Stored]
           a == t.props[id].submitter
           x == t.props[id].deposit
           act == s.act \ {<<s.props[id].closesAt, id>>}
           E == [props : P, act : SUBSET (Nat \X Gov!IDs), pend : SUBSET (1..n), par : [Gov!Fields -> Nat],
                 gen : [Accounts -> Nat], dep : Nat, pl : Nat, fail : BOOLEAN]
<1>0. s \in Ending(n) /\ DepositsExact(s) /\ TokensKept(s) /\ Indexed(s) /\ n <= MaxProposals
  BY DEF Orderly
<1>1. /\ t.props \in P /\ s.props \in P
      /\ \A i \in 1..n : /\ t.props[i].deposit = s.props[i].deposit /\ t.props[i].closesAt = s.props[i].closesAt
                         /\ i # id => t.props[i] = s.props[i]
      /\ t.props[id].state # "active"
  <2>1. s.props \in P /\ t.props[id].state \in {"passed", "rejected", "failed"}
    BY <1>0 DEF Ending, Decided
  <2> QED
    BY <1>0, <2>1, DecidedProps
<1>2. a \in Accounts /\ x \in Nat /\ x = s.props[id].deposit
  BY <1>1 DEF Stored
<1>3. SumFunctionOnSet(Held(t.props), Opened(t.props)) = s.dep - x /\ s.dep - x \in Nat
  BY <1>0, <1>2, DepositLeaves
<1>4. t \in E /\ t.dep = s.dep /\ t.gen = s.gen /\ t.pl = s.pl /\ t.act = s.act
  BY DEF Decided, Ending
<1>5. act \in SUBSET (Nat \X Gov!IDs)
  BY <1>4
<1>5a. PICK dep, pl, gen : dep = t.dep - x /\ pl = t.pl + x /\ gen = [t.gen EXCEPT ![a] = @ + x]
  OBVIOUS
<1>5b. dep \in Nat /\ pl \in Nat /\ gen \in [Accounts -> Nat]
  <2>1. t.gen \in [Accounts -> Nat] /\ t.pl \in Nat
    BY <1>4
  <2> HIDE DEF a, x, P
  <2> QED
    BY <1>2, <1>3, <1>4, <1>5a, <2>1
<1> HIDE DEF P, a, x, act
<1>6. \/ u = [t EXCEPT !.pl = pl, !.dep = dep, !.act = act]
      \/ u = [t EXCEPT !.gen = gen, !.dep = dep, !.act = act]
  <2>1. CASE t.props[id].state = "rejected"
    <3>1. Gov!Settle(t, id) = [t EXCEPT !.pl = @ + x, !.dep = @ - x]
      BY <2>1 DEF Gov!Settle, x
    <3> QED
      BY <1>4, <1>5a, <3>1 DEF act
  <2>2. CASE t.props[id].state # "rejected"
    <3>1. Gov!Settle(t, id) = [t EXCEPT !.gen[a] = @ + x, !.dep = @ - x]
      BY <2>2 DEF Gov!Settle, x, a
    <3> QED
      BY <1>4, <1>5a, <3>1 DEF act
  <2> QED
    BY <2>1, <2>2
<1>7. /\ u \in E /\ u.props = t.props /\ u.pend = t.pend /\ u.par = t.par /\ u.fail = t.fail
      /\ u.act = act /\ u.dep = s.dep - x
      /\ \/ u.pl = s.pl + x /\ u.gen = s.gen
         \/ u.pl = s.pl /\ u.gen = [s.gen EXCEPT ![a] = @ + x]
  <2>0. dep = s.dep - x /\ pl = s.pl + x /\ gen = [s.gen EXCEPT ![a] = @ + x]
    BY <1>4, <1>5a
  <2>1. CASE u = [t EXCEPT !.pl = pl, !.dep = dep, !.act = act]
    <3>1. /\ u \in E /\ u.props = t.props /\ u.pend = t.pend /\ u.par = t.par /\ u.fail = t.fail
          /\ u.act = act /\ u.dep = dep /\ u.pl = pl /\ u.gen = t.gen
      BY <1>5b, <1>4, <1>5, <2>1
    <3> QED
      BY <1>4, <2>0, <3>1
  <2>2. CASE u = [t EXCEPT !.gen = gen, !.dep = dep, !.act = act]
    <3>1. /\ u \in E /\ u.props = t.props /\ u.pend = t.pend /\ u.par = t.par /\ u.fail = t.fail
          /\ u.act = act /\ u.dep = dep /\ u.pl = t.pl /\ u.gen = gen
      BY <1>5b, <1>4, <1>5, <2>2
    <3> QED
      BY <1>4, <2>0, <3>1
  <2> QED
    BY <1>6, <2>1, <2>2
<1>8. u \in Ending(n)
  BY <1>7 DEF Ending, P
<1>9. DepositsExact(u)
  BY <1>3, <1>7 DEF DepositsExact
<1>10. TokensKept(u)
  <2>0. s.gen \in [Accounts -> Nat] /\ s.dep \in Nat /\ s.pl \in Nat
    BY <1>0 DEF Ending
  <2>1. SumFunctionOnSet(s.gen, Accounts) + s.dep + s.pl = InitialBalance * Cardinality(Accounts)
    BY <1>0 DEF TokensKept
  <2>2. SumFunctionOnSet(s.gen, Accounts) \in Nat
    BY <2>0, AccountsFinite, SumNat
  <2>3. PICK total : total = InitialBalance * Cardinality(Accounts)
    OBVIOUS
  <2>4. CASE u.pl = s.pl + x /\ u.gen = s.gen
    BY <1>2, <1>3, <1>7, <2>0, <2>1, <2>2, <2>4 DEF TokensKept
  <2>5. CASE u.pl = s.pl /\ u.gen = [s.gen EXCEPT ![a] = @ + x]
    <3>1. SumFunctionOnSet(u.gen, Accounts) = SumFunctionOnSet(s.gen, Accounts) - s.gen[a] + u.gen[a]
      <4>1. PICK f, g : f = s.gen /\ g = u.gen
        OBVIOUS
      <4>2. /\ \A y \in Accounts : f[y] \in Int /\ g[y] \in Int
            /\ \A y \in Accounts \ {a} : g[y] = f[y]
        BY <1>2, <2>0, <2>5, <4>1
      <4>3. IsFiniteSet(Accounts)
        BY AccountsFinite
      <4>4. SumFunctionOnSet(g, Accounts) = SumFunctionOnSet(f, Accounts) - f[a] + g[a]
        <5> HIDE <4>1
        <5> QED
          BY <1>2, <4>2, <4>3, SumChange
      <4> QED
        BY <4>1, <4>4
    <3>2. u.gen[a] = s.gen[a] + x /\ s.gen[a] \in Nat
      BY <1>2, <2>0, <2>5
    <3> QED
      BY <1>2, <1>3, <1>7, <2>0, <2>1, <2>2, <2>5, <3>1, <3>2 DEF TokensKept
  <2> QED
    BY <1>7, <2>4, <2>5
<1>11. Indexed(u)
  <2> SUFFICES ASSUME NEW c \in Nat, NEW i \in Gov!IDs
               PROVE  <<c, i>> \in act <=> i \in 1..n /\ t.props[i].state = "active" /\ t.props[i].closesAt = c
    <3>1. DOMAIN t.props = 1..n /\ u.props = t.props /\ u.act = act
      BY <1>1, <1>7 DEF P
    <3> QED
      BY <3>1 DEF Indexed
  <2>1. <<c, i>> \in s.act <=> i \in 1..n /\ s.props[i].state = "active" /\ s.props[i].closesAt = c
    BY <1>0, <1>1 DEF Indexed, P
  <2>2. <<c, i>> \in act <=> <<c, i>> \in s.act /\ ~(c = s.props[id].closesAt /\ i = id)
    BY DEF act
  <2> QED
    BY <1>1, <2>1, <2>2
<1> QED
  BY <1>7, <1>8, <1>9, <1>10, <1>11

\* Of two states of a block: proposals may have ended, nothing else of them
\* has changed.
Progressed(s, t, n) ==
    \A i \in 1..n : /\ t.props[i].content = s.props[i].content /\ t.props[i].closesAt = s.props[i].closesAt
                    /\ s.props[i].state # "active" => t.props[i] = s.props[i]

\* Closing a proposal in its epoch.
LEMMA CloseEffect ==
    ASSUME Gov!GovernanceAssumption, NEW n \in Nat, NEW s, NEW t, NEW id \in 1..n, NEW e \in Nat,
           Orderly(s, n, e), s.props[id].state = "active", s.props[id].closesAt = e,
           t = Gov!CloseProposal(s, id)
    PROVE  /\ Orderly(t, n, e)
           /\ \A i \in 1..n \ {id} : t.props[i] = s.props[i]
           /\ Progressed(s, t, n)
           /\ t.fail = (s.fail \/ Gov!CloseState(votes[id], validators, s.par.threshold) = "error")
           /\ ~t.fail => t.props[id].state # "active"
<1> DEFINE closed == Gov!CloseState(votes[id], validators, s.par.threshold)
           d == IF closed = "passed" THEN Gov!ExecuteProposal(s, id) ELSE [s EXCEPT !.props[id].state = closed]
<1>0. s \in Ending(n) /\ n \in 0..MaxProposals
  BY DEF Orderly
<1>1. closed \in {"error", "rejected", "passed"}
  BY DEF Gov!CloseState
<1> HIDE DEF closed
<1>2. CASE s.fail \/ closed = "error"
  <2>1. t = [s EXCEPT !.fail = TRUE]
    BY <1>2 DEF Gov!CloseProposal, closed
  <2>2. t \in Ending(n) /\ t.props = s.props /\ t.act = s.act /\ t.pend = s.pend /\ t.par = s.par /\ t.gen = s.gen
        /\ t.dep = s.dep /\ t.pl = s.pl /\ t.fail = TRUE
    <3> DEFINE P == [1..n -> Stored]
    <3> HIDE DEF P
    <3>1. s \in [props : P, act : SUBSET (Nat \X Gov!IDs), pend : SUBSET (1..n), par : [Gov!Fields -> Nat],
                 gen : [Accounts -> Nat], dep : Nat, pl : Nat, fail : BOOLEAN]
      BY <1>0 DEF Ending, P
    <3> QED
      BY <2>1, <3>1 DEF Ending, P
  <2>3. Orderly(t, n, e)
    BY <2>2 DEF Orderly, Indexed, PendingExact, DepositsExact, TokensKept
  <2> QED
    BY <1>2, <2>2, <2>3 DEF Progressed, closed
<1>3. CASE ~s.fail /\ closed # "error"
  <2>1. t = [Gov!Settle(d, id) EXCEPT !.act = @ \ {<<s.props[id].closesAt, id>>}]
    BY <1>3 DEF Gov!CloseProposal, closed
  <2>2. d = Gov!ExecuteProposal(s, id) \/ d = [s EXCEPT !.props[id].state = "rejected"]
    BY <1>1, <1>3
  <2> HIDE DEF d
  <2>3. /\ Decided(s, d, n, id)
        /\ UpgradesAhead(d.props) /\ PassedFirst(d.props) /\ PendingExact(d, e)
        /\ Gov!ParamsSane(d.par)
    BY <2>2, ExecuteEffect
  <2>4. /\ t \in Ending(n) /\ t.props = d.props /\ t.pend = d.pend /\ t.par = d.par /\ t.fail = d.fail
        /\ DepositsExact(t) /\ TokensKept(t) /\ Indexed(t)
    BY <2>1, <2>3, SettleEffect
  <2>5. Orderly(t, n, e)
    BY <1>0, <2>3, <2>4 DEF Orderly, PendingExact
  <2>6. \A i \in 1..n : /\ d.props[i].content = s.props[i].content /\ d.props[i].closesAt = s.props[i].closesAt
                        /\ i # id => d.props[i] = s.props[i]
    BY <1>0, <2>3, DecidedProps
  <2>7. Progressed(s, t, n) /\ \A i \in 1..n \ {id} : t.props[i] = s.props[i]
    BY <2>4, <2>6 DEF Progressed
  <2>8. t.fail = s.fail /\ t.props[id].state # "active"
    BY <2>3, <2>4 DEF Decided
  <2>9. s.fail \in BOOLEAN
    BY <1>0 DEF Ending
  <2> QED
    BY <1>3, <2>5, <2>7, <2>8, <2>9 DEF closed
<1> QED
  BY <1>0, <1>2, <1>3

-----------------------------------------------------------------------------
\* The epochs between two upgrades.
Between(props, i, j) == Gov!AbsDiff(props[i].content.epoch, props[j].content.epoch)

\* The distance in force comes from a proposal that passed, and pending upgrades
\* are as far apart as a distance that was in force demands.
ApartIn(s) ==
    /\ s.par["minDiff"] \in Gov!DiffsInForce(s.props)
    /\ \A i, j \in s.pend : i # j =>
           \E diff \in Gov!DiffsInForce(s.props) : Between(s.props, i, j) >= diff

\* A proposal that has passed stays passed.
LEMMA DiffsStay ==
    ASSUME NEW old, NEW new, DOMAIN old \subseteq DOMAIN new,
           \A i \in DOMAIN old : old[i].state = "passed" => new[i] = old[i]
    PROVE  Gov!DiffsInForce(old) \subseteq Gov!DiffsInForce(new)
BY DEF Gov!DiffsInForce

\* The distance does not depend on the order.
LEMMA BetweenTyped ==
    ASSUME Gov!GovernanceAssumption, NEW n \in Nat, NEW s, NEW e \in Nat, Orderly(s, n, e), NEW i \in 1..n, NEW j \in 1..n,
           s.props[i].content.kind = "upgrade", s.props[j].content.kind = "upgrade"
    PROVE  Between(s.props, i, j) \in Nat /\ Between(s.props, i, j) = Between(s.props, j, i)
<1>1. s.props[i].content \in Gov!Contents /\ s.props[j].content \in Gov!Contents
  BY DEF Orderly, Ending, Stored
<1>2. s.props[i].content.epoch \in Nat /\ s.props[j].content.epoch \in Nat
  BY <1>1, ContentParts
<1> QED
  BY <1>2 DEF Between, Gov!AbsDiff

\* Pending upgrades stay apart.
LEMMA ApartKept ==
    ASSUME Gov!GovernanceAssumption, NEW n \in Nat, NEW s, NEW t, NEW id \in 1..n, NEW e \in Nat,
           Orderly(s, n, e), s.props[id].state = "active", s.props[id].closesAt = e,
           t = Gov!CloseProposal(s, id), ApartIn(s)
    PROVE  ApartIn(t)
<1> DEFINE closed == Gov!CloseState(votes[id], validators, s.par.threshold)
           d == IF closed = "passed" THEN Gov!ExecuteProposal(s, id) ELSE [s EXCEPT !.props[id].state = closed]
           c == s.props[id].content
<1>0. /\ s \in Ending(n) /\ s.props \in [1..n -> Stored] /\ s.pend \in SUBSET (1..n) /\ s.par \in [Gov!Fields -> Nat]
      /\ DOMAIN s.props = 1..n
  BY DEF Orderly, Ending
<1>1. CASE s.fail \/ closed = "error"
  <2>1. t = [s EXCEPT !.fail = TRUE]
    BY <1>1 DEF Gov!CloseProposal
  <2>2. t.props = s.props /\ t.pend = s.pend /\ t.par = s.par
    BY <1>0, <2>1 DEF Ending
  <2> QED
    BY <2>2 DEF ApartIn
<1>2. CASE ~s.fail /\ closed # "error"
  <2>0. closed \in {"error", "rejected", "passed"}
    BY DEF Gov!CloseState
  <2> HIDE DEF closed
  <2>1. t = [Gov!Settle(d, id) EXCEPT !.act = @ \ {<<s.props[id].closesAt, id>>}]
    BY <1>2 DEF Gov!CloseProposal, closed
  <2>2. d = Gov!ExecuteProposal(s, id) \/ d = [s EXCEPT !.props[id].state = "rejected"]
    BY <2>0, <1>2
  <2> HIDE DEF d
  <2>3. Decided(s, d, n, id)
    BY <2>2, ExecuteEffect
  <2>4. /\ t \in Ending(n) /\ t.props = d.props /\ t.pend = d.pend /\ t.par = d.par /\ t.fail = d.fail
        /\ DepositsExact(t) /\ TokensKept(t) /\ Indexed(t)
    BY <2>1, <2>3, SettleEffect
  <2>5. \A i \in 1..n : d.props[i].content = s.props[i].content
    BY <1>0, <2>3, DecidedProps
  <2>6. \A i, j \in 1..n : Between(t.props, i, j) = Between(s.props, i, j)
    BY <2>4, <2>5 DEF Between
  <2>7. \/ d.pend \subseteq s.pend /\ d.par = s.par
        \/ /\ d.pend = s.pend /\ c.kind = "change" /\ d.par = Gov!Apply(s.par, c.change)
           /\ d = [s EXCEPT !.par = Gov!Apply(s.par, c.change), !.props[id].state = "passed"]
        \/ d.pend = s.pend \cup {id} /\ d.par = s.par /\ c.kind = "upgrade" /\ Gov!ClearOfPending(s.props, s.pend, s.par, c.epoch)
    <3>1. c \in Gov!Contents
      BY <1>0 DEF Stored
    <3>2. c.kind \in {"upgrade", "cancel", "change"}
      BY <3>1, ContentParts
    <3>3. CASE d = [s EXCEPT !.props[id].state = "rejected"] \/ d = [s EXCEPT !.props[id].state = "failed"]
      BY <1>0, <3>3 DEF Ending
    <3>4. CASE d = Gov!ExecuteUpgrade(s, id) /\ c.kind = "upgrade" /\ d # [s EXCEPT !.props[id].state = "failed"]
      BY <1>0, <3>4 DEF Ending, Gov!ExecuteUpgrade
    <3>5. CASE d = Gov!ExecuteCancel(s, id) /\ d # [s EXCEPT !.props[id].state = "failed"]
      BY <1>0, <3>5 DEF Ending, Gov!ExecuteCancel
    <3>6. CASE d = Gov!ExecuteChange(s, id) /\ c.kind = "change" /\ d # [s EXCEPT !.props[id].state = "failed"]
      <4>1. PICK par : par = Gov!Apply(s.par, c.change)
        OBVIOUS
      <4>2. d = [s EXCEPT !.par = par, !.props[id].state = "passed"]
        BY <3>6, <4>1 DEF Gov!ExecuteChange
      <4>3. d.pend = s.pend /\ d.par = par
        BY <1>0, <4>2 DEF Ending
      <4> QED
        BY <3>6, <4>1, <4>2, <4>3
    <3> QED
      BY <2>2, <3>2, <3>3, <3>4, <3>5, <3>6 DEF Gov!ExecuteProposal
  <2>11. Gov!DiffsInForce(s.props) \subseteq Gov!DiffsInForce(t.props)
    <3>1. \A i \in 1..n : s.props[i].state = "passed" => d.props[i] = s.props[i]
      BY <1>0, <2>3, DecidedProps
    <3>2. DOMAIN t.props = 1..n
      BY <2>4 DEF Ending
    <3> QED
      BY <1>0, <2>4, <3>1, <3>2, DiffsStay
  <2>8. CASE d.pend \subseteq s.pend /\ d.par = s.par
    BY <1>0, <2>4, <2>6, <2>11, <2>8 DEF ApartIn
  <2>9. CASE /\ d.pend = s.pend /\ c.kind = "change" /\ d.par = Gov!Apply(s.par, c.change)
             /\ d = [s EXCEPT !.par = Gov!Apply(s.par, c.change), !.props[id].state = "passed"]
    <3>1. c \in Gov!Contents
      BY <1>0 DEF Stored
    <3>2. c.change \in ParamChanges /\ c.change.field \in Gov!Fields /\ c.change.value \in Nat
      BY <2>9, <3>1, ContentParts
    <3>3. /\ c.change.field # "minDiff" => d.par["minDiff"] = s.par["minDiff"]
          /\ c.change.field = "minDiff" => d.par["minDiff"] = c.change.value
      BY <1>0, <2>9, <3>2, ApplyTyped
    <3>4. d.props[id].state = "passed" /\ d.props[id].content = c
      <4>1. d.props = WithState(s.props, id, "passed")
        BY <1>0, <2>9 DEF Ending, WithState
      <4> QED
        BY <1>0, <2>5, <4>1, StateOnly DEF States
    <3>5. c.change.field = "minDiff" => c.change.value \in Gov!DiffsInForce(t.props)
      <4>1. t.props[id].state = "passed" /\ t.props[id].content = c /\ id \in DOMAIN t.props
        BY <2>4, <3>4 DEF Ending
      <4> QED
        BY <2>9, <4>1 DEF Gov!DiffsInForce
    <3>6. t.par["minDiff"] \in Gov!DiffsInForce(t.props)
      BY <2>4, <2>11, <3>3, <3>5 DEF ApartIn
    <3>7. t.pend = s.pend
      BY <2>4, <2>9
    <3> QED
      BY <1>0, <2>6, <2>11, <3>6, <3>7 DEF ApartIn
  <2>10. CASE d.pend = s.pend \cup {id} /\ d.par = s.par /\ c.kind = "upgrade" /\ Gov!ClearOfPending(s.props, s.pend, s.par, c.epoch)
    <3>1. ASSUME NEW i \in s.pend PROVE Between(s.props, i, id) >= s.par["minDiff"] /\ Between(s.props, id, i) >= s.par["minDiff"]
      <4>1. s.props[i].content.kind = "upgrade" /\ i \in 1..n
        BY <1>0 DEF Orderly, PendingExact, Waits
      <4>2. Between(s.props, i, id) = Between(s.props, id, i)
        BY <2>10, <4>1, BetweenTyped
      <4>3. Between(s.props, i, id) >= s.par["minDiff"]
        BY <2>10 DEF Gov!ClearOfPending, Between
      <4> QED
        BY <4>2, <4>3
    <3>2. t.par["minDiff"] = s.par["minDiff"] /\ s.par["minDiff"] \in Gov!DiffsInForce(t.props)
      BY <2>4, <2>10, <2>11 DEF ApartIn
    <3>3. ASSUME NEW i \in t.pend, NEW j \in t.pend, i # j
          PROVE  \E diff \in Gov!DiffsInForce(t.props) : Between(t.props, i, j) >= diff
      <4>1. i \in 1..n /\ j \in 1..n /\ (i \in s.pend \/ i = id) /\ (j \in s.pend \/ j = id)
        BY <1>0, <2>4, <2>10, <3>3
      <4>2. CASE i \in s.pend /\ j \in s.pend
        BY <2>6, <2>11, <3>3, <4>1, <4>2 DEF ApartIn
      <4>3. CASE i = id /\ j \in s.pend
        BY <2>6, <3>1, <3>2, <4>1, <4>3
      <4>4. CASE i \in s.pend /\ j = id
        BY <2>6, <3>1, <3>2, <4>1, <4>4
      <4> QED
        BY <3>3, <4>1, <4>2, <4>3, <4>4
    <3> QED
      BY <3>2, <3>3 DEF ApartIn
  <2> QED
    BY <2>7, <2>8, <2>9, <2>10
<1> QED
  BY <1>0, <1>1, <1>2

\* Voting takes at least one epoch.
VotingTakesTime ==
    /\ GenesisParams["votingPeriod"] > 0
    /\ \A c \in ParamChanges : c.field = "votingPeriod" => c.value > 0

\* The voting period stays positive.
LEMMA PeriodKept ==
    ASSUME Gov!GovernanceAssumption, VotingTakesTime, NEW n \in Nat, NEW s, NEW t, NEW id \in 1..n, NEW e \in Nat,
           Orderly(s, n, e), s.props[id].state = "active", s.props[id].closesAt = e,
           t = Gov!CloseProposal(s, id), s.par["votingPeriod"] > 0
    PROVE  t.par["votingPeriod"] > 0
<1> DEFINE closed == Gov!CloseState(votes[id], validators, s.par.threshold)
           d == IF closed = "passed" THEN Gov!ExecuteProposal(s, id) ELSE [s EXCEPT !.props[id].state = closed]
           c == s.props[id].content
<1>0. /\ s \in Ending(n) /\ s.props \in [1..n -> Stored] /\ s.par \in [Gov!Fields -> Nat]
  BY DEF Orderly, Ending
<1>1. CASE s.fail \/ closed = "error"
  <2>1. t = [s EXCEPT !.fail = TRUE]
    BY <1>1 DEF Gov!CloseProposal
  <2> QED
    BY <1>0, <2>1 DEF Ending
<1>2. CASE ~s.fail /\ closed # "error"
  <2>0. closed \in {"error", "rejected", "passed"}
    BY DEF Gov!CloseState
  <2> HIDE DEF closed
  <2>1. t = [Gov!Settle(d, id) EXCEPT !.act = @ \ {<<s.props[id].closesAt, id>>}]
    BY <1>2 DEF Gov!CloseProposal, closed
  <2>2. d = Gov!ExecuteProposal(s, id) \/ d = [s EXCEPT !.props[id].state = "rejected"]
    BY <2>0, <1>2
  <2> HIDE DEF d
  <2>3. Decided(s, d, n, id)
    BY <2>2, ExecuteEffect
  <2>4. /\ t \in Ending(n) /\ t.props = d.props /\ t.pend = d.pend /\ t.par = d.par /\ t.fail = d.fail
        /\ DepositsExact(t) /\ TokensKept(t) /\ Indexed(t)
    BY <2>1, <2>3, SettleEffect
  <2>5. c \in Gov!Contents
    BY <1>0 DEF Stored
  <2>6. c.kind \in {"upgrade", "cancel", "change"}
        /\ (c.kind = "change" => c.change \in ParamChanges /\ c.change.field \in Gov!Fields /\ c.change.value \in Nat)
    BY <2>5, ContentParts
  <2>7. d.par = s.par \/ (c.kind = "change" /\ d.par = Gov!Apply(s.par, c.change))
    <3>1. CASE d = [s EXCEPT !.props[id].state = "rejected"] \/ d = [s EXCEPT !.props[id].state = "failed"]
      BY <1>0, <3>1 DEF Ending
    <3>2. CASE d = Gov!ExecuteUpgrade(s, id) /\ d # [s EXCEPT !.props[id].state = "failed"]
      BY <1>0, <3>2 DEF Ending, Gov!ExecuteUpgrade
    <3>3. CASE d = Gov!ExecuteCancel(s, id) /\ d # [s EXCEPT !.props[id].state = "failed"]
      BY <1>0, <3>3 DEF Ending, Gov!ExecuteCancel
    <3>4. CASE d = Gov!ExecuteChange(s, id) /\ c.kind = "change" /\ d # [s EXCEPT !.props[id].state = "failed"]
      <4>1. PICK par : par = Gov!Apply(s.par, c.change)
        OBVIOUS
      <4>2. d = [s EXCEPT !.par = par, !.props[id].state = "passed"]
        BY <3>4, <4>1 DEF Gov!ExecuteChange
      <4>3. d.par = par
        BY <1>0, <4>2 DEF Ending
      <4> QED
        BY <3>4, <4>1, <4>3
    <3> QED
      BY <2>2, <2>6, <3>1, <3>2, <3>3, <3>4 DEF Gov!ExecuteProposal
  <2>8. CASE d.par = s.par
    BY <2>4, <2>8
  <2>9. CASE c.kind = "change" /\ d.par = Gov!Apply(s.par, c.change)
    <3>1. d.par["votingPeriod"] = IF c.change.field = "votingPeriod" THEN c.change.value ELSE s.par["votingPeriod"]
      BY <1>0, <2>6, <2>9 DEF Gov!Apply, Gov!Fields
    <3> QED
      BY <2>4, <2>6, <2>9, <3>1 DEF VotingTakesTime
  <2> QED
    BY <2>7, <2>8, <2>9
<1> QED
  BY <1>0, <1>1, <1>2

-----------------------------------------------------------------------------
\* Every proposal to close can be tallied.
NoErrors == \A id \in Gov!Closing, th \in Nat : Gov!CloseState(votes[id], validators, th) # "error"

\* The trace of closing the proposals that are due.
LEMMA CloseTrace ==
    ASSUME Gov!GovernanceAssumption, NEW s
    PROVE  \E r : /\ r[0] = s /\ Gov!CloseAll(s) = r[MaxProposals]
                  /\ \A i \in 1..MaxProposals : r[i] = Gov!CloseDue(r[i - 1], i)
<1> DEFINE q == [i \in Gov!IDs |-> i]
           k == MaxProposals
           Is(h) == h = [S \in SUBSET DOMAIN q |->
                            IF S = {} THEN s ELSE Gov!CloseDue(h[S \ {Gov!Max(S)}], q[Gov!Max(S)])]
           it == CHOOSE h : Is(h)
<1>1. k \in Nat /\ DOMAIN q = 1..k /\ \A i \in 1..k : q[i] = i
  BY DEF Gov!GovernanceAssumption, Gov!IDs
<1>2. ASSUME NEW h PROVE FoldOver("close", 0, s, q, 1..k, h) <=> Is(h)
  <2> HIDE DEF q, k
  <2> QED
    BY <1>1 DEF FoldOver, Step
<1>3. Gov!CloseAll(s) = it[DOMAIN q]
  BY DEF Gov!CloseAll, Gov!FoldLeft, Gov!MapThenFoldSet
<1>4. \E h : Is(h)
  <2> HIDE DEF Is, q, k
  <2> QED
    BY <1>1, <1>2, FoldExists
<1>5. Is(it)
  <2> HIDE DEF Is
  <2> QED
    BY <1>4, Zenon
<1> HIDE DEF it, q, k
<1>6. FoldOver("close", 0, s, q, 1..k, it)
  BY <1>2, <1>5
<1>7. PICK r : IsTrace("close", 0, s, q, k, r) /\ it[1..k] = r[k]
  BY <1>1, <1>6, FoldTrace
<1>8. /\ r[0] = s /\ Gov!CloseAll(s) = r[k]
      /\ \A i \in 1..k : r[i] = Gov!CloseDue(r[i - 1], i)
  BY <1>1, <1>3, <1>7 DEF IsTrace, Step
<1> QED
  BY <1>8 DEF k

\* The end of a block with an epoch transition.
LEMMA CloseAllEffect ==
    ASSUME Gov!GovernanceAssumption, NEW n \in Nat, NEW s, NEW t, epoch \in Nat,
           Orderly(s, n, epoch), s.act = active, t = Gov!CloseAll(s)
    PROVE  /\ Orderly(t, n, epoch) /\ Progressed(s, t, n)
           /\ \A i \in 1..n \ Gov!Closing : t.props[i] = s.props[i]
           /\ NoErrors => t.fail = s.fail
           /\ ~t.fail => \A i \in Gov!Closing : t.props[i].state # "active"
           /\ ApartIn(s) => ApartIn(t)
           /\ VotingTakesTime /\ s.par["votingPeriod"] > 0 => t.par["votingPeriod"] > 0
<1>1. PICK r : /\ r[0] = s /\ t = r[MaxProposals]
               /\ \A i \in 1..MaxProposals : r[i] = Gov!CloseDue(r[i - 1], i)
  BY CloseTrace
<1>2. MaxProposals \in Nat /\ n \in 0..MaxProposals /\ s.props \in [1..n -> Stored]
  BY DEF Gov!GovernanceAssumption, Orderly, Ending
<1>3. \A i \in Gov!Closing : i \in 1..n /\ s.props[i].state = "active" /\ s.props[i].closesAt = epoch
  <2>1. DOMAIN s.props = 1..n
    BY <1>2
  <2> QED
    BY <2>1 DEF Gov!Closing, Orderly, Indexed
<1> DEFINE J(i) == /\ Orderly(r[i], n, epoch) /\ Progressed(s, r[i], n)
                   /\ \A j \in 1..n : j \notin Gov!Closing \/ j > i => r[i].props[j] = s.props[j]
                   /\ NoErrors => r[i].fail = s.fail
                   /\ ~r[i].fail => \A j \in Gov!Closing : j <= i => r[i].props[j].state # "active"
                   /\ ApartIn(s) => ApartIn(r[i])
                   /\ VotingTakesTime /\ s.par["votingPeriod"] > 0 => r[i].par["votingPeriod"] > 0
           F == {i \in Nat : i <= MaxProposals => J(i)}
<1>4. 0 \in F
  <2>1. \A j \in Gov!Closing : ~(j <= 0)
    BY <1>3
  <2> QED
    BY <1>1, <2>1 DEF Progressed
<1>5. ASSUME NEW i \in Nat, i \in F PROVE i + 1 \in F
  <2> SUFFICES ASSUME i + 1 <= MaxProposals PROVE J(i + 1)
    OBVIOUS
  <2>1. J(i) /\ i + 1 \in 1..MaxProposals /\ (i + 1) - 1 = i
    BY <1>2, <1>5
  <2>2. PICK a, b, k : a = r[i] /\ b = r[i + 1] /\ k = i + 1
    OBVIOUS
  <2>3. b = Gov!CloseDue(a, k)
    BY <1>1, <2>1, <2>2
  <2>4. /\ Orderly(a, n, epoch) /\ Progressed(s, a, n)
        /\ \A j \in 1..n : j \notin Gov!Closing \/ j > i => a.props[j] = s.props[j]
        /\ NoErrors => a.fail = s.fail
        /\ ~a.fail => \A j \in Gov!Closing : j <= i => a.props[j].state # "active"
        /\ ApartIn(s) => ApartIn(a)
        /\ VotingTakesTime /\ s.par["votingPeriod"] > 0 => a.par["votingPeriod"] > 0
    BY <2>1, <2>2
  <2>5. CASE k \notin Gov!Closing
    <3>1. b = a
      BY <2>3, <2>5 DEF Gov!CloseDue
    <3>2. \A j \in Gov!Closing : j <= k => j <= i
      BY <1>3, <2>2, <2>5
    <3>3. \A j \in 1..n : j > k => j > i
      BY <2>2
    <3>4. /\ Orderly(b, n, epoch) /\ Progressed(s, b, n)
          /\ \A j \in 1..n : j \notin Gov!Closing \/ j > k => b.props[j] = s.props[j]
          /\ NoErrors => b.fail = s.fail
          /\ ~b.fail => \A j \in Gov!Closing : j <= k => b.props[j].state # "active"
          /\ ApartIn(s) => ApartIn(b)
          /\ VotingTakesTime /\ s.par["votingPeriod"] > 0 => b.par["votingPeriod"] > 0
      BY <2>4, <3>1, <3>2, <3>3
    <3> QED
      BY <2>2, <3>4
  <2>6. CASE k \in Gov!Closing
    <3>0. k \in 1..n /\ k > i
      BY <1>3, <2>2, <2>6
    <3>1. b = Gov!CloseProposal(a, k)
      BY <2>3, <2>6 DEF Gov!CloseDue
    <3>2. a.props[k].state = "active" /\ a.props[k].closesAt = epoch
      BY <1>3, <2>4, <2>6, <3>0
    <3>3. /\ Orderly(b, n, epoch)
          /\ \A j \in 1..n \ {k} : b.props[j] = a.props[j]
          /\ Progressed(a, b, n)
          /\ b.fail = (a.fail \/ Gov!CloseState(votes[k], validators, a.par.threshold) = "error")
          /\ ~b.fail => b.props[k].state # "active"
      BY <2>4, <3>0, <3>1, <3>2, CloseEffect
    <3>4. ApartIn(s) => ApartIn(b)
      BY <2>4, <3>0, <3>1, <3>2, ApartKept
    <3>4a. VotingTakesTime /\ s.par["votingPeriod"] > 0 => b.par["votingPeriod"] > 0
      BY <2>4, <3>0, <3>1, <3>2, PeriodKept
    <3>5. Progressed(s, b, n)
      BY <2>4, <3>3 DEF Progressed
    <3>6. ASSUME NEW j \in 1..n, j \notin Gov!Closing \/ j > k PROVE b.props[j] = s.props[j]
      <4>1. j # k /\ (j \notin Gov!Closing \/ j > i)
        BY <2>2, <2>6, <3>6
      <4> QED
        BY <2>4, <3>3, <4>1
    <3>7. ASSUME NoErrors PROVE b.fail = s.fail
      <4>1. a.par.threshold \in Nat /\ a.fail \in BOOLEAN
        BY <2>4 DEF Orderly, Ending, Gov!Fields
      <4>2. Gov!CloseState(votes[k], validators, a.par.threshold) # "error"
        BY <2>6, <3>7, <4>1 DEF NoErrors
      <4> QED
        BY <2>4, <3>3, <3>7, <4>1, <4>2
    <3>8. ASSUME ~b.fail, NEW j \in Gov!Closing, j <= k PROVE b.props[j].state # "active"
      <4>1. a.fail \in BOOLEAN
        BY <2>4 DEF Orderly, Ending
      <4>2. ~a.fail
        BY <3>3, <3>8, <4>1
      <4>3. CASE j = k
        BY <3>3, <3>8, <4>3
      <4>4. CASE j # k
        <5>1. j <= i /\ j \in 1..n
          BY <1>3, <2>2, <3>8, <4>4
        <5> QED
          BY <2>4, <3>3, <3>8, <4>2, <4>4, <5>1
      <4> QED
        BY <4>3, <4>4
    <3> QED
      BY <2>2, <3>3, <3>4, <3>4a, <3>5, <3>6, <3>7, <3>8
  <2> QED
    BY <2>5, <2>6
<1>6. \A i \in Nat : i \in F
  <2> HIDE DEF F
  <2> QED
    BY <1>4, <1>5, NatSetInduction
<1>7. J(MaxProposals)
  BY <1>2, <1>6
<1>8. \A i \in Gov!Closing : i <= MaxProposals
  BY <1>2, <1>3
<1> QED
  BY <1>1, <1>7, <1>8

-----------------------------------------------------------------------------
(***************************************************************************)
(* The tally.                                                               *)
(***************************************************************************)

\* A sum over a subset is the sum over the set with zeros for the rest.
LEMMA SumWhere ==
    ASSUME NEW f, NEW g, NEW S, IsFiniteSet(S), NEW V \in SUBSET S, \A x \in V : f[x] \in Int,
           \A x \in S : g[x] = IF x \in V THEN f[x] ELSE 0
    PROVE  SumFunctionOnSet(f, V) = SumFunctionOnSet(g, S)
<1> DEFINE F == {T \in SUBSET S : SumFunctionOnSet(f, V \cap T) = SumFunctionOnSet(g, T)}
<1>1. {} \in F
  <2>1. V \cap {} = {}
    OBVIOUS
  <2> QED
    BY <2>1, SumEmpty
<1>2. ASSUME NEW T \in SUBSET S, NEW x \in S \ T, T \in F PROVE T \cup {x} \in F
  <2>1. /\ IsFiniteSet(T \cup {x}) /\ IsFiniteSet(V \cap (T \cup {x})) /\ IsFiniteSet(T) /\ x \in T \cup {x}
        /\ (T \cup {x}) \ {x} = T /\ T \cup {x} \in SUBSET S
    <3>1. T \cup {x} \in SUBSET S /\ V \cap (T \cup {x}) \in SUBSET S /\ T \in SUBSET S
      OBVIOUS
    <3> QED
      BY <1>2, <3>1, FS_Subset
  <2>2. \A y \in T \cup {x} : g[y] \in Int
    OBVIOUS
  <2>3. SumFunctionOnSet(g, T \cup {x}) = g[x] + SumFunctionOnSet(g, T)
    <3> DEFINE U == T \cup {x}
    <3>1. IsFiniteSet(U) /\ x \in U /\ (\A y \in U : g[y] \in Int) /\ U \ {x} = T
      BY <2>1, <2>2
    <3> HIDE DEF U
    <3>2. SumFunctionOnSet(g, U) = g[x] + SumFunctionOnSet(g, U \ {x})
      BY <3>1, SumRemove
    <3> QED
      BY <3>1, <3>2 DEF U
  <2>4. SumFunctionOnSet(g, T) \in Int
    BY <2>1, <2>2, SumInt
  <2>5. CASE x \in V
    <3> DEFINE U == V \cap (T \cup {x})
    <3>1. IsFiniteSet(U) /\ x \in U /\ (\A y \in U : f[y] \in Int) /\ U \ {x} = V \cap T /\ g[x] = f[x]
      BY <1>2, <2>1, <2>5
    <3> HIDE DEF U
    <3>2. SumFunctionOnSet(f, U) = f[x] + SumFunctionOnSet(f, U \ {x})
      BY <3>1, SumRemove
    <3>3. SumFunctionOnSet(f, U) = SumFunctionOnSet(g, T \cup {x})
      BY <1>2, <2>3, <3>1, <3>2
    <3> QED
      BY <2>1, <3>3 DEF U
  <2>6. CASE x \notin V
    <3>1. V \cap (T \cup {x}) = V \cap T /\ g[x] = 0
      BY <2>6
    <3>2. SumFunctionOnSet(g, T \cup {x}) = SumFunctionOnSet(g, T)
      BY <2>3, <2>4, <3>1
    <3>3. SumFunctionOnSet(f, V \cap T) = SumFunctionOnSet(g, T)
      BY <1>2
    <3>4. SumFunctionOnSet(f, V \cap (T \cup {x})) = SumFunctionOnSet(g, T \cup {x})
      BY <3>1, <3>2, <3>3
    <3> QED
      BY <2>1, <3>4
  <2> QED
    BY <2>5, <2>6
<1>3. S \in F
  <2> HIDE DEF F
  <2> QED
    BY <1>1, <1>2, FiniteSetInduction
<1>4. V \cap S = V
  OBVIOUS
<1> QED
  BY <1>3, <1>4

\* A sum of smaller numbers is not larger.
LEMMA SumLe ==
    ASSUME NEW f, NEW g, NEW S, IsFiniteSet(S), \A x \in S : f[x] \in Int /\ g[x] \in Int /\ f[x] <= g[x]
    PROVE  SumFunctionOnSet(f, S) <= SumFunctionOnSet(g, S)
<1> DEFINE d == [x \in S |-> g[x] - f[x]]
<1>1. \A x \in S : f[x] \in Int /\ d[x] \in Int /\ g[x] = f[x] + d[x] /\ d[x] \in Nat
  OBVIOUS
<1> HIDE DEF d
<1>2. SumFunctionOnSet(g, S) = SumFunctionOnSet(f, S) + SumFunctionOnSet(d, S)
  BY <1>1, SumPlus
<1>3. SumFunctionOnSet(d, S) \in Nat /\ SumFunctionOnSet(f, S) \in Int
  BY <1>1, SumNat, SumInt
<1> QED
  BY <1>2, <1>3

\* What the accounts have voted on one proposal.
Ballots == [Accounts -> Gov!Votes \cup {Gov!NoVote}]

\* What is counted for x of the shares of one account: with the validator's
\* vote, what its own vote moves, and in the end.
WithValidator(ballot, v, x) == [a \in Accounts |-> IF x = ballot[v] THEN Delegations[a][v] ELSE 0]

Moved(ballot, v, x) ==
    [a \in Accounts |->
        IF ballot[a] = Gov!NoVote \/ ballot[a] = ballot[v] THEN 0
        ELSE (IF x = ballot[a] THEN Delegations[a][v] ELSE 0) - (IF x = ballot[v] THEN Delegations[a][v] ELSE 0)]

For(ballot, v, x) == {a \in Accounts : ballot[a] = x \/ (ballot[a] = Gov!NoVote /\ ballot[v] = x)}

Counted(ballot, v, x) == [a \in Accounts |-> IF a \in For(ballot, v, x) THEN Delegations[a][v] ELSE 0]

\* The types of these.
LEMMA CountedTyped ==
    ASSUME Gov!GovernanceAssumption, NEW ballot \in Ballots, NEW v \in Entities, NEW x \in Gov!Votes, NEW a \in Accounts
    PROVE  /\ Delegations[a][v] \in Nat
           /\ WithValidator(ballot, v, x)[a] \in Int /\ Moved(ballot, v, x)[a] \in Int /\ Counted(ballot, v, x)[a] \in Nat
           /\ Counted(ballot, v, x)[a] = WithValidator(ballot, v, x)[a] + Moved(ballot, v, x)[a]
<1>1. PICK d : d = Delegations[a][v] /\ d \in Nat
  BY DEF Gov!GovernanceAssumption
<1>2. ballot[a] \in Gov!Votes \cup {Gov!NoVote} /\ ballot[v] \in Gov!Votes \cup {Gov!NoVote} /\ x # Gov!NoVote
  BY DEF Ballots, Gov!Votes, Gov!NoVote, Gov!GovernanceAssumption
<1>3. WithValidator(ballot, v, x)[a] = IF x = ballot[v] THEN d ELSE 0
  BY <1>1 DEF WithValidator
<1>4. Moved(ballot, v, x)[a] = IF ballot[a] = Gov!NoVote \/ ballot[a] = ballot[v] THEN 0
                               ELSE (IF x = ballot[a] THEN d ELSE 0) - (IF x = ballot[v] THEN d ELSE 0)
  BY <1>1 DEF Moved
<1>5. Counted(ballot, v, x)[a] = IF ballot[a] = x \/ (ballot[a] = Gov!NoVote /\ ballot[v] = x) THEN d ELSE 0
  BY <1>1 DEF Counted, For
<1> QED
  BY <1>1, <1>2, <1>3, <1>4, <1>5

\* The trace of a tally.
LEMMA TallyTrace ==
    ASSUME Gov!GovernanceAssumption, NEW ballot \in Ballots, NEW v \in Entities
    PROVE  \E r : /\ r[0] = [x \in Gov!Votes |-> IF x = ballot[v] THEN Gov!TotalShares(v) ELSE 0]
                  /\ Gov!VoteShares(ballot, v) = r[Cardinality(Accounts)]
                  /\ \A i \in 1..Cardinality(Accounts) : r[i] = Turn(ballot, v, r[i - 1], Gov!SetToSeq(Accounts)[i])
<1> DEFINE q == Gov!SetToSeq(Accounts)
           k == Cardinality(Accounts)
           base == [x \in Gov!Votes |-> IF x = ballot[v] THEN Gov!TotalShares(v) ELSE 0]
           Is(h) == h = [S \in SUBSET DOMAIN q |->
                            IF S = {} THEN base ELSE Turn(ballot, v, h[S \ {Gov!Max(S)}], q[Gov!Max(S)])]
           it == CHOOSE h : Is(h)
<1>1. k \in Nat /\ DOMAIN q = 1..k
  BY AccountsFinite, SeqOfSet
<1>2. ASSUME NEW h PROVE FoldOver("vote", <<ballot, v>>, base, q, 1..k, h) <=> Is(h)
  <2> HIDE DEF q, k, base
  <2> QED
    BY <1>1 DEF FoldOver, Step
<1>3. Gov!VoteShares(ballot, v) = it[DOMAIN q]
  BY DEF Gov!VoteShares, Gov!FoldLeft, Gov!MapThenFoldSet, Turn
<1>4. \E h : Is(h)
  <2> HIDE DEF Is, q, k, base
  <2> QED
    BY <1>1, <1>2, FoldExists
<1>5. Is(it)
  <2> HIDE DEF Is
  <2> QED
    BY <1>4, Zenon
<1> HIDE DEF it, q, k, base
<1>6. FoldOver("vote", <<ballot, v>>, base, q, 1..k, it)
  BY <1>2, <1>5
<1>7. PICK r : IsTrace("vote", <<ballot, v>>, base, q, k, r) /\ it[1..k] = r[k]
  BY <1>1, <1>6, FoldTrace
<1>8. /\ r[0] = base /\ Gov!VoteShares(ballot, v) = r[k]
      /\ \A i \in 1..k : r[i] = Turn(ballot, v, r[i - 1], q[i])
  BY <1>1, <1>3, <1>7 DEF IsTrace, Step
<1> QED
  BY <1>8 DEF k, q, base

\* One turn adds what the account moves.
LEMMA TurnEffect ==
    ASSUME Gov!GovernanceAssumption, NEW ballot \in Ballots, NEW v \in Entities, NEW a \in Accounts, NEW t \in [Gov!Votes -> Int]
    PROVE  /\ Turn(ballot, v, t, a) \in [Gov!Votes -> Int]
           /\ \A x \in Gov!Votes : Turn(ballot, v, t, a)[x] = t[x] + Moved(ballot, v, x)[a]
<1>1. PICK d : d = Delegations[a][v] /\ d \in Nat
  BY DEF Gov!GovernanceAssumption
<1>2. ASSUME NEW x \in Gov!Votes
      PROVE  Moved(ballot, v, x)[a] = IF ballot[a] = Gov!NoVote \/ ballot[a] = ballot[v] THEN 0
                               ELSE (IF x = ballot[a] THEN d ELSE 0) - (IF x = ballot[v] THEN d ELSE 0)
  BY <1>1 DEF Moved
<1>3. Turn(ballot, v, t, a) =
          IF ballot[a] = Gov!NoVote \/ d = 0 \/ ballot[v] = ballot[a] THEN t
          ELSE [x \in Gov!Votes |-> t[x] + (IF x = ballot[a] THEN d ELSE 0) - (IF x = ballot[v] THEN d ELSE 0)]
  BY <1>1 DEF Turn, Gov!DelegatorVote
<1>4. CASE ballot[a] = Gov!NoVote \/ d = 0 \/ ballot[v] = ballot[a]
  <2>1. Turn(ballot, v, t, a) = t
    BY <1>3, <1>4
  <2>2. \A x \in Gov!Votes : Moved(ballot, v, x)[a] = 0
    BY <1>1, <1>2, <1>4
  <2> QED
    BY <2>1, <2>2
<1>5. CASE ~(ballot[a] = Gov!NoVote \/ d = 0 \/ ballot[v] = ballot[a])
  <2>1. Turn(ballot, v, t, a) = [x \in Gov!Votes |-> t[x] + (IF x = ballot[a] THEN d ELSE 0) - (IF x = ballot[v] THEN d ELSE 0)]
    BY <1>3, <1>5
  <2>2. \A x \in Gov!Votes : Moved(ballot, v, x)[a] = (IF x = ballot[a] THEN d ELSE 0) - (IF x = ballot[v] THEN d ELSE 0)
    BY <1>2, <1>5
  <2>3. \A x \in Gov!Votes : t[x] \in Int
    OBVIOUS
  <2> QED
    BY <1>1, <2>1, <2>2, <2>3
<1> QED
  BY <1>4, <1>5

\* The shares of a validator for a vote are those of who voted so, and of who
\* did not vote if the validator did.
LEMMA SharesCounted ==
    ASSUME Gov!GovernanceAssumption, NEW ballot \in Ballots, NEW v \in Entities, NEW x \in Gov!Votes
    PROVE  Gov!VoteShares(ballot, v)[x] = SumFunctionOnSet(Counted(ballot, v, x), Accounts)
<1>0. IsFiniteSet(Accounts)
  BY AccountsFinite
<1> DEFINE k == Cardinality(Accounts)
           q == Gov!SetToSeq(Accounts)
           base == [y \in Gov!Votes |-> IF y = ballot[v] THEN Gov!TotalShares(v) ELSE 0]
           w == WithValidator(ballot, v, x)
           mv == Moved(ballot, v, x)
           cn == Counted(ballot, v, x)
           First(i) == {q[j] : j \in 1..i}
<1>1. PICK r : /\ r[0] = base /\ Gov!VoteShares(ballot, v) = r[k]
               /\ \A i \in 1..k : r[i] = Turn(ballot, v, r[i - 1], q[i])
  BY TallyTrace
<1>2. /\ k \in Nat /\ q \in [1..k -> Accounts]
      /\ \A i, j \in 1..k : q[i] = q[j] => i = j
      /\ \A a \in Accounts : \E i \in 1..k : q[i] = a
  BY <1>0, SeqOfSet
<1>3. \A a \in Accounts : Delegations[a][v] \in Nat /\ w[a] \in Int /\ mv[a] \in Int /\ cn[a] \in Nat /\ cn[a] = w[a] + mv[a]
  BY CountedTyped
<1>4. Gov!TotalShares(v) = SumFunctionOnSet([a \in Accounts |-> Delegations[a][v]], Accounts) /\ Gov!TotalShares(v) \in Nat
  <2> DEFINE f == [a \in Accounts |-> Delegations[a][v]]
  <2>1. DOMAIN f = Accounts /\ \A a \in Accounts : f[a] \in Nat
    BY <1>3
  <2>2. Gov!TotalShares(v) = SumFunctionOnSet(f, Accounts)
    BY <2>1, GovernanceSum DEF Gov!TotalShares
  <2> HIDE DEF f
  <2>3. SumFunctionOnSet(f, Accounts) \in Nat
    BY <1>0, <2>1, SumNat
  <2> QED
    BY <2>2, <2>3 DEF f
<1>5. base \in [Gov!Votes -> Int]
  BY <1>4
<1>6. base[x] = SumFunctionOnSet(w, Accounts)
  <2>1. CASE x = ballot[v]
    <3> DEFINE f == [a \in Accounts |-> Delegations[a][v]]
    <3>1. \A a \in Accounts : w[a] = f[a]
      BY <2>1 DEF WithValidator
    <3> HIDE DEF w, f
    <3>2. SumFunctionOnSet(w, Accounts) = SumFunctionOnSet(f, Accounts)
      BY <1>0, <3>1, SumSame
    <3> QED
      BY <1>4, <2>1, <3>2 DEF f
  <2>2. CASE x # ballot[v]
    <3>1. \A a \in Accounts : w[a] = IF a \in {} THEN 0 ELSE 0
      BY <2>2 DEF WithValidator
    <3> HIDE DEF w
    <3>2. SumFunctionOnSet(w, Accounts) = 0 * Cardinality({})
      BY <1>0, <3>1, SumEach
    <3>3. Cardinality({}) = 0
      BY FS_EmptySet
    <3> QED
      BY <2>2, <3>2, <3>3
  <2> QED
    BY <2>1, <2>2
<1> HIDE DEF base, w, mv, cn, k, q
<1> DEFINE F == {i \in Nat : i <= k => r[i] \in [Gov!Votes -> Int] /\ r[i][x] = base[x] + SumFunctionOnSet(mv, First(i))}
<1>7. 0 \in F
  <2>1. First(0) = {}
    OBVIOUS
  <2> QED
    BY <1>1, <1>5, <2>1, SumEmpty
<1>8. ASSUME NEW i \in Nat, i \in F PROVE i + 1 \in F
  <2> SUFFICES ASSUME i + 1 <= k
               PROVE  r[i + 1] \in [Gov!Votes -> Int] /\ r[i + 1][x] = base[x] + SumFunctionOnSet(mv, First(i + 1))
    OBVIOUS
  <2>1. i + 1 \in 1..k /\ (i + 1) - 1 = i /\ i <= k
    BY <1>2
  <2>2. r[i] \in [Gov!Votes -> Int] /\ r[i][x] = base[x] + SumFunctionOnSet(mv, First(i))
    BY <1>8, <2>1
  <2>3. PICK a \in Accounts : a = q[i + 1]
    BY <1>2, <2>1
  <2>4. r[i + 1] = Turn(ballot, v, r[i], a)
    BY <1>1, <2>1, <2>3
  <2>5. r[i + 1] \in [Gov!Votes -> Int] /\ r[i + 1][x] = r[i][x] + mv[a]
    BY <2>2, <2>4, TurnEffect DEF mv
  <2>6. First(i + 1) \in SUBSET Accounts /\ First(i) \in SUBSET Accounts
    BY <1>2, <2>1
  <2>7. a \in First(i + 1) /\ First(i + 1) \ {a} = First(i)
    <3>1. a \in First(i + 1)
      BY <2>3
    <3>2. ASSUME NEW b PROVE b \in First(i + 1) \ {a} <=> b \in First(i)
      <4>1. ASSUME b \in First(i) PROVE b \in First(i + 1) \ {a}
        <5>1. PICK j \in 1..i : b = q[j]
          BY <4>1
        <5>2. j \in 1..k /\ j # i + 1 /\ j \in 1..(i + 1)
          BY <2>1, <1>2
        <5>3. b # a
          BY <1>2, <2>1, <2>3, <5>1, <5>2
        <5> QED
          BY <5>1, <5>2, <5>3
      <4>2. ASSUME b \in First(i + 1) \ {a} PROVE b \in First(i)
        <5>1. PICK j \in 1..(i + 1) : b = q[j]
          BY <4>2
        <5>2. j # i + 1
          BY <4>2, <2>3, <5>1
        <5>3. j \in 1..i
          BY <5>2
        <5> QED
          BY <5>1, <5>3
      <4> QED
        BY <4>1, <4>2
    <3> HIDE DEF First
    <3> QED
      BY <3>1, <3>2
  <2>8. SumFunctionOnSet(mv, First(i + 1)) = mv[a] + SumFunctionOnSet(mv, First(i))
    <3> DEFINE U == First(i + 1)
    <3>1. IsFiniteSet(U) /\ a \in U /\ (\A y \in U : mv[y] \in Int) /\ U \ {a} = First(i)
      <4>1. U \in SUBSET Accounts
        BY <2>6
      <4> HIDE DEF First
      <4> QED
        BY <1>0, <1>3, <2>7, <4>1, FS_Subset
    <3> HIDE DEF U, First
    <3>2. SumFunctionOnSet(mv, U) = mv[a] + SumFunctionOnSet(mv, U \ {a})
      BY <3>1, SumRemove
    <3> QED
      BY <3>1, <3>2 DEF U
  <2>9. SumFunctionOnSet(mv, First(i)) \in Int
    <3>1. IsFiniteSet(First(i))
      BY <1>0, <2>6, FS_Subset
    <3> HIDE DEF First
    <3> QED
      BY <1>3, <2>6, <3>1, SumInt
  <2>10. base[x] \in Int /\ mv[a] \in Int
    BY <1>3, <1>5
  <2> HIDE DEF First
  <2> QED
    BY <2>2, <2>5, <2>8, <2>9, <2>10
<1>9. \A i \in Nat : i \in F
  <2> HIDE DEF F
  <2> QED
    BY <1>7, <1>8, NatSetInduction
<1>10. First(k) = Accounts
  <2>1. First(k) \subseteq Accounts
    BY <1>2
  <2>2. Accounts \subseteq First(k)
    BY <1>2
  <2> QED
    BY <2>1, <2>2
<1>11. r[k][x] = base[x] + SumFunctionOnSet(mv, Accounts)
  <2>1. k \in F
    BY <1>2, <1>9
  <2> HIDE DEF First
  <2> QED
    BY <1>2, <1>10, <2>1
<1>12. SumFunctionOnSet(cn, Accounts) = SumFunctionOnSet(w, Accounts) + SumFunctionOnSet(mv, Accounts)
  BY <1>0, <1>3, SumPlus
<1> QED
  BY <1>1, <1>6, <1>11, <1>12 DEF cn

\* What is counted for the three votes is not more than the shares there are.
LEMMA SharesBounded ==
    ASSUME Gov!GovernanceAssumption, NEW ballot \in Ballots, NEW v \in Entities
    PROVE  /\ \A x \in Gov!Votes : Gov!VoteShares(ballot, v)[x] \in Nat
           /\ Gov!TotalShares(v) \in Nat
           /\ Gov!VoteShares(ballot, v)["yes"] + Gov!VoteShares(ballot, v)["no"] + Gov!VoteShares(ballot, v)["abstain"] <= Gov!TotalShares(v)
<1>0. IsFiniteSet(Accounts)
  BY AccountsFinite
<1> DEFINE y == Counted(ballot, v, "yes")
           n == Counted(ballot, v, "no")
           b == Counted(ballot, v, "abstain")
           yn == [a \in Accounts |-> y[a] + n[a]]
           all == [a \in Accounts |-> yn[a] + b[a]]
           f == [a \in Accounts |-> Delegations[a][v]]
<1>1. "yes" \in Gov!Votes /\ "no" \in Gov!Votes /\ "abstain" \in Gov!Votes
  BY DEF Gov!Votes
<1>2. \A a \in Accounts : y[a] \in Nat /\ n[a] \in Nat /\ b[a] \in Nat /\ f[a] \in Nat
  BY <1>1, CountedTyped
<1>3. ASSUME NEW a \in Accounts PROVE y[a] + n[a] + b[a] <= f[a]
  <2>1. PICK d : d = Delegations[a][v] /\ d \in Nat /\ f[a] = d
    BY <1>2
  <2>2. /\ y[a] = IF ballot[a] = "yes" \/ (ballot[a] = Gov!NoVote /\ ballot[v] = "yes") THEN d ELSE 0
        /\ n[a] = IF ballot[a] = "no" \/ (ballot[a] = Gov!NoVote /\ ballot[v] = "no") THEN d ELSE 0
        /\ b[a] = IF ballot[a] = "abstain" \/ (ballot[a] = Gov!NoVote /\ ballot[v] = "abstain") THEN d ELSE 0
    BY <2>1 DEF Counted, For
  <2> HIDE DEF y, n, b, f
  <2> QED
    BY <2>1, <2>2 DEF Gov!NoVote
<1>4. DOMAIN f = Accounts
  OBVIOUS
<1>5. Gov!TotalShares(v) = SumFunctionOnSet(f, Accounts)
  BY <1>4, GovernanceSum DEF Gov!TotalShares
<1>6. /\ Gov!VoteShares(ballot, v)["yes"] = SumFunctionOnSet(y, Accounts)
      /\ Gov!VoteShares(ballot, v)["no"] = SumFunctionOnSet(n, Accounts)
      /\ Gov!VoteShares(ballot, v)["abstain"] = SumFunctionOnSet(b, Accounts)
  BY <1>1, SharesCounted
<1> HIDE DEF y, n, b, f
<1>7. \A a \in Accounts : /\ y[a] \in Int /\ n[a] \in Int /\ b[a] \in Int /\ f[a] \in Int
                          /\ yn[a] \in Int /\ yn[a] = y[a] + n[a] /\ all[a] \in Int /\ all[a] = yn[a] + b[a] /\ all[a] <= f[a]
  BY <1>2, <1>3
<1> HIDE DEF yn, all
<1>8. SumFunctionOnSet(yn, Accounts) = SumFunctionOnSet(y, Accounts) + SumFunctionOnSet(n, Accounts)
  BY <1>0, <1>7, SumPlus
<1>9. SumFunctionOnSet(all, Accounts) = SumFunctionOnSet(yn, Accounts) + SumFunctionOnSet(b, Accounts)
  BY <1>0, <1>7, SumPlus
<1>10. SumFunctionOnSet(all, Accounts) <= SumFunctionOnSet(f, Accounts)
  BY <1>0, <1>7, SumLe
<1>11. /\ SumFunctionOnSet(y, Accounts) \in Nat /\ SumFunctionOnSet(n, Accounts) \in Nat
       /\ SumFunctionOnSet(b, Accounts) \in Nat /\ SumFunctionOnSet(f, Accounts) \in Nat
  BY <1>0, <1>2, SumNat
<1>12. \A x \in Gov!Votes : Gov!VoteShares(ballot, v)[x] \in Nat
  BY <1>6, <1>11 DEF Gov!Votes
<1> QED
  BY <1>5, <1>6, <1>8, <1>9, <1>10, <1>11, <1>12

\* Three shares of a pool, rounded down, are not more than the pool.
LEMMA ThreeShares ==
    ASSUME NEW T \in Nat \ {0}, NEW B \in Nat, NEW x \in Nat, NEW y \in Nat, NEW z \in Nat, x + y + z <= T
    PROVE  /\ (x * B) \div T \in Nat /\ (y * B) \div T \in Nat /\ (z * B) \div T \in Nat
           /\ (x * B) \div T + (y * B) \div T + (z * B) \div T <= B
<1>1. PICK p, q, r : p = (x * B) \div T /\ q = (y * B) \div T /\ r = (z * B) \div T
  OBVIOUS
<1>2. ASSUME NEW k \in Nat PROVE k * B \in Nat /\ (k * B) \div T \in Nat /\ T * ((k * B) \div T) <= k * B
  <2>1. PICK m : m = k * B
    OBVIOUS
  <2>2. m \in Nat
    BY <2>1
  <2>3. m \div T \in Nat /\ T * (m \div T) <= m
    BY <2>2
  <2> QED
    BY <2>1, <2>2, <2>3
<1>3. /\ p \in Nat /\ q \in Nat /\ r \in Nat
      /\ T * p <= x * B /\ T * q <= y * B /\ T * r <= z * B
  BY <1>1, <1>2
<1>4. (x + y + z) * B <= T * B
  <2>1. PICK m : m = T - (x + y + z)
    OBVIOUS
  <2>2. m \in Nat /\ T = x + y + z + m
    BY <2>1
  <2>3. m * B \in Nat /\ (x + y + z) * B \in Nat
    BY <2>2
  <2>4. T * B = (x + y + z) * B + m * B
    BY <2>2
  <2> QED
    BY <2>3, <2>4
<1>5. T * (p + q + r) <= T * B
  <2>1. T * (p + q + r) = T * p + T * q + T * r
    BY <1>3
  <2>2. (x + y + z) * B = x * B + y * B + z * B
    OBVIOUS
  <2>3. /\ T * p \in Nat /\ T * q \in Nat /\ T * r \in Nat
        /\ x * B \in Nat /\ y * B \in Nat /\ z * B \in Nat /\ T * B \in Nat
    BY <1>3
  <2> QED
    BY <1>3, <1>4, <2>1, <2>2, <2>3
<1>6. p + q + r <= B
  <2>1. PICK s : s = p + q + r
    OBVIOUS
  <2>2. SUFFICES ASSUME s >= B + 1 PROVE FALSE
    BY <1>3, <2>1
  <2>3. s \in Nat /\ T * s <= T * B
    BY <1>3, <1>5, <2>1
  <2>4. PICK m \in Nat : s = B + 1 + m
    <3>1. s - (B + 1) \in Nat /\ s = B + 1 + (s - (B + 1))
      BY <2>2, <2>3
    <3> QED
      BY <3>1
  <2>5. T * s = T * B + T + T * m /\ T * m \in Nat /\ T * B \in Nat
    BY <2>4
  <2> QED
    BY <2>3, <2>5
<1> QED
  BY <1>1, <1>3, <1>6

\* The stake counted for one validator is not more than its balance.
LEMMA StakeBounded ==
    ASSUME Gov!GovernanceAssumption, NEW ballot \in Ballots, NEW v \in Entities
    PROVE  /\ Balance[v] \in Nat
           /\ \A x \in Gov!Votes : Gov!StakeForShares(v, Gov!VoteShares(ballot, v)[x]) \in Nat
           /\ Gov!StakeForShares(v, Gov!VoteShares(ballot, v)["yes"]) + Gov!StakeForShares(v, Gov!VoteShares(ballot, v)["no"])
                + Gov!StakeForShares(v, Gov!VoteShares(ballot, v)["abstain"]) <= Balance[v]
<1>1. PICK s, T, B : s = Gov!VoteShares(ballot, v) /\ T = Gov!TotalShares(v) /\ B = Balance[v]
  OBVIOUS
<1>2. s["yes"] \in Nat /\ s["no"] \in Nat /\ s["abstain"] \in Nat /\ T \in Nat /\ s["yes"] + s["no"] + s["abstain"] <= T
  <2>1. "yes" \in Gov!Votes /\ "no" \in Gov!Votes /\ "abstain" \in Gov!Votes
    BY DEF Gov!Votes
  <2> QED
    BY <1>1, <2>1, SharesBounded
<1>3. B \in Nat
  BY <1>1 DEF Gov!GovernanceAssumption
<1>4. PICK x, y, z : x = s["yes"] /\ y = s["no"] /\ z = s["abstain"]
  OBVIOUS
<1>5. x \in Nat /\ y \in Nat /\ z \in Nat /\ x + y + z <= T
  BY <1>2, <1>4
<1>6. \A k : Gov!StakeForShares(v, k) = IF k = 0 \/ B = 0 THEN 0 ELSE (k * B) \div T
  BY <1>1 DEF Gov!StakeForShares
<1>7. CASE T = 0
  <2>1. x = 0 /\ y = 0 /\ z = 0
    BY <1>5, <1>7
  <2>2. Gov!StakeForShares(v, x) = 0 /\ Gov!StakeForShares(v, y) = 0 /\ Gov!StakeForShares(v, z) = 0
    BY <1>6, <2>1
  <2>3. PICK p, q, r : p = Gov!StakeForShares(v, x) /\ q = Gov!StakeForShares(v, y) /\ r = Gov!StakeForShares(v, z)
    OBVIOUS
  <2>4. p \in Nat /\ q \in Nat /\ r \in Nat /\ p + q + r <= B
    BY <1>3, <2>2, <2>3
  <2> QED
    BY <1>1, <1>3, <1>4, <2>3, <2>4 DEF Gov!Votes
<1>8. CASE T # 0
  <2>1. /\ (x * B) \div T \in Nat /\ (y * B) \div T \in Nat /\ (z * B) \div T \in Nat
        /\ (x * B) \div T + (y * B) \div T + (z * B) \div T <= B
    BY <1>2, <1>3, <1>5, <1>8, ThreeShares
  <2>2. PICK p, q, r : p = Gov!StakeForShares(v, x) /\ q = Gov!StakeForShares(v, y) /\ r = Gov!StakeForShares(v, z)
    OBVIOUS
  <2>3. /\ p = 0 \/ p = (x * B) \div T
        /\ q = 0 \/ q = (y * B) \div T
        /\ r = 0 \/ r = (z * B) \div T
    BY <1>6, <2>2
  <2>4. p \in Nat /\ q \in Nat /\ r \in Nat /\ p + q + r <= B
    BY <1>3, <2>1, <2>3
  <2> QED
    BY <1>1, <1>3, <1>4, <2>2, <2>4 DEF Gov!Votes
<1> QED
  BY <1>7, <1>8

\* The validators have stake.
StakedValidators == Entities # {} /\ \A v \in Entities : Balance[v] > 0

\* Every proposal can be tallied when validators have stake.
LEMMA TallyCloses ==
    ASSUME Gov!GovernanceAssumption, StakedValidators, NEW ballot \in Ballots, NEW vals \in SUBSET Entities, vals # {}, NEW th
    PROVE  Gov!VotingStake(vals) # 0 /\ Gov!CloseState(ballot, vals, th) # "error"
<1> DEFINE y == [v \in vals |-> Gov!StakeForShares(v, Gov!VoteShares(ballot, v)["yes"])]
           n == [v \in vals |-> Gov!StakeForShares(v, Gov!VoteShares(ballot, v)["no"])]
           b == [v \in vals |-> Gov!StakeForShares(v, Gov!VoteShares(ballot, v)["abstain"])]
           yn == [v \in vals |-> y[v] + n[v]]
           all == [v \in vals |-> yn[v] + b[v]]
           f == [v \in vals |-> Balance[v]]
<1>0. IsFiniteSet(vals)
  BY AccountsFinite, FS_Subset DEF Gov!GovernanceAssumption
<1>1. "yes" \in Gov!Votes /\ "no" \in Gov!Votes /\ "abstain" \in Gov!Votes
  BY DEF Gov!Votes
<1>2. ASSUME NEW v \in vals PROVE y[v] \in Nat /\ n[v] \in Nat /\ b[v] \in Nat /\ f[v] \in Nat /\ f[v] > 0 /\ y[v] + n[v] + b[v] <= f[v]
  <2>1. /\ Balance[v] \in Nat
        /\ \A x \in Gov!Votes : Gov!StakeForShares(v, Gov!VoteShares(ballot, v)[x]) \in Nat
        /\ Gov!StakeForShares(v, Gov!VoteShares(ballot, v)["yes"]) + Gov!StakeForShares(v, Gov!VoteShares(ballot, v)["no"])
             + Gov!StakeForShares(v, Gov!VoteShares(ballot, v)["abstain"]) <= Balance[v]
    BY StakeBounded
  <2>2. Balance[v] > 0
    BY DEF StakedValidators
  <2> QED
    BY <1>1, <2>1, <2>2
<1>3. DOMAIN y = vals /\ DOMAIN n = vals /\ DOMAIN b = vals /\ DOMAIN f = vals
  OBVIOUS
<1>4. /\ Gov!Results(ballot, vals)["yes"] = SumFunctionOnSet(y, vals)
      /\ Gov!Results(ballot, vals)["no"] = SumFunctionOnSet(n, vals)
      /\ Gov!Results(ballot, vals)["abstain"] = SumFunctionOnSet(b, vals)
  BY <1>1, <1>3, GovernanceSum DEF Gov!Results
<1>5. Gov!VotingStake(vals) = SumFunctionOnSet(f, vals)
  BY <1>3, GovernanceSum DEF Gov!VotingStake
<1> HIDE DEF y, n, b, f
<1>6. \A v \in vals : /\ y[v] \in Int /\ n[v] \in Int /\ b[v] \in Int /\ f[v] \in Int
                      /\ yn[v] \in Int /\ yn[v] = y[v] + n[v] /\ all[v] \in Int /\ all[v] = yn[v] + b[v] /\ all[v] <= f[v]
  BY <1>2
<1> HIDE DEF yn, all
<1>7. SumFunctionOnSet(yn, vals) = SumFunctionOnSet(y, vals) + SumFunctionOnSet(n, vals)
  BY <1>0, <1>6, SumPlus
<1>8. SumFunctionOnSet(all, vals) = SumFunctionOnSet(yn, vals) + SumFunctionOnSet(b, vals)
  BY <1>0, <1>6, SumPlus
<1>9. SumFunctionOnSet(all, vals) <= SumFunctionOnSet(f, vals)
  BY <1>0, <1>6, SumLe
<1>10. /\ SumFunctionOnSet(y, vals) \in Nat /\ SumFunctionOnSet(n, vals) \in Nat
       /\ SumFunctionOnSet(b, vals) \in Nat
       /\ SumFunctionOnSet(f, vals) \in Nat /\ \A v \in vals : f[v] <= SumFunctionOnSet(f, vals)
  BY <1>0, <1>2, SumNat
<1>11. SumFunctionOnSet(f, vals) # 0
  BY <1>2, <1>10
<1>12. ~(Gov!Results(ballot, vals)["yes"] + Gov!Results(ballot, vals)["no"] + Gov!Results(ballot, vals)["abstain"] > Gov!VotingStake(vals))
  BY <1>4, <1>5, <1>7, <1>8, <1>9, <1>10
<1>13. Gov!VotingStake(vals) # 0
  BY <1>5, <1>11
<1> QED
  BY <1>12, <1>13 DEF Gov!CloseState

-----------------------------------------------------------------------------
(***************************************************************************)
(* The inductive invariant.                                                 *)
(***************************************************************************)

\* The state of the application, as a block that ends sees it.
Now == [props |-> proposals, act |-> active, pend |-> pending, par |-> params,
        gen |-> general, dep |-> deposits, pl |-> pool, fail |-> failed]

\* How many proposals have been submitted.
Count == Cardinality(DOMAIN proposals)

\* The inductive invariant: the types, an orderly store of proposals, and a
\* ballot for each of them.
GovernanceInv ==
    /\ epoch \in 1..MaxEpoch /\ transition \in BOOLEAN
    /\ validators \in SUBSET Entities /\ (Entities # {} => validators # {})
    /\ Orderly(Now, Count, epoch)
    /\ votes \in [DOMAIN proposals -> Ballots]

\* What the invariant says of the variables.
LEMMA NowTyped ==
    ASSUME Gov!GovernanceAssumption, NEW n \in Nat, NEW e, Orderly(Now, n, e)
    PROVE  /\ proposals \in [1..n -> Stored] /\ DOMAIN proposals = 1..n /\ Count = n /\ n \in 0..MaxProposals
           /\ active \in SUBSET (Nat \X Gov!IDs) /\ pending \in SUBSET (1..n) /\ params \in [Gov!Fields -> Nat]
           /\ general \in [Accounts -> Nat] /\ deposits \in Nat /\ pool \in Nat /\ failed \in BOOLEAN
<1>1. Now \in Ending(n) /\ n \in 0..MaxProposals
  BY DEF Orderly
<1>2. /\ proposals \in [1..n -> Stored] /\ DOMAIN proposals = 1..n
      /\ active \in SUBSET (Nat \X Gov!IDs) /\ pending \in SUBSET (1..n) /\ params \in [Gov!Fields -> Nat]
      /\ general \in [Accounts -> Nat] /\ deposits \in Nat /\ pool \in Nat /\ failed \in BOOLEAN
  BY <1>1 DEF Ending, Now
<1>3. Cardinality(1..n) = n
  BY FS_Interval
<1> QED
  BY <1>1, <1>2, <1>3 DEF Count

\* The number of proposals.
LEMMA CountTyped ==
    ASSUME Gov!GovernanceAssumption, GovernanceInv
    PROVE  Count \in Nat /\ epoch \in Nat /\ MaxEpoch \in Nat /\ MaxProposals \in Nat
BY DEF GovernanceInv, Gov!GovernanceAssumption, Orderly

\* The application starts so.
LEMMA GovernanceInitially == ASSUME Gov!GovernanceAssumption, Gov!Init PROVE GovernanceInv
<1>1. Count = 0 /\ DOMAIN proposals = {} /\ 1..0 = {}
  BY FS_EmptySet DEF Gov!Init, Count
<1>2. Now \in Ending(0)
  <2>1. proposals \in [1..0 -> Stored]
    BY <1>1 DEF Gov!Init
  <2>2. general \in [Accounts -> Nat] /\ params \in [Gov!Fields -> Nat]
    BY DEF Gov!Init, Gov!GovernanceAssumption
  <2> QED
    BY <2>1, <2>2 DEF Now, Ending, Gov!Init
<1>3. Now.props = proposals /\ Now.act = {} /\ Now.pend = {} /\ Now.par = GenesisParams /\ Now.gen = general /\ Now.dep = 0 /\ Now.pl = 0
  BY DEF Now, Gov!Init
<1>4. Indexed(Now) /\ UpgradesAhead(Now.props) /\ PendingExact(Now, epoch)
  BY <1>1, <1>3 DEF Indexed, UpgradesAhead, PendingExact
<1>5. PassedFirst(Now.props)
  BY <1>1, <1>3 DEF PassedFirst, Cancels
<1>6. DepositsExact(Now)
  <2>1. Opened(proposals) = {}
    BY <1>1 DEF Opened
  <2> QED
    BY <1>3, <2>1, SumEmpty DEF DepositsExact
<1>7. TokensKept(Now)
  <2>1. IsFiniteSet(Accounts) /\ InitialBalance \in Int /\ general = [a \in Accounts |-> InitialBalance]
    BY AccountsFinite DEF Gov!GovernanceAssumption, Gov!Init
  <2>2. \A x \in Accounts : general[x] = IF x \in Accounts THEN InitialBalance ELSE 0
    BY <2>1
  <2>3. SumFunctionOnSet(general, Accounts) = InitialBalance * Cardinality(Accounts)
    BY <2>1, <2>2, SumEach
  <2>4. InitialBalance * Cardinality(Accounts) \in Int
    BY <2>1, FS_CardinalityType
  <2>5. SumFunctionOnSet(general, Accounts) + 0 + 0 = InitialBalance * Cardinality(Accounts)
    BY <2>3, <2>4
  <2> QED
    BY <1>3, <2>5 DEF TokensKept
<1>8. Gov!ParamsSane(Now.par)
  BY <1>3 DEF Gov!GovernanceAssumption
<1>9. Orderly(Now, Count, epoch)
  <2>1. 0 \in 0..MaxProposals
    BY DEF Gov!GovernanceAssumption
  <2> QED
    BY <1>1, <1>2, <1>4, <1>5, <1>6, <1>7, <1>8, <2>1 DEF Orderly
<1>10. votes \in [DOMAIN proposals -> Ballots]
  BY <1>1 DEF Gov!Init
<1>11. epoch \in 1..MaxEpoch /\ transition \in BOOLEAN
  <2>1. MaxEpoch \in Nat \ {0} /\ epoch = 1
    BY DEF Gov!Init, Gov!GovernanceAssumption
  <2>2. epoch \in 1..MaxEpoch
    BY <2>1
  <2> QED
    BY <2>2 DEF Gov!Init
<1>12. validators = Entities
  BY DEF Gov!Init
<1> QED
  BY <1>9, <1>10, <1>11, <1>12 DEF GovernanceInv

\* A new proposal.
LEMMA SubmitKeeps ==
    ASSUME Gov!GovernanceAssumption, GovernanceInv, NEW a \in Accounts, NEW c \in Gov!Contents, Gov!SubmitProposal(a, c)
    PROVE  GovernanceInv'
<1> DEFINE n == Count
           id == n + 1
           p == [content |-> c, submitter |-> a, deposit |-> params.deposit, state |-> "active",
                 createdAt |-> epoch, closesAt |-> epoch + params.votingPeriod]
<1>0. /\ n \in Nat /\ epoch \in Nat /\ n \in 0..MaxProposals /\ MaxProposals \in Nat
      /\ proposals \in [1..n -> Stored] /\ DOMAIN proposals = 1..n
      /\ active \in SUBSET (Nat \X Gov!IDs) /\ pending \in SUBSET (1..n) /\ params \in [Gov!Fields -> Nat]
      /\ general \in [Accounts -> Nat] /\ deposits \in Nat /\ pool \in Nat /\ failed \in BOOLEAN
  <2>1. n \in Nat /\ epoch \in Nat /\ MaxProposals \in Nat /\ Orderly(Now, n, epoch)
    BY CountTyped DEF GovernanceInv
  <2> HIDE DEF n
  <2> QED
    BY <2>1, NowTyped
<1>1. /\ id \in Gov!IDs /\ general[a] >= params.deposit /\ Gov!ContentAcceptable(c)
      /\ general' = [general EXCEPT ![a] = @ - params.deposit]
      /\ deposits' = deposits + params.deposit
      /\ proposals' = [i \in 1..id |-> IF i = id THEN p ELSE proposals[i]]
      /\ active' = active \cup {<<p.closesAt, id>>}
      /\ votes' = [i \in 1..id |-> IF i = id THEN [x \in Accounts |-> Gov!NoVote] ELSE votes[i]]
      /\ UNCHANGED <<epoch, transition, validators, params, pending, pool, failed>>
  BY GovernanceCardinality DEF Gov!SubmitProposal, Count
<1>2. /\ params.deposit \in Nat /\ params.votingPeriod \in Nat /\ params.minDiff \in Nat
      /\ params.votingPeriod < params.minDiff
  <2>1. Gov!ParamsSane(params)
    BY DEF GovernanceInv, Orderly, Now
  <2> QED
    BY <1>0, <2>1 DEF Gov!Fields, Gov!ParamsSane
<1>3. p \in Stored /\ p.content = c /\ p.state = "active" /\ p.deposit = params.deposit
      /\ p.closesAt = epoch + params.votingPeriod /\ p.closesAt \in Nat
  BY <1>0, <1>2 DEF Stored, States
<1> HIDE DEF n, p
<1>4. /\ id \in Nat /\ id \in 1..id /\ id \notin 1..n /\ id \in 0..MaxProposals
      /\ \A i \in 1..id : i = id \/ i \in 1..n
      /\ \A i \in 1..n : i \in 1..id /\ i # id /\ i \in Gov!IDs
  BY <1>0, <1>1 DEF Gov!IDs
<1>5. /\ proposals' \in [1..id -> Stored] /\ DOMAIN proposals' = 1..id /\ proposals'[id] = p
      /\ \A i \in 1..n : proposals'[i] = proposals[i]
  BY <1>0, <1>1, <1>3, <1>4
<1>6. /\ Indexed(Now) /\ UpgradesAhead(proposals) /\ PassedFirst(proposals) /\ PendingExact(Now, epoch)
      /\ Gov!ParamsSane(params) /\ DepositsExact(Now) /\ TokensKept(Now)
      /\ Now.props = proposals /\ Now.act = active /\ Now.pend = pending /\ Now.par = params
      /\ Now.gen = general /\ Now.dep = deposits /\ Now.pl = pool
  BY DEF GovernanceInv, Orderly, Now
<1>7. /\ Now'.props = proposals' /\ Now'.act = active' /\ Now'.pend = pending' /\ Now'.par = params'
      /\ Now'.gen = general' /\ Now'.dep = deposits' /\ Now'.pl = pool' /\ Now'.fail = failed'
  BY DEF Now
<1>8. general' \in [Accounts -> Nat] /\ deposits' \in Nat /\ general'[a] = general[a] - params.deposit
      /\ \A x \in Accounts \ {a} : general'[x] = general[x]
  <2>1. general[a] - params.deposit \in Nat
    BY <1>0, <1>1, <1>2
  <2> QED
    BY <1>0, <1>1, <1>2, <2>1
<1>9. Now' \in Ending(id)
  <2>1. active' \in SUBSET (Nat \X Gov!IDs)
    BY <1>0, <1>1, <1>3
  <2>2. pending' \in SUBSET (1..id) /\ params' \in [Gov!Fields -> Nat] /\ pool' \in Nat /\ failed' \in BOOLEAN
    BY <1>0, <1>1, <1>4
  <2> DEFINE P == [1..id -> Stored]
  <2>3. proposals' \in P
    BY <1>5
  <2> HIDE DEF P
  <2>4. Now' \in [props : P, act : SUBSET (Nat \X Gov!IDs), pend : SUBSET (1..id), par : [Gov!Fields -> Nat],
                 gen : [Accounts -> Nat], dep : Nat, pl : Nat, fail : BOOLEAN]
    BY <1>8, <2>1, <2>2, <2>3 DEF Now
  <2> QED
    BY <2>4 DEF Ending, P
<1>10. Indexed(Now')
  <2> SUFFICES ASSUME NEW k \in Nat, NEW i \in Gov!IDs
               PROVE  <<k, i>> \in active' <=> i \in 1..id /\ proposals'[i].state = "active" /\ proposals'[i].closesAt = k
    BY <1>5, <1>7 DEF Indexed
  <2>1. <<k, i>> \in active <=> i \in 1..n /\ proposals[i].state = "active" /\ proposals[i].closesAt = k
    BY <1>0, <1>6 DEF Indexed
  <2>2. <<k, i>> \in active' <=> <<k, i>> \in active \/ (k = p.closesAt /\ i = id)
    BY <1>1
  <2>3. CASE i = id
    BY <1>3, <1>4, <1>5, <2>1, <2>2, <2>3
  <2>4. CASE i # id
    BY <1>4, <1>5, <2>1, <2>2, <2>4
  <2> QED
    BY <2>3, <2>4
<1>11. UpgradesAhead(proposals')
  <2>1. c.kind = "upgrade" => c.epoch > p.closesAt
    <3>1. c.kind = "upgrade" => c.epoch \in Nat
      BY ContentParts
    <3>2. c.kind = "upgrade" => c.epoch >= params.minDiff + epoch
      BY <1>1 DEF Gov!ContentAcceptable
    <3> QED
      BY <1>0, <1>2, <1>3, <3>1, <3>2
  <2> SUFFICES ASSUME NEW i \in 1..id, proposals'[i].content.kind = "upgrade"
               PROVE  proposals'[i].content.epoch > proposals'[i].closesAt
    BY <1>5 DEF UpgradesAhead
  <2>2. CASE i = id
    BY <1>3, <1>5, <2>1, <2>2
  <2>3. CASE i \in 1..n
    BY <1>0, <1>5, <1>6, <2>3 DEF UpgradesAhead
  <2> QED
    BY <1>4, <2>2, <2>3
<1>12. ASSUME NEW i PROVE Cancels(proposals', i) <=> Cancels(proposals, i)
  BY <1>0, <1>3, <1>4, <1>5 DEF Cancels
<1>13. PassedFirst(proposals')
  <2> SUFFICES ASSUME NEW i \in Gov!IDs, Cancels(proposals', i) PROVE i \in 1..id /\ proposals'[i].state = "passed"
    BY <1>5 DEF PassedFirst
  <2>1. i \in 1..n /\ proposals[i].state = "passed"
    BY <1>0, <1>6, <1>12 DEF PassedFirst
  <2> QED
    BY <1>4, <1>5, <2>1
<1>14. PendingExact(Now', epoch')
  <2> SUFFICES ASSUME NEW i \in 1..id PROVE i \in pending <=> Waits(proposals', i, epoch)
    BY <1>1, <1>5, <1>7 DEF PendingExact
  <2>1. CASE i = id
    BY <1>0, <1>3, <1>4, <1>5, <2>1 DEF Waits
  <2>2. CASE i \in 1..n
    BY <1>0, <1>5, <1>6, <1>12, <2>2 DEF PendingExact, Waits
  <2> QED
    BY <1>4, <2>1, <2>2
<1>15. DepositsExact(Now')
  <2>1. Opened(proposals') = Opened(proposals) \cup {id} /\ id \notin Opened(proposals) /\ Opened(proposals) \in SUBSET (1..n)
    BY <1>0, <1>3, <1>4, <1>5 DEF Opened
  <2> DEFINE O == Opened(proposals)
             U == Opened(proposals')
             f == Held(proposals)
             g == Held(proposals')
  <2>2. IsFiniteSet(O) /\ IsFiniteSet(U)
    <3>1. IsFiniteSet(1..n) /\ IsFiniteSet(1..id)
      BY <1>0, <1>4, FS_Interval
    <3>2. U \in SUBSET (1..id)
      BY <1>5 DEF Opened
    <3> QED
      BY <2>1, <3>1, <3>2, FS_Subset
  <2>3. /\ \A i \in O : f[i] \in Nat /\ g[i] = f[i]
        /\ g[id] = params.deposit
    BY <1>0, <1>3, <1>4, <1>5, <2>1 DEF Held, Stored
  <2>4. U \ {id} = O /\ id \in U /\ \A i \in U : g[i] \in Int
    BY <1>2, <2>1, <2>3
  <2>5. deposits = SumFunctionOnSet(f, O)
    BY <1>6 DEF DepositsExact
  <2> HIDE DEF O, U, f, g
  <2>6. SumFunctionOnSet(g, U) = g[id] + SumFunctionOnSet(g, U \ {id})
    BY <2>2, <2>4, SumRemove
  <2>7. SumFunctionOnSet(g, O) = SumFunctionOnSet(f, O)
    BY <2>2, <2>3, SumSame
  <2>8. deposits' = SumFunctionOnSet(g, U)
    <3>1. SumFunctionOnSet(g, U) = params.deposit + deposits
      BY <2>3, <2>4, <2>5, <2>6, <2>7
    <3> QED
      BY <1>0, <1>1, <1>2, <3>1
  <2> QED
    BY <1>7, <2>8 DEF DepositsExact, U, g
<1>16. TokensKept(Now')
  <2>1. SumFunctionOnSet(general', Accounts) = SumFunctionOnSet(general, Accounts) - general[a] + general'[a]
    <3>1. PICK f, g : f = general /\ g = general'
      OBVIOUS
    <3>2. /\ \A y \in Accounts : f[y] \in Int /\ g[y] \in Int
          /\ \A y \in Accounts \ {a} : g[y] = f[y]
      BY <1>0, <1>8, <3>1
    <3>3. IsFiniteSet(Accounts)
      BY AccountsFinite
    <3>4. SumFunctionOnSet(g, Accounts) = SumFunctionOnSet(f, Accounts) - f[a] + g[a]
      <4> HIDE <3>1
      <4> QED
        BY <3>2, <3>3, SumChange
    <3> QED
      BY <3>1, <3>4
  <2>2. SumFunctionOnSet(general, Accounts) \in Nat
    BY <1>0, AccountsFinite, SumNat
  <2>3. SumFunctionOnSet(general, Accounts) + deposits + pool = InitialBalance * Cardinality(Accounts)
    BY <1>6 DEF TokensKept
  <2>4. general[a] \in Nat /\ pool' = pool
    BY <1>0, <1>1
  <2>5. SumFunctionOnSet(general', Accounts) + deposits' + pool' = InitialBalance * Cardinality(Accounts)
    <3>1. general'[a] = general[a] - params.deposit /\ deposits' = deposits + params.deposit
      BY <1>0, <1>1, <1>2, <1>8
    <3>2. params.deposit \in Nat /\ deposits \in Nat /\ pool \in Nat
      BY <1>0, <1>2
    <3> QED
      BY <2>1, <2>2, <2>3, <2>4, <3>1, <3>2
  <2> QED
    BY <1>7, <2>5 DEF TokensKept
<1>17. Count' = id
  <2>1. Cardinality(1..id) = id
    BY <1>4, FS_Interval
  <2> QED
    BY <1>5, <2>1 DEF Count
<1>18. Orderly(Now', id, epoch')
  BY <1>1, <1>4, <1>6, <1>7, <1>9, <1>10, <1>11, <1>13, <1>14, <1>15, <1>16 DEF Orderly
<1>19. votes' \in [DOMAIN proposals' -> Ballots]
  <2>1. votes \in [1..n -> Ballots]
    BY <1>0 DEF GovernanceInv
  <2>2. [x \in Accounts |-> Gov!NoVote] \in Ballots
    BY DEF Ballots
  <2> QED
    BY <1>1, <1>4, <1>5, <2>1, <2>2
<1> QED
  BY <1>1, <1>17, <1>18, <1>19 DEF GovernanceInv

\* A vote.
LEMMA CastVoteKeeps ==
    ASSUME Gov!GovernanceAssumption, GovernanceInv, NEW a \in Accounts, NEW id \in DOMAIN proposals, NEW v \in Gov!Votes, Gov!CastVote(a, id, v)
    PROVE  GovernanceInv'
<1>1. /\ votes' = [votes EXCEPT ![id][a] = v]
      /\ UNCHANGED <<epoch, transition, validators, params, proposals, active, pending, general, deposits, pool, failed>>
  BY DEF Gov!CastVote
<1>2. Now' = Now /\ Count' = Count
  BY <1>1 DEF Now, Count
<1>3. votes' \in [DOMAIN proposals -> Ballots]
  <2>1. votes \in [DOMAIN proposals -> Ballots]
    BY DEF GovernanceInv
  <2> QED
    BY <1>1, <2>1 DEF Ballots
<1> QED
  BY <1>1, <1>2, <1>3 DEF GovernanceInv

\* A new epoch.
LEMMA BeginEpochKeeps ==
    ASSUME Gov!GovernanceAssumption, GovernanceInv, NEW vals \in (SUBSET Entities) \ {{}}, Gov!BeginEpoch(vals)
    PROVE  GovernanceInv'
<1> DEFINE n == Count
<1>0. /\ n \in Nat /\ epoch \in Nat /\ n \in 0..MaxProposals /\ MaxEpoch \in Nat
      /\ proposals \in [1..n -> Stored] /\ DOMAIN proposals = 1..n /\ pending \in SUBSET (1..n)
      /\ Now \in Ending(n) /\ Orderly(Now, n, epoch)
  <2>1. n \in Nat /\ epoch \in Nat /\ MaxEpoch \in Nat /\ Orderly(Now, n, epoch)
    BY CountTyped DEF GovernanceInv
  <2> HIDE DEF n
  <2> QED
    BY <2>1, NowTyped DEF Orderly
<1>1. /\ epoch < MaxEpoch /\ epoch' = epoch + 1 /\ transition' = TRUE /\ validators' = vals
      /\ pending' = {id \in pending : proposals[id].content.epoch # epoch + 1}
      /\ UNCHANGED <<params, proposals, active, votes, general, deposits, pool, failed>>
  BY DEF Gov!BeginEpoch
<1>2. Count' = n
  BY <1>1 DEF Count
<1>3. /\ Now'.props = Now.props /\ Now'.act = Now.act /\ Now'.par = Now.par /\ Now'.gen = Now.gen /\ Now'.dep = Now.dep
      /\ Now'.pl = Now.pl /\ Now'.fail = Now.fail /\ Now'.pend = pending' /\ Now.props = proposals /\ Now.pend = pending
  BY <1>1 DEF Now
<1> HIDE DEF n
<1>4. Now' \in Ending(n)
  <2> DEFINE P == [1..n -> Stored]
  <2>1. /\ proposals' \in P /\ active' \in SUBSET (Nat \X Gov!IDs) /\ params' \in [Gov!Fields -> Nat]
        /\ general' \in [Accounts -> Nat] /\ deposits' \in Nat /\ pool' \in Nat /\ failed' \in BOOLEAN
    <3>1. /\ proposals \in P /\ active \in SUBSET (Nat \X Gov!IDs) /\ params \in [Gov!Fields -> Nat]
          /\ general \in [Accounts -> Nat] /\ deposits \in Nat /\ pool \in Nat /\ failed \in BOOLEAN
      BY <1>0, NowTyped
    <3> QED
      BY <1>1, <3>1
  <2>2. pending' \in SUBSET (1..n)
    BY <1>0, <1>1
  <2> HIDE DEF P
  <2>3. Now' \in [props : P, act : SUBSET (Nat \X Gov!IDs), pend : SUBSET (1..n), par : [Gov!Fields -> Nat],
                 gen : [Accounts -> Nat], dep : Nat, pl : Nat, fail : BOOLEAN]
    BY <2>1, <2>2 DEF Now
  <2> QED
    BY <2>3 DEF Ending, P
<1>5. PendingExact(Now', epoch')
  <2> SUFFICES ASSUME NEW i \in 1..n PROVE i \in pending' <=> Waits(proposals, i, epoch + 1)
    BY <1>0, <1>1, <1>3 DEF PendingExact
  <2>1. i \in pending <=> Waits(proposals, i, epoch)
    BY <1>0, <1>3 DEF Orderly, PendingExact
  <2>2. i \in pending' <=> i \in pending /\ proposals[i].content.epoch # epoch + 1
    BY <1>1
  <2>3. proposals[i].content.kind = "upgrade" => proposals[i].content.epoch \in Nat
    BY <1>0, ContentParts DEF Stored
  <2>4. proposals[i].content.kind = "upgrade" =>
            (proposals[i].content.epoch > epoch + 1 <=> proposals[i].content.epoch > epoch /\ proposals[i].content.epoch # epoch + 1)
    BY <1>0, <2>3
  <2> QED
    BY <2>1, <2>2, <2>4 DEF Waits
<1>6. Orderly(Now', n, epoch')
  BY <1>0, <1>3, <1>4, <1>5 DEF Orderly, Indexed, DepositsExact, TokensKept
<1>7. votes' \in [DOMAIN proposals' -> Ballots]
  BY <1>1 DEF GovernanceInv
<1>8. epoch' \in 1..MaxEpoch
  BY <1>0, <1>1
<1>9. transition' \in BOOLEAN /\ validators' \in SUBSET Entities /\ validators' # {}
  BY <1>1
<1> QED
  BY <1>2, <1>6, <1>7, <1>8, <1>9 DEF GovernanceInv

\* The state in which the block begins to close proposals.
Start == [props |-> proposals, act |-> active, pend |-> pending, par |-> params,
          gen |-> general, dep |-> deposits, pl |-> pool,
          fail |-> Gov!Closing # {} /\ Gov!VotingStake(validators) = 0]

\* The end of a block is that of closing.
LEMMA EndBlockEffect ==
    ASSUME Gov!GovernanceAssumption, GovernanceInv, Gov!EndBlock
    PROVE  /\ Now' = Gov!CloseAll(Start) /\ Orderly(Start, Count, epoch) /\ Start.act = active /\ Start.props = proposals
           /\ Start.par = params /\ Start.pend = pending
           /\ Orderly(Now', Count, epoch) /\ Progressed(Start, Now', Count)
           /\ \A i \in 1..Count \ Gov!Closing : proposals'[i] = proposals[i]
           /\ (NoErrors => failed' = Start.fail)
           /\ (~failed' => \A i \in Gov!Closing : proposals'[i].state # "active")
           /\ (ApartIn(Start) => ApartIn(Now'))
           /\ (VotingTakesTime /\ params["votingPeriod"] > 0 => params'["votingPeriod"] > 0)
<1> DEFINE n == Count
           t == Gov!CloseAll(Start)
<1>0. /\ n \in Nat /\ epoch \in Nat /\ n \in 0..MaxProposals
      /\ Now \in Ending(n) /\ Orderly(Now, n, epoch)
  BY CountTyped DEF GovernanceInv, Orderly
<1>1. /\ Start.props = Now.props /\ Start.act = Now.act /\ Start.pend = Now.pend /\ Start.par = Now.par /\ Start.gen = Now.gen
      /\ Start.dep = Now.dep /\ Start.pl = Now.pl /\ Start.act = active /\ Start.props = proposals /\ Start.par = params
      /\ Start.pend = pending
  BY DEF Start, Now
<1> HIDE DEF n
<1>2. Start \in Ending(n)
  <2> DEFINE P == [1..n -> Stored]
  <2>1. Now \in [props : P, act : SUBSET (Nat \X Gov!IDs), pend : SUBSET (1..n), par : [Gov!Fields -> Nat],
                 gen : [Accounts -> Nat], dep : Nat, pl : Nat, fail : BOOLEAN]
    BY <1>0 DEF Ending
  <2> HIDE DEF P
  <2>2. Start \in [props : P, act : SUBSET (Nat \X Gov!IDs), pend : SUBSET (1..n), par : [Gov!Fields -> Nat],
                 gen : [Accounts -> Nat], dep : Nat, pl : Nat, fail : BOOLEAN]
    BY <2>1 DEF Start, Now
  <2> QED
    BY <2>2 DEF Ending, P
<1>3. Orderly(Start, n, epoch)
  BY <1>0, <1>1, <1>2 DEF Orderly, Indexed, PendingExact, DepositsExact, TokensKept
<1>4. /\ Orderly(t, n, epoch) /\ Progressed(Start, t, n)
      /\ \A i \in 1..n \ Gov!Closing : t.props[i] = Start.props[i]
      /\ NoErrors => t.fail = Start.fail
      /\ ~t.fail => \A i \in Gov!Closing : t.props[i].state # "active"
      /\ ApartIn(Start) => ApartIn(t)
      /\ VotingTakesTime /\ Start.par["votingPeriod"] > 0 => t.par["votingPeriod"] > 0
  <2> HIDE DEF t
  <2>1. t = Gov!CloseAll(Start)
    BY DEF t
  <2> QED
    BY <1>0, <1>1, <1>3, <2>1, CloseAllEffect
<1>5. /\ proposals' = t.props /\ active' = t.act /\ pending' = t.pend /\ params' = t.par
      /\ general' = t.gen /\ deposits' = t.dep /\ pool' = t.pl /\ failed' = t.fail
  BY DEF Gov!EndBlock, Start
<1> HIDE DEF t
<1>6. t \in Ending(n)
  BY <1>4 DEF Orderly
<1>7. Now' = t
  BY <1>5, <1>6 DEF Now, Ending
<1> QED
  BY <1>1, <1>3, <1>4, <1>5, <1>7 DEF n, t

\* The end of a block keeps the invariant.
LEMMA EndBlockKeeps ==
    ASSUME Gov!GovernanceAssumption, GovernanceInv, Gov!EndBlock
    PROVE  GovernanceInv'
<1> DEFINE n == Count
<1>0. n \in Nat /\ Orderly(Now, n, epoch)
  BY CountTyped DEF GovernanceInv
<1>1. transition' = FALSE /\ UNCHANGED <<epoch, validators, votes>>
  BY DEF Gov!EndBlock
<1>2. Orderly(Now', n, epoch)
  BY EndBlockEffect
<1> HIDE DEF n
<1>3. DOMAIN proposals' = 1..n /\ DOMAIN proposals = 1..n
  <2>1. Now' \in Ending(n) /\ Now \in Ending(n)
    BY <1>0, <1>2 DEF Orderly
  <2> QED
    BY <2>1 DEF Ending, Now
<1>4. Count' = n
  <2>1. Cardinality(1..n) = n
    BY <1>0, FS_Interval
  <2> QED
    BY <1>3, <2>1 DEF Count
<1> QED
  BY <1>1, <1>2, <1>3, <1>4 DEF GovernanceInv

\* Every step keeps the invariant.
LEMMA GovernanceStep == ASSUME Gov!GovernanceAssumption, GovernanceInv, [Gov!Next]_(Gov!vars) PROVE GovernanceInv'
<1>1. CASE UNCHANGED Gov!vars
  BY <1>1 DEF Gov!vars, GovernanceInv, Now, Count
<1>2. CASE \E a \in Accounts, c \in Gov!Contents : Gov!SubmitProposal(a, c)
  BY <1>2, SubmitKeeps
<1>3. CASE \E a \in Accounts, id \in DOMAIN proposals, v \in Gov!Votes : Gov!CastVote(a, id, v)
  BY <1>3, CastVoteKeeps
<1>4. CASE \E vals \in (SUBSET Entities) \ {{}} : Gov!BeginEpoch(vals)
  BY <1>4, BeginEpochKeeps
<1>5. CASE Gov!EndBlock
  BY <1>5, EndBlockKeeps
<1> QED
  BY <1>1, <1>2, <1>3, <1>4, <1>5 DEF Gov!Next

\* Proposals, their index, the pending upgrades, parameters, deposits and
\* balances belong together in every state.
THEOREM GovernanceInvariance == ASSUME Gov!GovernanceAssumption PROVE Gov!Spec => []GovernanceInv
<1>1. Gov!Init => GovernanceInv
  BY GovernanceInitially
<1>2. GovernanceInv /\ [Gov!Next]_(Gov!vars) => GovernanceInv'
  BY GovernanceStep
<1> QED
  BY <1>1, <1>2, PTL DEF Gov!Spec

\* Governance deposits are those of the active proposals, and no token is
\* lost, whichever way several proposals end in one block.
THEOREM DepositsAlwaysMatch == ASSUME Gov!GovernanceAssumption PROVE Gov!Spec => []Gov!DepositsMatch
<1>1. GovernanceInv => Gov!DepositsMatch
  <2> SUFFICES ASSUME GovernanceInv PROVE Gov!DepositsMatch
    OBVIOUS
  <2>1. DepositsExact(Now) /\ TokensKept(Now) /\ Now.dep = deposits /\ Now.props = proposals /\ Now.gen = general /\ Now.pl = pool
        /\ Now \in Ending(Count)
    BY DEF GovernanceInv, Orderly, Now
  <2>2. general \in [Accounts -> Nat]
    BY <2>1 DEF Ending
  <2>3. Gov!Total(general) = SumFunctionOnSet(general, Accounts)
    BY <2>2, GovernanceSum
  <2> DEFINE O == {i \in DOMAIN proposals : proposals[i].state = "active"}
             h == [id \in O |-> proposals[id].deposit]
  <2>4. DOMAIN h = O
    OBVIOUS
  <2>5. deposits = SumFunctionOnSet(h, O)
    BY <2>1 DEF DepositsExact, Held, Opened
  <2>6. Gov!Total(h) = SumFunctionOnSet(h, O)
    BY <2>4, GovernanceSum
  <2>7. SumFunctionOnSet(general, Accounts) + deposits + pool = InitialBalance * Cardinality(Accounts)
    BY <2>1 DEF TokensKept
  <2> QED
    BY <2>3, <2>5, <2>6, <2>7, GovernanceCardinality DEF Gov!DepositsMatch
<1> QED
  BY <1>1, GovernanceInvariance, PTL

\* The pending upgrades can be computed from the proposals alone, and none is
\* due in an epoch that has begun.
THEOREM UpgradesFromProposals == ASSUME Gov!GovernanceAssumption PROVE Gov!Spec => []Gov!PendingFromProposals
<1>1. GovernanceInv => Gov!PendingFromProposals
  <2> SUFFICES ASSUME GovernanceInv PROVE Gov!PendingFromProposals
    OBVIOUS
  <2>1. PendingExact(Now, epoch) /\ Now.props = proposals /\ Now.pend = pending /\ pending \in SUBSET DOMAIN proposals
    <3>1. Count \in Nat /\ Orderly(Now, Count, epoch)
      BY CountTyped DEF GovernanceInv
    <3>2. pending \in SUBSET (1..Count) /\ DOMAIN proposals = 1..Count
      BY <3>1, NowTyped
    <3> QED
      BY <3>1, <3>2 DEF Orderly, Now
  <2>2. \A i \in DOMAIN proposals : i \in pending <=> Waits(proposals, i, epoch)
    BY <2>1 DEF PendingExact
  <2> QED
    BY <2>1, <2>2 DEF Gov!PendingFromProposals, Waits, Cancels
<1> QED
  BY <1>1, GovernanceInvariance, PTL

\* Every share counts once, for the vote of the one who delegated it, or else
\* for that of the validator.
THEOREM TalliesFollowDelegators == ASSUME Gov!GovernanceAssumption PROVE Gov!Spec => []Gov!TallyFollowsDelegators
<1>1. GovernanceInv => Gov!TallyFollowsDelegators
  <2> SUFFICES ASSUME GovernanceInv, NEW id \in DOMAIN votes, NEW v \in Entities, NEW x \in Gov!Votes
               PROVE  Gov!VoteShares(votes[id], v)[x] =
                          Gov!Total([a \in {b \in Accounts : votes[id][b] = x \/ (votes[id][b] = Gov!NoVote /\ votes[id][v] = x)}
                                    |-> Delegations[a][v]])
    BY DEF Gov!TallyFollowsDelegators
  <2>1. PICK ballot : ballot = votes[id] /\ ballot \in Ballots
    BY DEF GovernanceInv
  <2> DEFINE V == For(ballot, v, x)
             f == [a \in V |-> Delegations[a][v]]
             g == Counted(ballot, v, x)
  <2>2. DOMAIN f = V /\ V \in SUBSET Accounts /\ IsFiniteSet(Accounts)
    BY AccountsFinite DEF For
  <2>3. /\ \A a \in V : f[a] \in Int
        /\ \A a \in Accounts : g[a] = IF a \in V THEN f[a] ELSE 0
    <3>1. \A a \in Accounts : Delegations[a][v] \in Nat
      BY DEF Gov!GovernanceAssumption
    <3> QED
      BY <2>2, <3>1 DEF Counted
  <2>4. Gov!VoteShares(ballot, v)[x] = SumFunctionOnSet(g, Accounts)
    BY <2>1, SharesCounted
  <2>5. Gov!Total(f) = SumFunctionOnSet(f, V)
    BY <2>2, GovernanceSum
  <2> HIDE DEF V, f, g
  <2>6. SumFunctionOnSet(f, V) = SumFunctionOnSet(g, Accounts)
    BY <2>2, <2>3, SumWhere
  <2> QED
    BY <2>1, <2>4, <2>5, <2>6 DEF f, V, For
<1> QED
  BY <1>1, GovernanceInvariance, PTL

\* No proposal keeps an epoch transition block from ending when validators
\* have stake.
THEOREM GovernanceNeverFails == ASSUME Gov!GovernanceAssumption, StakedValidators PROVE Gov!Spec => []Gov!BlocksNeverFail
<1>1. Gov!Init => Gov!BlocksNeverFail
  BY DEF Gov!Init, Gov!BlocksNeverFail
<1>2. ASSUME GovernanceInv, Gov!BlocksNeverFail, [Gov!Next]_(Gov!vars) PROVE Gov!BlocksNeverFail'
  <2>1. CASE Gov!EndBlock
    <3>1. validators \in SUBSET Entities /\ validators # {}
      BY <1>2 DEF GovernanceInv, StakedValidators
    <3>2. ASSUME NEW id \in Gov!Closing PROVE votes[id] \in Ballots
      <4>1. Count \in Nat /\ Orderly(Now, Count, epoch) /\ epoch \in Nat
        BY <1>2, CountTyped DEF GovernanceInv
      <4>2. Indexed(Now) /\ Now.act = active /\ Now.props = proposals
        BY <4>1 DEF Orderly, Now
      <4>3. id \in DOMAIN proposals
        BY <3>2, <4>1, <4>2 DEF Indexed, Gov!Closing
      <4> QED
        BY <1>2, <4>3 DEF GovernanceInv
    <3>3. NoErrors
      BY <3>1, <3>2, TallyCloses DEF NoErrors
    <3>4. ~Start.fail
      <4>1. ASSUME Gov!Closing # {} PROVE Gov!VotingStake(validators) # 0
        <5>1. PICK id \in Gov!Closing : votes[id] \in Ballots
          BY <3>2, <4>1
        <5> QED
          BY <3>1, <5>1, TallyCloses
      <4> QED
        BY <4>1 DEF Start
    <3> QED
      BY <1>2, <2>1, <3>3, <3>4, EndBlockEffect DEF Gov!BlocksNeverFail
  <2>2. CASE ~Gov!EndBlock
    BY <1>2, <2>2 DEF Gov!Next, Gov!vars, Gov!SubmitProposal, Gov!CastVote, Gov!BeginEpoch, Gov!BlocksNeverFail
  <2> QED
    BY <2>1, <2>2
<1> QED
  BY <1>1, <1>2, GovernanceInvariance, PTL DEF Gov!Spec

\* Every variable keeps its type.
THEOREM GovernanceTypeCorrect == ASSUME Gov!GovernanceAssumption PROVE Gov!Spec => []Gov!TypeOK
<1>1. GovernanceInv => Gov!TypeOK
  <2> SUFFICES ASSUME GovernanceInv PROVE Gov!TypeOK
    OBVIOUS
  <2>1. Count \in Nat /\ Orderly(Now, Count, epoch)
    BY CountTyped DEF GovernanceInv
  <2>2. /\ proposals \in [1..Count -> Stored] /\ DOMAIN proposals = 1..Count /\ pending \in SUBSET (1..Count)
        /\ general \in [Accounts -> Nat] /\ deposits \in Nat /\ pool \in Nat
    BY <2>1, NowTyped
  <2>3. \A id \in DOMAIN proposals : proposals[id].state \in {"active", "passed", "rejected", "failed"}
    BY <2>2 DEF Stored, States
  <2>4. pending \subseteq {id \in DOMAIN proposals : proposals[id].content.kind = "upgrade"}
    <3>1. PendingExact(Now, epoch) /\ Now.props = proposals /\ Now.pend = pending
      BY <2>1 DEF Orderly, Now
    <3> QED
      BY <2>2, <3>1 DEF PendingExact, Waits
  <2> QED
    BY <2>2, <2>3, <2>4 DEF GovernanceInv, Gov!TypeOK, Ballots
<1> QED
  BY <1>1, GovernanceInvariance, PTL

\* The outcome of a proposal is final, and so are the votes on it.
THEOREM OutcomesAlwaysFinal == ASSUME Gov!GovernanceAssumption PROVE Gov!Spec => [][Gov!OutcomesFinal]_(Gov!vars)
<1>1. ASSUME GovernanceInv, Gov!Next PROVE Gov!OutcomesFinal
  <2> SUFFICES ASSUME NEW id \in DOMAIN proposals, proposals[id].state # "active"
               PROVE  proposals'[id] = proposals[id] /\ votes'[id] = votes[id]
    BY DEF Gov!OutcomesFinal
  <2>0. Count \in Nat /\ DOMAIN proposals = 1..Count /\ votes \in [DOMAIN proposals -> Ballots]
    <3>1. Count \in Nat /\ Orderly(Now, Count, epoch)
      BY <1>1, CountTyped DEF GovernanceInv
    <3> QED
      BY <1>1, <3>1, NowTyped DEF GovernanceInv
  <2>1. ASSUME NEW a \in Accounts, NEW c \in Gov!Contents, Gov!SubmitProposal(a, c)
        PROVE  proposals'[id] = proposals[id] /\ votes'[id] = votes[id]
    <3> DEFINE n == Count
    <3>1. PICK p : /\ proposals' = [i \in 1..(n + 1) |-> IF i = n + 1 THEN p ELSE proposals[i]]
                   /\ votes' = [i \in 1..(n + 1) |-> IF i = n + 1 THEN [x \in Accounts |-> Gov!NoVote] ELSE votes[i]]
      BY <2>1, GovernanceCardinality DEF Gov!SubmitProposal, Count
    <3> HIDE DEF n
    <3>2. id \in 1..(n + 1) /\ id # n + 1
      BY <2>0 DEF n
    <3> QED
      BY <3>1, <3>2
  <2>2. ASSUME NEW a \in Accounts, NEW j \in DOMAIN proposals, NEW v \in Gov!Votes, Gov!CastVote(a, j, v)
        PROVE  proposals'[id] = proposals[id] /\ votes'[id] = votes[id]
    <3>1. proposals' = proposals /\ votes' = [votes EXCEPT ![j][a] = v] /\ proposals[j].state = "active"
      BY <2>2 DEF Gov!CastVote, Gov!CastVoteGuard
    <3>2. j # id
      BY <3>1
    <3> QED
      BY <2>0, <3>1, <3>2
  <2>3. ASSUME NEW vals \in (SUBSET Entities) \ {{}}, Gov!BeginEpoch(vals)
        PROVE  proposals'[id] = proposals[id] /\ votes'[id] = votes[id]
    BY <2>3 DEF Gov!BeginEpoch
  <2>4. CASE Gov!EndBlock
    <3>1. Progressed(Start, Now', Count) /\ Start.props = proposals
      BY <1>1, <2>4, EndBlockEffect
    <3>2. Now'.props = proposals' /\ votes' = votes
      BY <2>4 DEF Now, Gov!EndBlock
    <3> QED
      BY <2>0, <3>1, <3>2 DEF Progressed
  <2> QED
    BY <1>1, <2>1, <2>2, <2>3, <2>4 DEF Gov!Next
<1>2. ASSUME GovernanceInv, [Gov!Next]_(Gov!vars) PROVE [Gov!OutcomesFinal]_(Gov!vars)
  BY <1>1, <1>2
<1> QED
  BY <1>2, GovernanceInvariance, PTL DEF Gov!Spec

\* Active proposals close in an epoch that is still to come, or in this one
\* while its block has not ended.
StillOpen ==
    /\ params["votingPeriod"] > 0
    /\ \A id \in DOMAIN proposals : proposals[id].state = "active" =>
           /\ proposals[id].closesAt >= epoch
           /\ ~transition /\ ~failed => proposals[id].closesAt > epoch

\* Every proposal is closed in the epoch it was given when voting takes time,
\* though the parameters may have changed since.
THEOREM AlwaysClosedInTime == ASSUME Gov!GovernanceAssumption, VotingTakesTime PROVE Gov!Spec => []Gov!ClosedInTime
<1>1. Gov!Init => StillOpen
  BY DEF Gov!Init, StillOpen, VotingTakesTime
<1>2. ASSUME GovernanceInv, StillOpen, [Gov!Next]_(Gov!vars) PROVE StillOpen'
  <2>0. /\ Count \in Nat /\ epoch \in Nat /\ Orderly(Now, Count, epoch)
        /\ proposals \in [1..Count -> Stored] /\ DOMAIN proposals = 1..Count /\ params \in [Gov!Fields -> Nat]
        /\ transition \in BOOLEAN /\ failed \in BOOLEAN
        /\ \A i \in 1..Count : proposals[i].closesAt \in Nat
    <3>1. Count \in Nat /\ epoch \in Nat /\ Orderly(Now, Count, epoch)
      BY <1>2, CountTyped DEF GovernanceInv
    <3>2. /\ proposals \in [1..Count -> Stored] /\ DOMAIN proposals = 1..Count /\ params \in [Gov!Fields -> Nat]
          /\ failed \in BOOLEAN
      BY <3>1, NowTyped
    <3> QED
      BY <1>2, <3>1, <3>2 DEF GovernanceInv, Stored
  <2>1. ASSUME NEW a \in Accounts, NEW c \in Gov!Contents, Gov!SubmitProposal(a, c) PROVE StillOpen'
    <3> DEFINE n == Count
               p == [content |-> c, submitter |-> a, deposit |-> params.deposit, state |-> "active",
                     createdAt |-> epoch, closesAt |-> epoch + params.votingPeriod]
    <3>1. /\ proposals' = [i \in 1..(n + 1) |-> IF i = n + 1 THEN p ELSE proposals[i]]
          /\ UNCHANGED <<epoch, transition, params, failed>>
      BY <2>1, GovernanceCardinality DEF Gov!SubmitProposal, Count
    <3>2. params["votingPeriod"] \in Nat /\ params["votingPeriod"] > 0
      BY <1>2, <2>0 DEF StillOpen, Gov!Fields
    <3>3. p.closesAt > epoch /\ p.closesAt >= epoch
      BY <2>0, <3>2
    <3> HIDE DEF n, p
    <3>4. DOMAIN proposals' = 1..(n + 1) /\ \A i \in 1..(n + 1) : proposals'[i] = p \/ (i \in 1..n /\ proposals'[i] = proposals[i])
      BY <2>0, <3>1 DEF n
    <3> QED
      BY <1>2, <2>0, <3>1, <3>3, <3>4 DEF StillOpen, n
  <2>2. CASE UNCHANGED Gov!vars \/ \E a \in Accounts, id \in DOMAIN proposals, v \in Gov!Votes : Gov!CastVote(a, id, v)
    BY <1>2, <2>2 DEF StillOpen, Gov!vars, Gov!CastVote
  <2>3. ASSUME NEW vals \in (SUBSET Entities) \ {{}}, Gov!BeginEpoch(vals) PROVE StillOpen'
    <3>1. ~failed /\ ~transition /\ epoch' = epoch + 1 /\ transition' = TRUE /\ UNCHANGED <<params, proposals, failed>>
      BY <2>3 DEF Gov!BeginEpoch
    <3>2. \A id \in DOMAIN proposals : proposals[id].state = "active" => proposals[id].closesAt >= epoch + 1
      BY <1>2, <2>0, <3>1 DEF StillOpen
    <3> QED
      BY <1>2, <3>1, <3>2 DEF StillOpen
  <2>4. CASE Gov!EndBlock
    <3>1. /\ Progressed(Start, Now', Count) /\ Start.props = proposals
          /\ \A i \in 1..Count \ Gov!Closing : proposals'[i] = proposals[i]
          /\ ~failed' => \A i \in Gov!Closing : proposals'[i].state # "active"
          /\ params'["votingPeriod"] > 0
          /\ Orderly(Now', Count, epoch)
      BY <1>2, <2>4, EndBlockEffect DEF StillOpen
    <3>2. Now'.props = proposals' /\ epoch' = epoch
      BY <2>4 DEF Now, Gov!EndBlock
    <3>3. DOMAIN proposals' = 1..Count
      <4>1. Now' \in Ending(Count)
        BY <3>1 DEF Orderly
      <4> QED
        BY <3>2, <4>1 DEF Ending
    <3>4. ASSUME NEW i \in 1..Count, proposals'[i].state = "active"
          PROVE  proposals'[i].closesAt >= epoch /\ (~failed' => proposals'[i].closesAt > epoch)
      <4>1. proposals'[i].closesAt = proposals[i].closesAt /\ proposals[i].state = "active"
        BY <3>1, <3>2, <3>4 DEF Progressed
      <4>2. proposals[i].closesAt >= epoch
        BY <1>2, <2>0, <4>1 DEF StillOpen
      <4>3. ASSUME ~failed' PROVE proposals[i].closesAt # epoch
        <5>1. i \notin Gov!Closing
          BY <3>1, <3>4, <4>3
        <5>2. i \in Gov!IDs /\ Indexed(Now) /\ Now.act = active /\ Now.props = proposals
          BY <2>0 DEF Orderly, Now, Gov!IDs, Gov!GovernanceAssumption
        <5> QED
          BY <2>0, <4>1, <5>1, <5>2 DEF Indexed, Gov!Closing
      <4> QED
        BY <2>0, <4>1, <4>2, <4>3
    <3> QED
      BY <3>1, <3>2, <3>3, <3>4 DEF StillOpen
  <2> QED
    BY <1>2, <2>1, <2>2, <2>3, <2>4 DEF Gov!Next
<1>3. GovernanceInv /\ StillOpen => Gov!ClosedInTime
  <2> SUFFICES ASSUME GovernanceInv, StillOpen, NEW id \in DOMAIN proposals
               PROVE  /\ proposals[id].state = "active" <=> <<proposals[id].closesAt, id>> \in active
                      /\ proposals[id].state = "active" => proposals[id].closesAt >= epoch
    BY DEF Gov!ClosedInTime
  <2>1. Count \in Nat /\ Orderly(Now, Count, epoch)
    BY CountTyped DEF GovernanceInv
  <2>2. /\ proposals \in [1..Count -> Stored] /\ DOMAIN proposals = 1..Count /\ Count \in 0..MaxProposals
    BY <2>1, NowTyped
  <2>3. id \in Gov!IDs /\ proposals[id].closesAt \in Nat
    BY <2>2 DEF Gov!IDs, Stored, Gov!GovernanceAssumption
  <2>4. Indexed(Now) /\ Now.act = active /\ Now.props = proposals
    BY <2>1 DEF Orderly, Now
  <2> QED
    BY <2>3, <2>4 DEF Indexed, StillOpen
<1> QED
  BY <1>1, <1>2, <1>3, GovernanceInvariance, PTL DEF Gov!Spec

\* Pending upgrades are at least as many epochs apart as UpgradeMinEpochDiff was
\* at some time, however often governance raises and lowers it and however many
\* proposals were submitted before the first of them passed.
THEOREM UpgradesAlwaysApart ==
    ASSUME Gov!GovernanceAssumption PROVE Gov!Spec => []Gov!PendingUpgradesApart
<1>1. Gov!Init => ApartIn(Now)
  BY DEF Gov!Init, ApartIn, Now, Gov!DiffsInForce
<1>2. ASSUME GovernanceInv, ApartIn(Now), [Gov!Next]_(Gov!vars) PROVE ApartIn(Now)'
  <2>0. /\ Count \in Nat /\ DOMAIN proposals = 1..Count /\ pending \in SUBSET (1..Count)
        /\ Now.props = proposals /\ Now.pend = pending /\ Now.par = params
        /\ Now'.props = proposals' /\ Now'.pend = pending' /\ Now'.par = params'
    <3>1. Count \in Nat /\ Orderly(Now, Count, epoch)
      BY <1>2, CountTyped DEF GovernanceInv
    <3>2. DOMAIN proposals = 1..Count /\ pending \in SUBSET (1..Count)
      BY <3>1, NowTyped
    <3> QED
      BY <3>1, <3>2 DEF Now
  <2>1. ASSUME NEW a \in Accounts, NEW c \in Gov!Contents, Gov!SubmitProposal(a, c) PROVE ApartIn(Now)'
    <3> DEFINE n == Count
    <3>1. PICK p : proposals' = [i \in 1..(n + 1) |-> IF i = n + 1 THEN p ELSE proposals[i]]
      BY <2>1, GovernanceCardinality DEF Gov!SubmitProposal, Count
    <3>2. UNCHANGED <<params, pending>>
      BY <2>1 DEF Gov!SubmitProposal
    <3> HIDE DEF n
    <3>3. n \in Nat /\ \A i \in 1..n : proposals'[i] = proposals[i] /\ i \in DOMAIN proposals'
      BY <2>0, <3>1 DEF n
    <3>4. Gov!DiffsInForce(proposals) \subseteq Gov!DiffsInForce(proposals')
      BY <2>0, <3>3, DiffsStay DEF n
    <3> QED
      BY <1>2, <2>0, <3>2, <3>3, <3>4 DEF ApartIn, Between, n
  <2>2. CASE UNCHANGED Gov!vars \/ \E a \in Accounts, id \in DOMAIN proposals, v \in Gov!Votes : Gov!CastVote(a, id, v)
    <3>1. UNCHANGED <<params, pending, proposals>>
      BY <2>2 DEF Gov!vars, Gov!CastVote
    <3> QED
      BY <1>2, <2>0, <3>1 DEF ApartIn
  <2>3. ASSUME NEW vals \in (SUBSET Entities) \ {{}}, Gov!BeginEpoch(vals) PROVE ApartIn(Now)'
    <3>1. pending' \subseteq pending /\ UNCHANGED <<params, proposals>>
      BY <2>3 DEF Gov!BeginEpoch
    <3> QED
      BY <1>2, <2>0, <3>1 DEF ApartIn
  <2>4. CASE Gov!EndBlock
    <3>1. /\ ApartIn(Start) => ApartIn(Now')
          /\ Start.props = proposals /\ Start.pend = pending /\ Start.par = params
      BY <1>2, <2>4, EndBlockEffect
    <3>2. ApartIn(Start)
      BY <1>2, <2>0, <3>1 DEF ApartIn
    <3>3. ApartIn(Now')
      BY <3>1, <3>2
    <3> QED
      BY <3>3 DEF ApartIn
  <2> QED
    BY <1>2, <2>1, <2>2, <2>3, <2>4 DEF Gov!Next
<1>3. ApartIn(Now) => Gov!PendingUpgradesApart
  BY DEF ApartIn, Between, Now, Gov!PendingUpgradesApart
<1> QED
  BY <1>1, <1>2, <1>3, GovernanceInvariance, PTL DEF Gov!Spec
=============================================================================

-------------------------- MODULE Evidence_proofs --------------------------
(***************************************************************************)
(* What is kept as evidence: proofs.  What store() has acknowledged is     *)
(* found by a reader and what verify reports is so (EvidenceStore), for    *)
(* any number of writers and either backend; the modes acknowledged are    *)
(* the modes shown, and the accounts of the decisions agree (Enforcement), *)
(* for any hosts, nodes and requests; what is believed was vouched for, is *)
(* on file and is told alike (Documents), for any texts, lexicon and       *)
(* requests; an anchored root is the root of nothing but what was          *)
(* anchored, and each record has a proof (MerkleLog), for any number of    *)
(* them; what other tools report is told faithfully and counted right      *)
(* (Standards), whatever they report.                                      *)
(***************************************************************************)
EXTENDS MCEvidence, Sequences, Sums

-----------------------------------------------------------------------------
(* EvidenceStore: acknowledged artifacts and reports.                       *)

Points == {"idle", "lock", "append", "rest", "put", "stored"}

\* Every id was minted; a check has in hand what was there before.
TypeOK ==
  /\ torn \in Nat /\ lastId \in 0..MaxIds
  /\ readable \subseteq 1..lastId /\ tail \subseteq 1..lastId
  /\ rows \subseteq 1..lastId /\ acked \subseteq 1..lastId
  /\ lock \in Workers \cup {Nobody}
  /\ pc \in [Workers -> Points] /\ id \in [Workers -> 0..MaxIds]
  /\ check \in {"idle", "loaded", "done", "cut"}
  /\ loaded.rows \subseteq rows /\ loaded.damage \subseteq damage

\* Writers at work have artifacts of their own, whose rows are not committed.
IdsInv ==
  /\ \A w \in Workers : pc[w] # "idle" => id[w] \in 1..lastId /\ id[w] \notin rows
  /\ \A v, w \in Workers : pc[v] # "idle" /\ pc[w] # "idle" /\ v # w => id[v] # id[w]

\* Only the holder of the lock writes, and what it has begun is in the tail.
LockInv ==
  \A w \in Workers :
    /\ pc[w] \in {"append", "rest"} => lock = w
    /\ pc[w] = "rest" => id[w] \in tail

\* A lost artifact had its row, and nobody writes it again.
LostInv == \A e \in 1..MaxIds : <<"lost", e>> \in damage => e \in rows /\ e \notin readable

\* What is acknowledged and neither readable nor removed since.
Missing == (acked \ Damaged("lost")) \ readable

\* The tail holds bytes of a write that stopped.
Foreign == \E e \in tail : \A w \in Workers : pc[w] = "rest" => id[w] # e

\* A torn write has spoilt one line at most, or will spoil the next.
TornInv == Cardinality(Missing) + (IF Foreign THEN 1 ELSE 0) <= torn

\* Reports are about committed rows.
ReportInv == VerifyIsExact /\ \A b \in broken : b[2] \in rows

\* The inductive invariant.
StoreInv == TypeOK /\ IdsInv /\ LockInv /\ LostInv /\ TornInv /\ ReportInv

-----------------------------------------------------------------------------
(* What the parts of the invariant need of a step.                          *)

\* What is reported stays so while the check rests, the damage and the rows
\* only grow, and no committed artifact appears.
LEMMA ReportsStand ==
  ASSUME ReportInv, UNCHANGED <<check, loaded, broken>>,
         damage \subseteq damage', rows \subseteq rows',
         \A e \in rows : e \in readable' => e \in readable
  PROVE  ReportInv'
<1>1. ASSUME check = "done", NEW b \in broken
      PROVE  b[2] \notin readable' \/ \E kind \in {"meta", "pointer", "hash"} : <<kind, b[2]>> \in damage'
  BY <1>1 DEF ReportInv, VerifyIsExact
<1>2. \A b \in broken : b[2] \in rows'
  BY DEF ReportInv
<1>3. ASSUME check \in {"done", "cut"}, NEW e \in loaded.rows, Visible(e, loaded.damage)
      PROVE  \E b \in broken : b[2] = e
  BY <1>3 DEF ReportInv, VerifyIsExact
<1>4. \A e \in loaded.rows : Visible(e, loaded.damage)' = Visible(e, loaded.damage)
  BY DEF Visible
<1> QED
  BY <1>1, <1>2, <1>3, <1>4 DEF ReportInv, VerifyIsExact

\* There are finitely many artifacts.
LEMMA MissingIsFinite ==
  ASSUME TypeOK PROVE IsFiniteSet(Missing) /\ Cardinality(Missing) \in Nat
<1>1. lastId \in Nat
  BY StoreAssumption DEF TypeOK
<1>2. Missing \in SUBSET (1..lastId)
  BY DEF TypeOK, Missing
<1>3. IsFiniteSet(1..lastId)
  BY <1>1, FS_Interval
<1> QED
  BY <1>2, <1>3, FS_Subset, FS_CardinalityType

\* Fewer artifacts are missing, and no new bytes are left behind.
LEMMA NothingTorn ==
  ASSUME TypeOK, TornInv, torn' \in Nat, torn' >= torn, Missing' \subseteq Missing, Foreign' => Foreign
  PROVE  TornInv'
<1>1. /\ IsFiniteSet(Missing) /\ Cardinality(Missing) \in Nat
      /\ Missing' \in SUBSET Missing
  BY MissingIsFinite
<1>2. Cardinality(Missing') <= Cardinality(Missing) /\ Cardinality(Missing') \in Nat
  BY <1>1, FS_Subset, FS_CardinalityType
<1>3. Cardinality(Missing') = Cardinality(Missing)'
  OBVIOUS
<1> QED
  BY <1>1, <1>2, <1>3 DEF TornInv, TypeOK

\* A step of one writer that leaves the artifacts it writes and their rows
\* alone, and holds on to the lock or has no bytes in the tail.
LEMMA WriterMoves ==
  ASSUME StoreInv, NEW w \in Workers, NEW p \in Points, pc' = [pc EXCEPT ![w] = p],
         UNCHANGED <<torn, readable, tail, rows, acked, lastId, id, damage, check, loaded, broken>>,
         p # "idle" => pc[w] # "idle", p # "rest", pc[w] # "rest",
         lock' \in Workers \cup {Nobody},
         \A v \in Workers : v # w /\ lock = v => lock' = v,
         p = "append" => lock' = w
  PROVE  StoreInv'
<1>1. pc'[w] = p /\ \A v \in Workers : v # w => pc'[v] = pc[v]
  BY DEF StoreInv, TypeOK
<1>2. TypeOK'
  BY DEF StoreInv, TypeOK
<1>3. IdsInv'
  BY <1>1 DEF StoreInv, IdsInv
<1>4. LockInv'
  BY <1>1 DEF StoreInv, LockInv
<1>5. LostInv'
  BY DEF StoreInv, LostInv
<1>6. TornInv'
  <2>1. Missing' = Missing
    BY DEF Missing, Damaged
  <2>2. Foreign' => Foreign
    BY <1>1 DEF Foreign
  <2> QED
    BY <2>1, <2>2, NothingTorn DEF StoreInv, TypeOK
<1>7. ReportInv'
  BY ReportsStand DEF StoreInv
<1> QED
  BY <1>2, <1>3, <1>4, <1>5, <1>6, <1>7 DEF StoreInv

\* An empty store keeps its word.
LEMMA InitStore == Init => StoreInv
<1> SUFFICES ASSUME Init PROVE StoreInv
  OBVIOUS
<1> USE StoreAssumption
<1>1. TypeOK
  BY DEF Init, TypeOK, Points
<1>2. IdsInv /\ LockInv /\ LostInv
  BY DEF Init, IdsInv, LockInv, LostInv
<1>3. TornInv
  <2>1. Missing = {} /\ ~Foreign
    BY DEF Init, Missing, Foreign
  <2>2. Cardinality(Missing) = 0
    BY <2>1, FS_EmptySet
  <2> QED
    BY <2>1, <2>2 DEF TornInv, Init
<1>4. ReportInv
  BY DEF Init, ReportInv, VerifyIsExact
<1> QED
  BY <1>1, <1>2, <1>3, <1>4 DEF StoreInv

-----------------------------------------------------------------------------
(* The steps. *)

\* A new artifact has a number of its own.
LEMMA StoreKeeps == ASSUME StoreInv, NEW w \in Workers, Store(w) PROVE StoreInv'
<1> USE StoreAssumption
<1>1. /\ lastId' = lastId + 1 /\ lastId < MaxIds /\ pc[w] = "idle" /\ id' = [id EXCEPT ![w] = lastId + 1]
      /\ UNCHANGED <<torn, readable, tail, lock, rows, acked, damage, check, loaded, broken>>
  BY DEF Store, fixed, store, checker
<1>2. PICK p \in {"put", "lock"} : pc' = [pc EXCEPT ![w] = p]
  BY DEF Store
<1>3. /\ pc'[w] = p /\ \A v \in Workers : v # w => pc'[v] = pc[v]
      /\ id'[w] = lastId + 1 /\ \A v \in Workers : v # w => id'[v] = id[v]
  BY <1>1, <1>2 DEF StoreInv, TypeOK
<1>4. lastId \in Nat /\ 1..lastId \subseteq 1..lastId' /\ lastId' \in 0..MaxIds
  BY <1>1 DEF StoreInv, TypeOK
<1>5. TypeOK'
  <2>1. pc' \in [Workers -> Points] /\ id' \in [Workers -> 0..MaxIds]
    BY <1>1, <1>2, <1>4 DEF StoreInv, TypeOK, Points
  <2> QED
    BY <1>1, <1>4, <2>1 DEF StoreInv, TypeOK
<1>6. IdsInv'
  <2>1. lastId + 1 \notin rows /\ \A v \in Workers : pc[v] # "idle" => id[v] # lastId + 1
    BY <1>4 DEF StoreInv, TypeOK, IdsInv
  <2> QED
    BY <1>1, <1>3, <1>4, <2>1 DEF StoreInv, IdsInv
<1>7. LockInv' /\ LostInv'
  BY <1>1, <1>2, <1>3 DEF StoreInv, LockInv, LostInv
<1>8. TornInv'
  <2>1. Missing' = Missing
    BY <1>1 DEF Missing, Damaged
  <2>2. Foreign' => Foreign
    BY <1>1, <1>3 DEF Foreign
  <2> QED
    BY <1>1, <2>1, <2>2, NothingTorn DEF StoreInv, TypeOK
<1>9. ReportInv'
  BY <1>1, ReportsStand DEF StoreInv
<1> QED
  BY <1>5, <1>6, <1>7, <1>8, <1>9 DEF StoreInv

\* The first bytes of a line are its writer's, not foreign.
LEMMA AppendSomeStep == ASSUME StoreInv, NEW w \in Workers, AppendSome(w) PROVE StoreInv'
<1> USE StoreAssumption
<1>1. /\ pc[w] = "append" /\ tail' = tail \cup {id[w]} /\ pc' = [pc EXCEPT ![w] = "rest"]
      /\ UNCHANGED <<torn, readable, lock, rows, acked, lastId, id, damage, check, loaded, broken>>
  BY DEF AppendSome, fixed, checker
<1>2. pc'[w] = "rest" /\ \A v \in Workers : v # w => pc'[v] = pc[v]
  BY <1>1 DEF StoreInv, TypeOK
<1>3. TypeOK'
  BY <1>1 DEF StoreInv, TypeOK, IdsInv, Points
<1>4. IdsInv' /\ LockInv' /\ LostInv'
  BY <1>1, <1>2 DEF StoreInv, IdsInv, LockInv, LostInv
<1>5. TornInv'
  <2>1. Missing' = Missing
    BY <1>1 DEF Missing, Damaged
  <2>2. Foreign' => Foreign
    BY <1>1, <1>2 DEF Foreign
  <2> QED
    BY <1>1, <2>1, <2>2, NothingTorn DEF StoreInv, TypeOK
<1>6. ReportInv'
  BY <1>1, ReportsStand DEF StoreInv
<1> QED
  BY <1>3, <1>4, <1>5, <1>6 DEF StoreInv

\* Whatever else is in the line was left by a torn write, which it uses up.
LEMMA AppendRestStep == ASSUME StoreInv, NEW w \in Workers, AppendRest(w) PROVE StoreInv'
<1> USE StoreAssumption
<1>1. /\ pc[w] = "rest" /\ tail' = {} /\ lock' = Nobody /\ acked' \subseteq acked \cup {id[w]}
      /\ readable' = IF tail = {id[w]} THEN readable \cup {id[w]} ELSE readable
      /\ UNCHANGED <<torn, rows, lastId, id, damage, check, loaded, broken>>
  BY DEF AppendRest, fixed, checker
<1>2. PICK p \in {"stored", "idle"} : pc' = [pc EXCEPT ![w] = p]
  BY DEF AppendRest
<1>3. pc'[w] = p /\ \A v \in Workers : v # w => pc'[v] = pc[v]
  BY <1>2 DEF StoreInv, TypeOK
<1>4. id[w] \in 1..lastId /\ id[w] \notin rows /\ id[w] \in tail
  BY <1>1 DEF StoreInv, IdsInv, LockInv
<1>5. TypeOK'
  <2>1. pc' \in [Workers -> Points]
    BY <1>2 DEF StoreInv, TypeOK, Points
  <2>2. readable' \subseteq 1..lastId /\ acked' \subseteq 1..lastId
    BY <1>1, <1>4 DEF StoreInv, TypeOK
  <2> QED
    BY <1>1, <2>1, <2>2 DEF StoreInv, TypeOK
<1>6. IdsInv' /\ LostInv'
  BY <1>1, <1>2, <1>3, <1>4 DEF StoreInv, IdsInv, LostInv
<1>7. LockInv'
  <2>1. \A v \in Workers : v # w => pc[v] \notin {"append", "rest"}
    BY <1>1 DEF StoreInv, LockInv
  <2> QED
    BY <1>2, <1>3, <2>1 DEF LockInv
<1>8. TornInv'
  <2>1. ~Foreign'
    BY <1>1 DEF Foreign
  <2>2. CASE tail = {id[w]}
    <3>1. Missing' \subseteq Missing
      BY <1>1, <2>2 DEF Missing, Damaged
    <3> QED
      BY <1>1, <2>1, <3>1, NothingTorn DEF StoreInv, TypeOK
  <2>3. CASE tail # {id[w]}
    <3>1. Foreign
      <4>1. PICK e \in tail : e # id[w]
        BY <1>4, <2>3
      <4>2. \A v \in Workers : pc[v] = "rest" => v = w
        BY <1>1 DEF StoreInv, LockInv
      <4> QED
        BY <4>1, <4>2 DEF Foreign
    <3>2. Missing' \in SUBSET (Missing \cup {id[w]})
      BY <1>1, <2>3 DEF Missing, Damaged
    <3>3. IsFiniteSet(Missing) /\ Cardinality(Missing) \in Nat
      BY MissingIsFinite DEF StoreInv
    <3>4. /\ IsFiniteSet(Missing \cup {id[w]})
          /\ Cardinality(Missing \cup {id[w]}) <= Cardinality(Missing) + 1
          /\ Cardinality(Missing \cup {id[w]}) \in Nat
      <4>1. /\ IsFiniteSet(Missing \cup {id[w]})
            /\ Cardinality(Missing \cup {id[w]}) =
                 IF id[w] \in Missing THEN Cardinality(Missing) ELSE Cardinality(Missing) + 1
        BY <3>3, FS_AddElement
      <4> QED
        BY <3>3, <4>1
    <3>5. Cardinality(Missing') <= Cardinality(Missing \cup {id[w]}) /\ Cardinality(Missing') \in Nat
      BY <3>2, <3>4, FS_Subset, FS_CardinalityType
    <3>6. Cardinality(Missing') <= Cardinality(Missing) + 1 /\ torn \in Nat
      BY <3>3, <3>4, <3>5 DEF StoreInv, TypeOK
    <3> QED
      BY <1>1, <2>1, <3>1, <3>3, <3>5, <3>6 DEF StoreInv, TornInv
  <2> QED
    BY <2>2, <2>3
<1>9. ReportInv'
  BY <1>1, <1>4, ReportsStand DEF StoreInv
<1> QED
  BY <1>5, <1>6, <1>7, <1>8, <1>9 DEF StoreInv

\* An acknowledged put has landed.
LEMMA PutStep == ASSUME StoreInv, NEW w \in Workers, Put(w) PROVE StoreInv'
<1> USE StoreAssumption
<1>1. /\ pc[w] = "put" /\ readable' \in {readable, readable \cup {id[w]}}
      /\ acked' = acked \/ (acked' = acked \cup {id[w]} /\ id[w] \in readable')
      /\ UNCHANGED <<torn, tail, lock, rows, lastId, id, damage, check, loaded, broken>>
  BY DEF Put, fixed, checker
<1>2. PICK p \in {"stored", "put", "idle"} : pc' = [pc EXCEPT ![w] = p]
  BY DEF Put
<1>3. pc'[w] = p /\ \A v \in Workers : v # w => pc'[v] = pc[v]
  BY <1>2 DEF StoreInv, TypeOK
<1>4. id[w] \in 1..lastId /\ id[w] \notin rows
  BY <1>1 DEF StoreInv, IdsInv
<1>5. TypeOK'
  <2>1. pc' \in [Workers -> Points]
    BY <1>2 DEF StoreInv, TypeOK, Points
  <2>2. readable' \subseteq 1..lastId /\ acked' \subseteq 1..lastId
    BY <1>1, <1>4 DEF StoreInv, TypeOK
  <2> QED
    BY <1>1, <2>1, <2>2 DEF StoreInv, TypeOK
<1>6. IdsInv' /\ LostInv' /\ LockInv'
  BY <1>1, <1>2, <1>3, <1>4 DEF StoreInv, IdsInv, LostInv, LockInv
<1>7. TornInv'
  <2>1. Missing' \subseteq Missing
    BY <1>1 DEF Missing, Damaged
  <2>2. Foreign' => Foreign
    BY <1>1, <1>2, <1>3 DEF Foreign
  <2> QED
    BY <1>1, <2>1, <2>2, NothingTorn DEF StoreInv, TypeOK
<1>8. ReportInv'
  BY <1>1, <1>4, ReportsStand DEF StoreInv
<1> QED
  BY <1>5, <1>6, <1>7, <1>8 DEF StoreInv

\* A commit makes durable what the session holds.
LEMMA CommitStep == ASSUME StoreInv, NEW w \in Workers, Commit(w) PROVE StoreInv'
<1> USE StoreAssumption
<1>1. /\ pc[w] = "stored" /\ rows' = rows \cup {id[w]} /\ pc' = [pc EXCEPT ![w] = "idle"]
      /\ UNCHANGED <<torn, readable, tail, lock, acked, lastId, id, damage, check, loaded, broken>>
  BY DEF Commit, fixed, store, checker
<1>2. pc'[w] = "idle" /\ \A v \in Workers : v # w => pc'[v] = pc[v]
  BY <1>1 DEF StoreInv, TypeOK
<1>3. id[w] \in 1..lastId /\ id[w] \notin rows
  BY <1>1 DEF StoreInv, IdsInv
<1>4. TypeOK'
  BY <1>1, <1>3 DEF StoreInv, TypeOK, Points
<1>5. IdsInv' /\ LostInv' /\ LockInv'
  BY <1>1, <1>2, <1>3 DEF StoreInv, IdsInv, LostInv, LockInv
<1>6. TornInv'
  <2>1. Missing' = Missing
    BY <1>1 DEF Missing, Damaged
  <2>2. Foreign' => Foreign
    BY <1>1, <1>2 DEF Foreign
  <2> QED
    BY <1>1, <2>1, <2>2, NothingTorn DEF StoreInv, TypeOK
<1>7. ReportInv'
  <2>1. ReportInv
    BY DEF StoreInv
  <2>2. damage \subseteq damage' /\ rows \subseteq rows' /\ \A e \in rows : e \in readable' => e \in readable
    BY <1>1
  <2> QED
    BY <1>1, <2>1, <2>2, ReportsStand
<1> QED
  BY <1>4, <1>5, <1>6, <1>7 DEF StoreInv

\* A writer that dies in the middle of a line is counted, one that dies
\* elsewhere leaves nothing behind.
LEMMA AbortStep == ASSUME StoreInv, NEW w \in Workers, Abort(w) PROVE StoreInv'
<1> USE StoreAssumption
<1>1. /\ pc[w] # "idle" /\ pc' = [pc EXCEPT ![w] = "idle"]
      /\ torn' = IF pc[w] = "rest" THEN torn + 1 ELSE torn
      /\ lock' = IF lock = w THEN Nobody ELSE lock
      /\ UNCHANGED <<readable, tail, rows, acked, lastId, id, damage, check, loaded, broken>>
  BY DEF Abort, checker
<1>2. CASE pc[w] # "rest"
  <2>1. torn' = torn /\ lock' \in Workers \cup {Nobody}
    BY <1>1, <1>2 DEF StoreInv, TypeOK
  <2>2. \A v \in Workers : v # w /\ lock = v => lock' = v
    BY <1>1
  <2>3. "idle" \in Points
    BY DEF Points
  <2> QED
    BY <1>1, <1>2, <2>1, <2>2, <2>3, WriterMoves
<1>3. CASE pc[w] = "rest"
  <2>1. pc'[w] = "idle" /\ \A v \in Workers : v # w => pc'[v] = pc[v]
    BY <1>1 DEF StoreInv, TypeOK
  <2>2. TypeOK'
    BY <1>1, <1>3 DEF StoreInv, TypeOK, Points
  <2>3. IdsInv' /\ LostInv' /\ LockInv'
    BY <1>1, <2>1 DEF StoreInv, IdsInv, LostInv, LockInv
  <2>4. TornInv'
    <3>1. Missing' = Missing /\ Cardinality(Missing)' = Cardinality(Missing)
      BY <1>1 DEF Missing, Damaged
    <3>2. Cardinality(Missing) \in Nat /\ torn \in Nat /\ Cardinality(Missing) <= torn
      BY MissingIsFinite DEF StoreInv, TypeOK, TornInv
    <3> QED
      BY <1>1, <1>3, <3>1, <3>2 DEF TornInv
  <2>5. ReportInv'
    BY <1>1, ReportsStand DEF StoreInv
  <2> QED
    BY <2>2, <2>3, <2>4, <2>5 DEF StoreInv
<1> QED
  BY <1>2, <1>3

\* What is removed has its row, and is not counted as missing.
LEMMA DamageStep ==
  ASSUME StoreInv, NEW kind \in Kinds, NEW e \in rows, Damage(kind, e) PROVE StoreInv'
<1> USE StoreAssumption
<1>1. /\ damage' = damage \cup {<<kind, e>>} /\ e \in rows
      /\ readable' = IF kind = "lost" THEN readable \ {e} ELSE readable
      /\ UNCHANGED <<torn, tail, lock, rows, acked, lastId, pc, id, check, loaded, broken>>
  BY DEF Damage, fixed, writers, checker
<1>2. TypeOK'
  BY <1>1 DEF StoreInv, TypeOK
<1>3. IdsInv' /\ LockInv'
  BY <1>1 DEF StoreInv, IdsInv, LockInv
<1>4. LostInv'
  BY <1>1 DEF StoreInv, LostInv
<1>5. TornInv'
  <2>1. e \in 1..MaxIds
    <3>1. rows \subseteq 1..lastId /\ lastId \in 0..MaxIds /\ MaxIds \in Nat
      BY DEF StoreInv, TypeOK, StoreAssumption
    <3>2. e \in 1..lastId
      BY <3>1
    <3> QED
      BY <3>1, <3>2
  <2>2. Missing' \subseteq Missing
    BY <1>1, <2>1 DEF Missing, Damaged
  <2>3. Foreign' => Foreign
    BY <1>1 DEF Foreign
  <2> QED
    BY <1>1, <2>2, <2>3, NothingTorn DEF StoreInv, TypeOK
<1>6. ReportInv'
  BY <1>1, ReportsStand DEF StoreInv
<1> QED
  BY <1>2, <1>3, <1>4, <1>5, <1>6 DEF StoreInv

\* A step of the check writes nothing but its own findings.
LEMMA CheckStep == ASSUME StoreInv, LoadRows \/ ReadStore PROVE StoreInv'
<1> USE StoreAssumption
<1>1. UNCHANGED <<torn, readable, tail, lock, rows, acked, lastId, pc, id, damage>>
  BY DEF LoadRows, ReadStore, fixed, store, writers
<1>2. TypeOK'
  <2>1. CASE LoadRows
    BY <1>1, <2>1 DEF LoadRows, StoreInv, TypeOK
  <2>2. CASE ReadStore
    BY <1>1, <2>2 DEF ReadStore, StoreInv, TypeOK
  <2> QED
    BY <2>1, <2>2
<1>3. IdsInv' /\ LockInv' /\ LostInv'
  BY <1>1 DEF StoreInv, IdsInv, LockInv, LostInv
<1>4. TornInv'
  <2>1. Missing' = Missing /\ Foreign' = Foreign
    BY <1>1 DEF Missing, Damaged, Foreign
  <2> QED
    BY <1>1, <2>1, NothingTorn DEF StoreInv, TypeOK
<1>5. ReportInv'
  <2>1. CASE LoadRows
    BY <2>1 DEF LoadRows, ReportInv, VerifyIsExact
  <2>2. ASSUME NEW found \in SUBSET readable, check' = "done" => found = readable,
               check' \in {"done", "cut"}, UNCHANGED loaded,
               broken' = UNION {Verdict(e, found) : e \in loaded.rows}
        PROVE  ReportInv'
    <3>1. ASSUME NEW b \in broken'
          PROVE  /\ b[2] \in rows
                 /\ check' = "done" =>
                      b[2] \notin readable \/ \E kind \in {"meta", "pointer", "hash"} : <<kind, b[2]>> \in damage
      <4>1. PICK e \in loaded.rows : b \in Verdict(e, found)
        BY <2>2, <3>1
      <4>2. loaded.rows \subseteq rows /\ loaded.damage \subseteq damage
        BY DEF StoreInv, TypeOK
      <4>3. /\ b[2] = e
            /\ \/ e \notin found
               \/ \E kind \in {"meta", "pointer", "hash"} : <<kind, e>> \in damage
        BY <4>1, <4>2 DEF Verdict, Edited, Bare, Repointed
      <4> QED
        BY <2>2, <4>1, <4>2, <4>3
    <3>2. ASSUME NEW e \in loaded.rows, Visible(e, loaded.damage)
          PROVE  \E b \in broken' : b[2] = e
      <4>1. e \in 1..MaxIds
        <5>1. e \in 1..lastId /\ lastId \in 0..MaxIds
          BY <3>2 DEF StoreInv, TypeOK
        <5> QED
          BY <5>1
      <4>2. <<"lost", e>> \in loaded.damage => e \notin found
        BY <2>2, <4>1 DEF StoreInv, LostInv, TypeOK
      <4>3. \/ Edited(e) /\ ~Bare(e)
            \/ e \notin found
            \/ Repointed(e) \/ <<"hash", e>> \in damage
        BY <3>2, <4>2 DEF Visible, Edited, Bare, Repointed, StoreInv, TypeOK
      <4>4. \E b \in Verdict(e, found) : b[2] = e
        BY <4>3 DEF Verdict
      <4> QED
        BY <2>2, <4>4
    <3> QED
      BY <1>1, <2>2, <3>1, <3>2 DEF ReportInv, VerifyIsExact, Visible
  <2>3. CASE ReadStore
    BY <2>2, <2>3 DEF ReadStore
  <2> QED
    BY <2>1, <2>3
<1> QED
  BY <1>2, <1>3, <1>4, <1>5 DEF StoreInv

\* Every step keeps the word of the store.
LEMMA StoreStays == StoreInv /\ [Next]_vars => StoreInv'
<1> SUFFICES ASSUME StoreInv, [Next]_vars PROVE StoreInv'
  OBVIOUS
<1>1. ASSUME NEW w \in Workers, Acquire(w) PROVE StoreInv'
  <2>1. /\ pc[w] = "lock" /\ lock = Nobody /\ lock' = w /\ pc' = [pc EXCEPT ![w] = "append"]
        /\ UNCHANGED <<torn, readable, tail, rows, acked, lastId, id, damage, check, loaded, broken>>
    BY <1>1 DEF Acquire, fixed, checker
  <2>2. "append" \in Points /\ \A v \in Workers : lock # v
    BY <2>1, StoreAssumption DEF Points
  <2> QED
    BY <2>1, <2>2, WriterMoves
<1>2. ASSUME UNCHANGED vars PROVE StoreInv'
  <2>1. UNCHANGED <<torn, readable, tail, lock, rows, acked, lastId, pc, id, damage, check, loaded, broken>>
    BY <1>2 DEF vars, fixed, store, writers, checker
  <2>2. Missing' = Missing /\ (Foreign' <=> Foreign)
    BY <2>1 DEF Missing, Damaged, Foreign
  <2>3. TypeOK' /\ IdsInv' /\ LockInv' /\ LostInv'
    BY <2>1 DEF StoreInv, TypeOK, IdsInv, LockInv, LostInv
  <2>4. TornInv'
    BY <2>1, <2>2, NothingTorn DEF StoreInv, TypeOK
  <2>5. ReportInv'
    BY <2>1, ReportsStand DEF StoreInv
  <2> QED
    BY <2>3, <2>4, <2>5 DEF StoreInv
<1> QED
  BY <1>1, <1>2, StoreKeeps, AppendSomeStep, AppendRestStep, PutStep, CommitStep, AbortStep,
     DamageStep, CheckStep DEF Next, Write, Quiet

\* However writers, checks and damage interleave, and wherever writers stop:
\* what store() acknowledged is found by a reader unless it was removed, but
\* for at most one line per torn write; and verify reports what was visibly
\* damaged when it loaded the rows, and nothing that is intact.
THEOREM StoreAlwaysKeepsItsWord == Spec => []StoreKeepsItsWord
<1>1. StoreInv => StoreKeepsItsWord
  <2> SUFFICES ASSUME StoreInv PROVE StoreKeepsItsWord
    OBVIOUS
  <2>1. Cardinality(Missing) \in Nat /\ torn \in Nat
    BY MissingIsFinite DEF StoreInv, TypeOK
  <2>2. AcknowledgedIsReadable
    BY <2>1 DEF StoreInv, TornInv, Missing, AcknowledgedIsReadable
  <2> QED
    BY <2>2 DEF StoreInv, ReportInv, StoreKeepsItsWord
<1> QED
  BY <1>1, InitStore, StoreStays, PTL DEF Spec

-----------------------------------------------------------------------------
(* Enforcement: the modes acknowledged.                                     *)

\* What the file was looked up as, by a request or for one.
Looked == DOMAIN cache \cup {request[r].version : r \in {q \in Requests : Plane!At(q, "parse")}}

Writing == {r \in Requests : Plane!At(r, "write")}

BundleOK ==
  /\ stamp[1] \in Nat
  /\ request = [r \in Requests |-> request[r]]
  /\ \A v \in Looked : v[1] \in Nat /\ v[1] <= stamp[1]

\* The one switch under way will write what is shown, but for its host.
SwitchInv ==
  /\ shown \in [Hosts -> Plane!Modes]
  /\ \A q, r \in Plane!Switching : q = r
  /\ \A r \in Plane!Switching :
       /\ request[r].doc \in [Hosts -> Plane!Modes]
       /\ request[r].doc = [shown EXCEPT ![request[r].host] = request[r].doc[request[r].host]]

\* Between the two steps of a write the file is empty, and so is the version
\* of anything that was looked up since the first.
FileInv ==
  /\ Writing # {} => /\ file = Plane!Emptied /\ stamp[2] = 0
                     /\ \A v \in Looked : v[1] = stamp[1] => v[2] = 0
  /\ Writing = {} => /\ file = Plane!Whole(shown)
                     /\ stamp \in DOMAIN cache => cache[stamp] = shown

BundleInv == BundleOK /\ (~spoiled => SwitchInv /\ FileInv)

\* A text has a line end.
LEMMA TextsHaveLength ==
  ASSUME Plane!EnforcementAssumption, NEW doc
  PROVE  Plane!Length(doc) \in Nat /\ Plane!Length(doc) > 0
<1> DEFINE E == {h \in Hosts : doc[h] = "enforce"}
<1>1. E \in SUBSET Hosts /\ IsFiniteSet(Hosts)
  BY DEF Plane!EnforcementAssumption, Plane!IsFiniteSet, IsFiniteSet
<1>2. Plane!Length(doc) = 1 + Cardinality(E)
  <2>1. Plane!Cardinality(E) = Cardinality(E)
    BY DEF Plane!Cardinality, Cardinality, Plane!IsFiniteSet, IsFiniteSet
  <2> QED
    BY <2>1 DEF Plane!Length
<1> HIDE DEF E
<1>3. Cardinality(E) \in Nat
  BY <1>1, FS_Subset, FS_CardinalityType
<1> QED
  BY <1>2, <1>3

\* What is shown is never the mark of an unreadable file.
LEMMA ShownIsThere ==
  ASSUME Plane!EnforcementAssumption, SwitchInv
  PROVE  shown # None
BY DEF Plane!EnforcementAssumption, SwitchInv, Plane!Modes

\* A request's step, and the others.
LEMMA RequestFacts ==
  ASSUME BundleOK, NEW r \in Requests, NEW v, request' = [request EXCEPT ![r] = v]
  PROVE  /\ \A q \in Requests : request'[q] = IF q = r THEN v ELSE request[q]
         /\ request' = [q \in Requests |-> request'[q]]
BY DEF BundleOK

\* At first the file is whole and nobody has looked.
LEMMA BundleBegins ==
  ASSUME Plane!EnforcementAssumption, Plane!Init
  PROVE  BundleInv
<1>1. PICK doc \in [Hosts -> Plane!Modes] :
        file = Plane!Whole(doc) /\ stamp = <<0, Plane!Length(doc)>> /\ shown = doc
  BY DEF Plane!Init
<1>2. /\ \A r \in Requests : request[r].todo = "idle"
      /\ request = [r \in Requests |-> request[r]]
      /\ DOMAIN cache = {}
  BY DEF Plane!Init, Plane!Idle
<1>3. Looked = {} /\ Writing = {} /\ Plane!Switching = {}
  BY <1>2 DEF Looked, Writing, Plane!Switching, Plane!At
<1>4. BundleOK
  BY <1>1, <1>2, <1>3 DEF BundleOK
<1>5. SwitchInv /\ FileInv
  BY <1>1, <1>2, <1>3 DEF SwitchInv, FileInv
<1> QED
  BY <1>4, <1>5 DEF BundleInv

\* A step that leaves the file and its readers alone.
LEMMA OthersKeep ==
  ASSUME BundleInv, UNCHANGED <<file, stamp, cache, request, shown, spoiled>>
  PROVE  BundleInv'
<1>1. Looked' = Looked /\ Writing' = Writing /\ Plane!Switching' = Plane!Switching
  BY DEF Looked, Writing, Plane!Switching, Plane!At
<1>2. BundleOK'
  BY <1>1 DEF BundleInv, BundleOK
<1>3. SwitchInv => SwitchInv'
  BY <1>1 DEF SwitchInv
<1>4. FileInv => FileInv'
  BY <1>1 DEF FileInv
<1> QED
  BY <1>2, <1>3, <1>4 DEF BundleInv

\* A switch reads the file before anything is emptied.
LEMMA SwitchKeeps ==
  ASSUME Plane!EnforcementAssumption, BundleInv,
         NEW r \in Requests, NEW h \in Hosts, NEW m \in Plane!Modes, Plane!Switch(r, h, m)
  PROVE  BundleInv'
<1>1. /\ request[r].todo = "idle"
      /\ UNCHANGED <<file, stamp, cache, shown>>
  BY DEF Plane!Switch, Plane!Idle
<1>2. CASE UNCHANGED <<request, spoiled>>
  BY <1>1, <1>2, OthersKeep
<1>3. CASE /\ file.doc # None
           /\ request' = [request EXCEPT ![r] =
                            [todo |-> "open", host |-> h, doc |-> [file.doc EXCEPT ![h] = m]]]
           /\ spoiled' = (spoiled \/ Plane!Switching # {})
  <2> DEFINE doc == [file.doc EXCEPT ![h] = m]
             v == [todo |-> "open", host |-> h, doc |-> doc]
  <2>1. /\ \A q \in Requests : request'[q] = IF q = r THEN v ELSE request[q]
        /\ request' = [q \in Requests |-> request'[q]]
    BY <1>3, RequestFacts DEF BundleInv
  <2>2. v.todo = "open" /\ v.host = h /\ v.doc = doc
    OBVIOUS
  <2> HIDE DEF v
  <2>3. Looked' = Looked
    BY <1>1, <2>1, <2>2 DEF Looked, Plane!At
  <2>4. Writing' = Writing
    BY <1>1, <2>1, <2>2 DEF Writing, Plane!At
  <2>5. BundleOK'
    BY <1>1, <2>1, <2>3 DEF BundleInv, BundleOK
  <2>6. SUFFICES ASSUME ~spoiled' PROVE SwitchInv' /\ FileInv'
    BY <2>5 DEF BundleInv
  <2>7. ~spoiled /\ Plane!Switching = {}
    BY <1>3, <2>6
  <2>8. SwitchInv /\ FileInv
    BY <2>7 DEF BundleInv
  <2>9. Writing = {} /\ \A q \in Plane!Switching' : q = r
    BY <2>1, <2>7 DEF Writing, Plane!Switching, Plane!At
  <2>10. file.doc = shown
    BY <2>8, <2>9 DEF FileInv, Plane!Whole
  <2>11. /\ doc \in [Hosts -> Plane!Modes]
         /\ doc = [shown EXCEPT ![h] = doc[h]]
    BY <2>8, <2>10 DEF SwitchInv
  <2>12. SwitchInv'
    BY <1>1, <2>1, <2>2, <2>8, <2>9, <2>11 DEF SwitchInv
  <2>13. FileInv'
    BY <1>1, <2>3, <2>4, <2>8 DEF FileInv
  <2> QED
    BY <2>12, <2>13
<1> QED
  BY <1>2, <1>3 DEF Plane!Switch

\* An emptied file has a version of its own, unless two changes share a tick.
LEMMA OpenKeeps ==
  ASSUME Plane!EnforcementAssumption, BundleInv, NEW r \in Requests, Plane!Open(r)
  PROVE  BundleInv'
<1> DEFINE v == [todo |-> "write", host |-> request[r].host, doc |-> request[r].doc]
<1>1. /\ request[r].todo = "open"
      /\ request' = [request EXCEPT ![r] = v]
      /\ file' = Plane!Emptied
      /\ UNCHANGED <<cache, shown>>
  BY DEF Plane!Open, Plane!At
<1>2. PICK later \in {0, 1} : stamp' = <<stamp[1] + later, 0>> /\ spoiled' = (spoiled \/ later = 0)
  BY DEF Plane!Open
<1>3. /\ \A q \in Requests : request'[q] = IF q = r THEN v ELSE request[q]
      /\ request' = [q \in Requests |-> request'[q]]
  BY <1>1, RequestFacts DEF BundleInv
<1>4. v.todo = "write" /\ v.host = request[r].host /\ v.doc = request[r].doc
  OBVIOUS
<1> HIDE DEF v
<1>5. Looked' = Looked
  BY <1>1, <1>3, <1>4 DEF Looked, Plane!At
<1>6. r \in Writing' /\ Plane!Switching' = Plane!Switching /\ r \in Plane!Switching
  BY <1>1, <1>3, <1>4 DEF Writing, Plane!Switching, Plane!At
<1>7. stamp[1] \in Nat /\ stamp'[1] = stamp[1] + later /\ stamp'[2] = 0
  BY <1>2 DEF BundleInv, BundleOK
<1>8. BundleOK'
  BY <1>1, <1>3, <1>5, <1>7 DEF BundleInv, BundleOK
<1>9. SUFFICES ASSUME ~spoiled' PROVE SwitchInv' /\ FileInv'
  BY <1>8 DEF BundleInv
<1>10. ~spoiled /\ later = 1
  BY <1>2, <1>9
<1>11. SwitchInv
  BY <1>10 DEF BundleInv
<1>12. SwitchInv'
  BY <1>1, <1>3, <1>4, <1>6, <1>11 DEF SwitchInv
<1>13. \A x \in Looked' : x[1] # stamp'[1]
  BY <1>5, <1>7, <1>10 DEF BundleInv, BundleOK
<1>14. FileInv'
  BY <1>1, <1>6, <1>7, <1>13 DEF FileInv
<1> QED
  BY <1>12, <1>14

\* A text written into an empty file is the file's, under a new version.
LEMMA WriteKeeps ==
  ASSUME Plane!EnforcementAssumption, BundleInv, NEW r \in Requests, Plane!Write(r)
  PROVE  BundleInv'
<1> DEFINE doc == request[r].doc
           h == request[r].host
<1>1. /\ request[r].todo = "write"
      /\ request' = [request EXCEPT ![r] = Plane!Idle]
      /\ file' = Plane!Over(doc)
      /\ shown' = [shown EXCEPT ![h] = doc[h]]
      /\ UNCHANGED <<cache, spoiled>>
  BY DEF Plane!Write, Plane!At, Plane!Finish
<1>2. PICK later \in {0, 1} : stamp' = <<stamp[1] + later, file'.length>>
  BY DEF Plane!Write
<1>3. /\ \A q \in Requests : request'[q] = IF q = r THEN Plane!Idle ELSE request[q]
      /\ request' = [q \in Requests |-> request'[q]]
  BY <1>1, RequestFacts DEF BundleInv
<1>4. Looked' = Looked
  BY <1>1, <1>3 DEF Looked, Plane!At, Plane!Idle
<1>5. Plane!Switching' = Plane!Switching \ {r} /\ r \in Plane!Switching /\ r \in Writing
  BY <1>1, <1>3 DEF Plane!Switching, Writing, Plane!At, Plane!Idle
<1>6. stamp[1] \in Nat /\ stamp'[1] = stamp[1] + later /\ stamp'[2] = file'.length
  BY <1>2 DEF BundleInv, BundleOK
<1>7. BundleOK'
  BY <1>1, <1>3, <1>4, <1>6 DEF BundleInv, BundleOK
<1>8. SUFFICES ASSUME ~spoiled' PROVE SwitchInv' /\ FileInv'
  BY <1>7 DEF BundleInv
<1>9. SwitchInv /\ FileInv
  BY <1>1, <1>8 DEF BundleInv
<1>10. shown' = doc /\ doc \in [Hosts -> Plane!Modes]
  BY <1>1, <1>5, <1>9 DEF SwitchInv
<1>11. Plane!Switching' = {} /\ Writing' = {}
  <2>1. Plane!Switching' = {}
    BY <1>5, <1>9 DEF SwitchInv
  <2> QED
    BY <2>1 DEF Plane!Switching, Writing
<1>12. SwitchInv'
  BY <1>10, <1>11 DEF SwitchInv
<1>13. file.length = 0 /\ \A v \in Looked : v[1] = stamp[1] => v[2] = 0
  BY <1>5, <1>9 DEF FileInv, Plane!Emptied
<1>14. Plane!Length(doc) \in Nat /\ Plane!Length(doc) > 0
  BY TextsHaveLength
<1>15. file' = Plane!Whole(doc) /\ file'.length = Plane!Length(doc)
  BY <1>1, <1>13, <1>14 DEF Plane!Over, Plane!Whole
<1>16. stamp' \notin Looked'
  <2>1. SUFFICES ASSUME stamp' \in Looked PROVE FALSE
    BY <1>4
  <2>2. stamp'[1] \in Nat /\ stamp'[1] <= stamp[1]
    BY <2>1 DEF BundleInv, BundleOK
  <2>3. stamp'[1] = stamp[1]
    BY <1>6, <2>2
  <2>4. stamp'[2] = 0
    BY <1>13, <2>1, <2>3
  <2> QED
    BY <1>6, <1>14, <1>15, <2>4
<1>17. FileInv'
  BY <1>10, <1>11, <1>15, <1>16 DEF FileInv, Looked
<1> QED
  BY <1>12, <1>17

\* A process that starts again remembers nothing, and the file is whole unless
\* a switch was writing.
LEMMA KillKeeps ==
  ASSUME BundleInv, Plane!Kill
  PROVE  BundleInv'
<1>1. /\ request' = [r \in Requests |-> Plane!Idle]
      /\ cache' = [s \in {} |-> Plane!NoSystems]
      /\ spoiled' = (spoiled \/ \E r \in Requests : Plane!At(r, "write"))
      /\ UNCHANGED <<file, stamp, shown>>
  BY DEF Plane!Kill
<1>2. Looked' = {} /\ Writing' = {} /\ Plane!Switching' = {}
  BY <1>1 DEF Looked, Writing, Plane!Switching, Plane!At, Plane!Idle
<1>3. BundleOK'
  BY <1>1, <1>2 DEF BundleInv, BundleOK
<1>4. ASSUME ~spoiled' PROVE SwitchInv' /\ FileInv'
  <2>1. ~spoiled /\ Writing = {}
    BY <1>1, <1>4 DEF Writing
  <2>2. SwitchInv /\ FileInv
    BY <2>1 DEF BundleInv
  <2>3. SwitchInv'
    BY <1>1, <1>2, <2>2 DEF SwitchInv
  <2>4. stamp' \notin DOMAIN cache'
    BY <1>2 DEF Looked
  <2> QED
    BY <1>1, <1>2, <2>1, <2>2, <2>3, <2>4 DEF FileInv
<1> QED
  BY <1>3, <1>4 DEF BundleInv

\* The version looked up is the present one.
LEMMA LookUpKeeps ==
  ASSUME BundleInv, NEW r \in Requests, Plane!LookUp(r)
  PROVE  BundleInv'
<1> DEFINE v == [todo |-> "parse", version |-> stamp]
<1>1. /\ request[r].todo = "idle"
      /\ request' = [request EXCEPT ![r] = v]
      /\ UNCHANGED <<file, stamp, cache, shown, spoiled>>
  BY DEF Plane!LookUp, Plane!Idle, Plane!Version
<1>2. /\ \A q \in Requests : request'[q] = IF q = r THEN v ELSE request[q]
      /\ request' = [q \in Requests |-> request'[q]]
  BY <1>1, RequestFacts DEF BundleInv
<1>3. v.todo = "parse" /\ v.version = stamp
  OBVIOUS
<1> HIDE DEF v
<1>4. Looked' = Looked \cup {stamp}
  BY <1>1, <1>2, <1>3 DEF Looked, Plane!At
<1>5. Plane!Switching' = Plane!Switching /\ Writing' = Writing /\ r \notin Plane!Switching
  BY <1>1, <1>2, <1>3 DEF Plane!Switching, Writing, Plane!At
<1>6. BundleOK'
  BY <1>1, <1>2, <1>4 DEF BundleInv, BundleOK
<1>7. ASSUME ~spoiled' PROVE SwitchInv' /\ FileInv'
  <2>1. SwitchInv /\ FileInv
    BY <1>1, <1>7 DEF BundleInv
  <2>2. SwitchInv'
    BY <1>1, <1>2, <1>5, <2>1 DEF SwitchInv
  <2> QED
    BY <1>1, <1>4, <1>5, <2>1, <2>2 DEF FileInv
<1> QED
  BY <1>6, <1>7 DEF BundleInv

\* What is remembered for the present version is what the file says.
LEMMA ParseKeeps ==
  ASSUME Plane!EnforcementAssumption, BundleInv, NEW r \in Requests, Plane!Parse(r)
  PROVE  BundleInv'
<1> DEFINE v == request[r].version
<1>1. /\ request[r].todo = "parse"
      /\ request' = [request EXCEPT ![r] = Plane!Idle]
      /\ UNCHANGED <<file, stamp, shown, spoiled>>
  BY DEF Plane!Parse, Plane!At, Plane!Finish
<1>2. /\ \A q \in Requests : request'[q] = IF q = r THEN Plane!Idle ELSE request[q]
      /\ request' = [q \in Requests |-> request'[q]]
  BY <1>1, RequestFacts DEF BundleInv
<1>3. v \in Looked
  BY <1>1 DEF Looked, Plane!At
<1>4. /\ DOMAIN cache' \subseteq DOMAIN cache \cup {v}
      /\ \A x \in DOMAIN cache' : (x = v /\ cache'[x] = Plane!Parsed) \/ cache'[x] = cache[x]
      /\ \A x \in DOMAIN cache' : x \notin DOMAIN cache => x = v /\ cache'[x] = Plane!Parsed
  <2>1. ASSUME NEW kept \in Plane!Forgetting(v), NEW x, x = v,
               cache' = [s \in DOMAIN kept \cup {x} |-> IF s = x THEN Plane!Parsed ELSE kept[s]]
        PROVE  /\ DOMAIN cache' \subseteq DOMAIN cache \cup {x}
               /\ \A s \in DOMAIN cache' : (s = x /\ cache'[s] = Plane!Parsed) \/ cache'[s] = cache[s]
               /\ \A s \in DOMAIN cache' : s \notin DOMAIN cache => s = x /\ cache'[s] = Plane!Parsed
    <3>1. DOMAIN kept \subseteq DOMAIN cache /\ \A s \in DOMAIN kept : kept[s] = cache[s]
      BY <2>1 DEF Plane!Forgetting
    <3> HIDE DEF v
    <3> QED
      BY <2>1, <3>1
  <2>2. \/ UNCHANGED cache
        \/ \E kept \in Plane!Forgetting(v) :
             cache' = [s \in DOMAIN kept \cup {v} |-> IF s = v THEN Plane!Parsed ELSE kept[s]]
    BY DEF Plane!Parse
  <2> HIDE DEF v
  <2> QED
    BY <2>1, <2>2
<1>5. Looked' \subseteq Looked
  BY <1>1, <1>2, <1>3, <1>4 DEF Looked, Plane!At, Plane!Idle
<1>6. Plane!Switching' = Plane!Switching /\ Writing' = Writing /\ r \notin Plane!Switching
  BY <1>1, <1>2 DEF Plane!Switching, Writing, Plane!At, Plane!Idle
<1>7. BundleOK'
  BY <1>1, <1>2, <1>5 DEF BundleInv, BundleOK
<1>8. ASSUME ~spoiled' PROVE SwitchInv' /\ FileInv'
  <2>1. SwitchInv /\ FileInv
    BY <1>1, <1>8 DEF BundleInv
  <2>2. SwitchInv'
    BY <1>1, <1>2, <1>6, <2>1 DEF SwitchInv
  <2>3. ASSUME Writing = {}, stamp \in DOMAIN cache' PROVE cache'[stamp] = shown
    <3>1. Plane!Parsed = shown
      BY <2>1, <2>3, ShownIsThere DEF FileInv, SwitchInv, Plane!Parsed, Plane!Whole
    <3> QED
      BY <1>4, <2>1, <2>3, <3>1 DEF FileInv
  <2> QED
    BY <1>1, <1>5, <1>6, <2>1, <2>2, <2>3 DEF FileInv
<1> QED
  BY <1>7, <1>8 DEF BundleInv

\* Every step keeps the bundle in order.
LEMMA BundleKeeps ==
  ASSUME Plane!EnforcementAssumption, BundleInv, [Plane!Next]_Plane!vars
  PROVE  BundleInv'
<1>2. ASSUME NEW r \in Requests,
             \/ \E h \in Hosts, m \in Plane!Modes : Plane!Switch(r, h, m)
             \/ Plane!Open(r) \/ Plane!Write(r) \/ Plane!LookUp(r) \/ Plane!Parse(r)
      PROVE  BundleInv'
  BY <1>2, SwitchKeeps, OpenKeeps, WriteKeeps, LookUpKeeps, ParseKeeps
<1>3. CASE Plane!Kill
  BY <1>3, KillKeeps
<1>4. CASE Plane!LogNext \/ UNCHANGED Plane!vars
  <2>1. UNCHANGED <<file, stamp, cache, request, shown, spoiled>>
    BY <1>4 DEF Plane!LogNext, Plane!Ingest, Plane!FallSilent, Plane!vars, Plane!bundleVars
  <2> QED
    BY <2>1, OthersKeep
<1> QED
  BY <1>2, <1>3, <1>4 DEF Plane!Next, Plane!BundleNext

\* Once a switch is acknowledged, and none is writing, every reader is told
\* the modes acknowledged, for any number of hosts, requests and versions.
THEOREM AcknowledgedModesShow ==
  ASSUME Plane!EnforcementAssumption
  PROVE  Plane!Spec => []AcknowledgedModeShows
<1>1. BundleInv => AcknowledgedModeShows
  <2>1. SUFFICES ASSUME BundleInv, ~spoiled, \A r \in Requests : ~Plane!At(r, "write")
                 PROVE  Plane!SystemsConfig = shown
    BY DEF AcknowledgedModeShows, Plane!AcknowledgedModeShows
  <2>2. SwitchInv /\ FileInv /\ Writing = {}
    BY <2>1 DEF BundleInv, Writing
  <2>3. Plane!Parsed = shown
    BY <2>2, ShownIsThere DEF FileInv, SwitchInv, Plane!Parsed, Plane!Whole
  <2> QED
    BY <2>2, <2>3 DEF Plane!SystemsConfig, Plane!Version, FileInv
<1>2. Plane!Init => BundleInv
  BY BundleBegins
<1>3. BundleInv /\ [Plane!Next]_Plane!vars => BundleInv'
  BY BundleKeeps
<1> QED
  BY <1>1, <1>2, <1>3, PTL DEF Plane!Spec

-----------------------------------------------------------------------------
(* Enforcement: the accounts of the decisions.                              *)

\* What Enforcement calls a number of things, or a sum, is what is meant here.
LEMMA SameCount ==
  ASSUME NEW S
  PROVE  Plane!Cardinality(S) = Cardinality(S)
BY DEF Plane!Cardinality, Cardinality, Plane!IsFiniteSet, IsFiniteSet

LEMMA SameTotal ==
  ASSUME NEW f, NEW S
  PROVE  Plane!SumFunctionOnSet(f, S) = SumFunctionOnSet(f, S)
BY DEF Plane!SumFunctionOnSet, Plane!FoldFunctionOnSet, Plane!MapThenFoldSet,
       SumFunctionOnSet, FoldFunctionOnSet, MapThenFoldSet

LEMMA HostsAreFinite ==
  ASSUME Plane!EnforcementAssumption
  PROVE  IsFiniteSet(Hosts) /\ IsFiniteSet(Nodes)
BY DEF Plane!EnforcementAssumption, Plane!IsFiniteSet, IsFiniteSet

\* The decisions among the first n entries are those among one less, and the
\* n-th if it is one.
Further(among, batch, n) ==
  IF n = 0 THEN <<>>
  ELSE IF batch[n].kind = "decision" THEN Append(among[n - 1], batch[n]) ELSE among[n - 1]

LEMMA DecisionsUnfold ==
  ASSUME NEW batch, Len(batch) \in Nat
  PROVE  \A n \in 0..Len(batch) :
           Plane!Decisions(batch)[n] = Further(Plane!Decisions(batch), batch, n)
<1> DEFINE Unfolded(f, n) == f = [m \in 0..n |-> Further(f, batch, m)]
           Bad == {n \in Nat : \A f : ~ Unfolded(f, n)}
<1>1. ASSUME Bad # {} PROVE FALSE
  <2>1. PICK n \in Bad : \A m \in Bad : n <= m
    BY <1>1, LeastNumber
  <2>2. CASE n = 0
    <3> DEFINE f == [m \in 0..0 |-> <<>>]
    <3>1. Unfolded(f, 0)
      BY DEF Further
    <3> QED
      BY <2>2, <3>1
  <2>3. CASE n # 0
    <3>1. n - 1 \in Nat /\ n - 1 \notin Bad
      BY <2>1, <2>3
    <3>2. PICK f : Unfolded(f, n - 1)
      BY <3>1
    <3> DEFINE g == [m \in 0..n |-> IF m < n THEN f[m] ELSE Further(f, batch, n)]
    <3>3. ASSUME NEW m \in 0..n PROVE g[m] = Further(g, batch, m)
      <4>1. CASE m = n
        <5>1. g[n] = Further(f, batch, n) /\ g[n - 1] = f[n - 1]
          BY <2>3, <3>1
        <5> HIDE DEF g
        <5> QED
          BY <2>3, <4>1, <5>1 DEF Further
      <4>2. CASE m # n
        <5>1. m \in 0..(n - 1) /\ g[m] = f[m] /\ (m # 0 => g[m - 1] = f[m - 1])
          BY <2>1, <4>2
        <5>2. f[m] = Further(f, batch, m)
          BY <3>2, <5>1
        <5> HIDE DEF g
        <5> QED
          BY <5>1, <5>2 DEF Further
      <4> QED
        BY <4>1, <4>2
    <3>4. Unfolded(g, n)
      <4>1. g = [m \in 0..n |-> g[m]]
        OBVIOUS
      <4> HIDE DEF g
      <4> QED
        BY <3>3, <4>1
    <3> QED
      BY <2>1, <3>4
  <2> QED
    BY <2>2, <2>3
<1>2. PICK f : Unfolded(f, Len(batch))
  BY <1>1
<1> DEFINE d == Plane!Decisions(batch)
<1>3. d = CHOOSE h : Unfolded(h, Len(batch))
  BY DEF Plane!Decisions, Further
<1> HIDE DEF d
<1>4. Unfolded(d, Len(batch))
  BY <1>2, <1>3
<1> QED
  BY <1>4 DEF d

\* The entries of a batch that are decisions.
DecisionsOf(batch) == {batch[i] : i \in {j \in DOMAIN batch : batch[j].kind = "decision"}}

LEMMA DecisionsAreSome ==
  ASSUME NEW batch, batch \in Seq({batch[i] : i \in DOMAIN batch})
  PROVE  \A n \in 0..Len(batch) : Plane!Decisions(batch)[n] \in Seq(DecisionsOf(batch))
<1> DEFINE d == Plane!Decisions(batch)
           all == DecisionsOf(batch)
           Bad == {n \in 0..Len(batch) : d[n] \notin Seq(all)}
<1>1. Len(batch) \in Nat /\ DOMAIN batch = 1..Len(batch)
  OBVIOUS
<1>2. ASSUME Bad # {} PROVE FALSE
  <2>0. Bad \subseteq Nat
    BY <1>1
  <2>1. PICK n \in Bad : \A m \in Bad : n <= m
    <3> HIDE DEF Bad
    <3> QED
      BY <1>2, <2>0, LeastNumber
  <2>2. d[n] = Further(d, batch, n)
    BY <1>1, <2>1, DecisionsUnfold
  <2> HIDE DEF d
  <2>3. CASE n = 0
    <3>1. d[n] = <<>>
      BY <2>2, <2>3 DEF Further
    <3> HIDE DEF all
    <3>2. <<>> \in Seq(all)
      OBVIOUS
    <3> QED
      BY <2>1, <3>1, <3>2
  <2>4. CASE n # 0
    <3>1. n - 1 \in 0..Len(batch) /\ n - 1 \notin Bad
      BY <1>1, <2>1, <2>4
    <3>2. d[n - 1] \in Seq(all)
      BY <3>1
    <3>3. batch[n].kind = "decision" => batch[n] \in all
      BY <1>1, <2>1, <2>4 DEF DecisionsOf
    <3> HIDE DEF all
    <3>4. d[n] = IF batch[n].kind = "decision" THEN Append(d[n - 1], batch[n]) ELSE d[n - 1]
      BY <2>2, <2>4 DEF Further
    <3>5. d[n] \in Seq(all)
      BY <3>2, <3>3, <3>4
    <3> QED
      BY <2>1, <3>5
  <2> QED
    BY <2>3, <2>4
<1> QED
  BY <1>2

\* What counts of a batch are decisions.
LEMMA TakenIsCounted ==
  ASSUME Plane!EnforcementAssumption, NEW batch \in Batches
  PROVE  /\ Plane!Taken(batch) \in Seq(DecisionsOf(batch))
         /\ \A e \in DecisionsOf(batch) : Plane!IsDecision(e)
<1>1. /\ batch \in Seq({batch[i] : i \in DOMAIN batch})
      /\ \A i \in DOMAIN batch : batch[i].kind = "decision" => Plane!IsDecision(batch[i])
  BY DEF Plane!EnforcementAssumption
<1> DEFINE good == {n \in 0..Len(batch) : Plane!Passes(batch, n)}
           left == {Len(batch) - n : n \in good}
<1>2. Len(batch) \in Nat
  BY <1>1
<1>3. 0 \in good
  BY <1>2 DEF Plane!Passes
<1>4. left \subseteq Nat /\ left # {}
  BY <1>2, <1>3
<1>5. PICK k \in left : \A m \in left : k <= m
  BY <1>4, LeastNumber
<1>6. PICK n \in good : k = Len(batch) - n
  BY <1>5
<1>7. ASSUME NEW m \in good PROVE m <= n
  <2>1. Len(batch) - m \in left
    OBVIOUS
  <2>2. Len(batch) - n <= Len(batch) - m
    BY <1>5, <1>6, <2>1
  <2> QED
    BY <1>2, <2>2
<1> DEFINE last == CHOOSE l \in good : \A m \in good : m <= l
<1>8. last \in good
  BY <1>7
<1>9. Plane!Taken(batch) = Plane!Decisions(batch)[last]
  BY DEF Plane!Taken
<1>10. last \in 0..Len(batch)
  BY <1>8
<1> HIDE DEF last
<1>11. Plane!Taken(batch) \in Seq(DecisionsOf(batch))
  BY <1>1, <1>9, <1>10, DecisionsAreSome
<1> QED
  BY <1>1, <1>11 DEF DecisionsOf

-----------------------------------------------------------------------------
RequestsIn(c) == SumFunctionOnSet([h \in Hosts |-> c[h].requests], Hosts)

DecisionsIn(s) == SumFunctionOnSet([n \in Nodes |-> s[n].decisions], Nodes)

\* The counters; what a host was allowed and denied is what it asked.
CountersOK ==
  /\ \A h \in Hosts : /\ counts[h].requests \in Nat /\ counts[h].allow \in Nat
                       /\ counts[h].denied \in Nat /\ counts[h].blocked \in Nat
                       /\ counts[h].requests = counts[h].allow + counts[h].denied
  /\ seen \in [Nodes -> [decisions : Nat, online : BOOLEAN]]

\* A node heard of of late has decided.
OnlineInv == \A n \in Nodes : seen[n].online => seen[n].decisions > 0

\* The ring holds the latest decisions, each of a host and a node that counted.
RingInv ==
  /\ ring \in Seq({ring[i] : i \in DOMAIN ring})
  /\ Len(ring) = (IF RequestsIn(counts) < MaxDecisions THEN RequestsIn(counts) ELSE MaxDecisions)
  /\ \A i \in DOMAIN ring : /\ ring[i].host \in Hosts /\ counts[ring[i].host].requests > 0
                             /\ ring[i].node \in Nodes /\ seen[ring[i].node].decisions > 0

SumsInv ==
  /\ partial \in Nat /\ RequestsIn(counts) \in Nat
  /\ DecisionsIn(seen) = RequestsIn(counts) + partial
  /\ ~failed => RequestsIn(counts) = allCounted

AccountsInv == CountersOK /\ OnlineInv /\ RingInv /\ SumsInv

\* The first n places, told apart by a key.
Apart(P, key, S, n) ==
  /\ n \in Nat
  /\ \A i \in 1..n : key[i] \in S
  /\ \A x \in S : \A i : i \in P[x] <=> i \in 1..n /\ key[i] = x

\* Places told apart are all the places.
LEMMA PlacesAddUp ==
  ASSUME NEW S, IsFiniteSet(S), NEW P, NEW key, NEW n, Apart(P, key, S, n),
         NEW f, \A x \in S : f[x] = Cardinality(P[x])
  PROVE  SumFunctionOnSet(f, S) = n
<1>1. IsFiniteSet(1..n) /\ Cardinality(1..n) = n
  BY FS_Interval DEF Apart
<1>2. \A x \in S : IsFiniteSet(P[x]) /\ f[x] = Cardinality(P[x])
  <2>1. ASSUME NEW x \in S PROVE P[x] \subseteq 1..n
    BY DEF Apart
  <2> QED
    BY <1>1, <2>1, FS_Subset
<1>3. \A x, y \in S : x # y => P[x] \cap P[y] = {}
  BY DEF Apart
<1>4. Everything(P, S) = 1..n
  BY DEF Everything, Apart
<1>5. SumFunctionOnSet(f, S) = Cardinality(Everything(P, S))
  BY <1>2, <1>3, SumIsCount
<1> QED
  BY <1>1, <1>4, <1>5

\* What a batch adds to the counters of a host that asked.
LEMMA CountedIs ==
  ASSUME NEW news, Len(news) \in Nat, DOMAIN news = 1..Len(news),
         \A i \in DOMAIN news : Plane!IsDecision(news[i]), NEW h \in Hosts
  PROVE  LET of      == {i \in DOMAIN news : news[i].host = h}
             allowed == {i \in DOMAIN news : news[i].host = h /\ news[i].allowed}
             denied  == {i \in DOMAIN news : news[i].host = h /\ ~news[i].allowed}
             blocked == {i \in DOMAIN news : news[i].host = h /\ news[i].would_block}
         IN  /\ Plane!Counted(h, news) =
                  [requests |-> counts[h].requests + Cardinality(of),
                   allow |-> counts[h].allow + Cardinality(allowed),
                   denied |-> counts[h].denied + Cardinality(denied),
                   blocked |-> counts[h].blocked + Cardinality(blocked)]
             /\ Cardinality(of) = Cardinality(allowed) + Cardinality(denied)
             /\ Cardinality(of) \in Nat /\ Cardinality(allowed) \in Nat
             /\ Cardinality(denied) \in Nat /\ Cardinality(blocked) \in Nat
             /\ of # {} => Cardinality(of) > 0
<1> DEFINE all     == DOMAIN news
           of      == {i \in all : news[i].host = h}
           allowed == {i \in all : news[i].host = h /\ news[i].allowed}
           denied  == {i \in all : news[i].host = h /\ ~news[i].allowed}
           blocked == {i \in all : news[i].host = h /\ news[i].would_block}
<1>1. Plane!Counted(h, news) =
        [requests |-> counts[h].requests + Cardinality(of),
         allow |-> counts[h].allow + Cardinality(allowed),
         denied |-> counts[h].denied + Cardinality(denied),
         blocked |-> counts[h].blocked + Cardinality(blocked)]
  BY SameCount DEF Plane!Counted, Plane!Entries
<1>2. IsFiniteSet(all)
  BY FS_Interval
<1>3. of \in SUBSET all /\ blocked \in SUBSET all /\ of = allowed \cup denied
  OBVIOUS
<1>4. allowed \cap denied = {} /\ allowed \in SUBSET all /\ denied \in SUBSET all
  OBVIOUS
<1> HIDE DEF all, of, allowed, denied, blocked
<1>5. /\ IsFiniteSet(of) /\ IsFiniteSet(blocked)
      /\ IsFiniteSet(allowed) /\ IsFiniteSet(denied)
  BY <1>2, <1>3, <1>4, FS_Subset
<1>6. /\ Cardinality(of) \in Nat /\ Cardinality(allowed) \in Nat
      /\ Cardinality(denied) \in Nat /\ Cardinality(blocked) \in Nat
  BY <1>5, FS_CardinalityType
<1>7. Cardinality(of) = Cardinality(allowed) + Cardinality(denied) - Cardinality(allowed \cap denied)
  BY <1>3, <1>5, FS_Union
<1>8. Cardinality(allowed \cap denied) = 0
  BY <1>4, FS_EmptySet
<1>9. of # {} => Cardinality(of) > 0
  BY <1>5, <1>6, FS_EmptySet
<1> QED
  BY <1>1, <1>6, <1>7, <1>8, <1>9 DEF of, allowed, denied, blocked, all

\* A node's entries in a batch.
LEMMA NodeCounts ==
  ASSUME NEW news, Len(news) \in Nat, DOMAIN news = 1..Len(news), NEW n
  PROVE  LET of == {i \in DOMAIN news : news[i].node = n}
         IN  /\ Plane!Cardinality(of) = Cardinality(of)
             /\ Cardinality(of) \in Nat
             /\ of = {} <=> Cardinality(of) = 0
<1> DEFINE of == {i \in DOMAIN news : news[i].node = n}
<1>1. IsFiniteSet(DOMAIN news) /\ of \in SUBSET DOMAIN news
  BY FS_Interval
<1> HIDE DEF of
<1>2. IsFiniteSet(of)
  BY <1>1, FS_Subset
<1>3. Cardinality(of) \in Nat /\ (of = {} <=> Cardinality(of) = 0)
  BY <1>2, FS_CardinalityType, FS_EmptySet
<1> QED
  BY <1>3, SameCount DEF of

\* The entries that count for their node alone, told apart by it, are all of them.
LEMMA HalfCountedAddUp ==
  ASSUME Plane!EnforcementAssumption, NEW batch \in Batches
  PROVE  LET lone == Plane!HalfCounted(batch)
             at   == [n \in Nodes |-> {k \in lone : batch[k].node = n}]
             each == [n \in Nodes |-> Cardinality(at[n])]
         IN  /\ Cardinality(lone) \in Nat
             /\ \A n \in Nodes : each[n] \in Nat
             /\ SumFunctionOnSet(each, Nodes) = Cardinality(lone)
<1> DEFINE lone == Plane!HalfCounted(batch)
           at   == [n \in Nodes |-> {k \in lone : batch[k].node = n}]
           each == [n \in Nodes |-> Cardinality(at[n])]
<1>1. /\ batch \in Seq({batch[i] : i \in DOMAIN batch})
      /\ \A i \in DOMAIN batch : batch[i].kind = "unhashable" => batch[i].node \in Nodes
  BY DEF Plane!EnforcementAssumption
<1>2. Len(batch) \in Nat /\ DOMAIN batch = 1..Len(batch)
  BY <1>1
<1>3. lone \in SUBSET DOMAIN batch /\ \A k \in lone : batch[k].node \in Nodes
  BY <1>1 DEF Plane!HalfCounted
<1> HIDE DEF lone
<1>4. IsFiniteSet(DOMAIN batch)
  BY <1>2, FS_Interval
<1>5. IsFiniteSet(lone) /\ Cardinality(lone) \in Nat
  BY <1>3, <1>4, FS_Subset, FS_CardinalityType
<1>6. ASSUME NEW n \in Nodes PROVE IsFiniteSet(at[n]) /\ each[n] = Cardinality(at[n]) /\ each[n] \in Nat
  <2>1. at[n] \in SUBSET lone /\ each[n] = Cardinality(at[n])
    OBVIOUS
  <2> HIDE DEF at, each
  <2> QED
    BY <1>5, <2>1, FS_Subset, FS_CardinalityType
<1>7. \A m, n \in Nodes : m # n => at[m] \cap at[n] = {}
  OBVIOUS
<1>8. Everything(at, Nodes) = lone
  BY <1>3 DEF Everything
<1> HIDE DEF at, each
<1>9. SumFunctionOnSet(each, Nodes) = Cardinality(Everything(at, Nodes))
  BY <1>6, <1>7, HostsAreFinite, SumIsCount
<1> QED
  BY <1>5, <1>6, <1>8, <1>9 DEF lone, at, each

LEMMA AccountsBegin ==
  ASSUME Plane!EnforcementAssumption, Plane!Init
  PROVE  AccountsInv
<1>1. RequestsIn(counts) = 0
  <2> DEFINE f == [h \in Hosts |-> counts[h].requests]
  <2>1. \A h \in Hosts : f[h] = 0
    BY DEF Plane!Init, Plane!NoCounts
  <2> HIDE DEF f
  <2>2. SumFunctionOnSet(f, Hosts) = 0
    BY <2>1, HostsAreFinite, SumOfZeros
  <2> QED
    BY <2>2 DEF RequestsIn, f
<1>2. DecisionsIn(seen) = 0
  <2> DEFINE f == [n \in Nodes |-> seen[n].decisions]
  <2>1. \A n \in Nodes : f[n] = 0
    BY DEF Plane!Init, Plane!NoNodes
  <2> HIDE DEF f
  <2>2. SumFunctionOnSet(f, Nodes) = 0
    BY <2>1, HostsAreFinite, SumOfZeros
  <2> QED
    BY <2>2 DEF DecisionsIn, f
<1>3. CountersOK /\ OnlineInv
  BY DEF Plane!Init, Plane!NoCounts, Plane!NoNodes, CountersOK, OnlineInv
<1>4. SumsInv
  BY <1>1, <1>2 DEF Plane!Init, SumsInv
<1>5. RingInv
  BY <1>1 DEF Plane!Init, Plane!EnforcementAssumption, RingInv
<1> QED
  BY <1>3, <1>4, <1>5 DEF AccountsInv

\* A step that counts nothing.
LEMMA AccountsStay ==
  ASSUME AccountsInv, UNCHANGED <<ring, counts, seen, allCounted, failed, partial>>
  PROVE  AccountsInv'
BY DEF AccountsInv, CountersOK, OnlineInv, RingInv, SumsInv, RequestsIn, DecisionsIn

\* The process begins anew, as it began.
LEMMA KillCounts ==
  ASSUME Plane!EnforcementAssumption, Plane!Kill
  PROVE  AccountsInv'
<1>1. /\ ring' = <<>> /\ counts' = Plane!NoCounts /\ seen' = Plane!NoNodes /\ allCounted' = 0
      /\ partial' = 0
  BY DEF Plane!Kill
<1>2. RequestsIn(counts') = 0
  <2> DEFINE f == [h \in Hosts |-> counts'[h].requests]
  <2>1. \A h \in Hosts : f[h] = 0
    BY <1>1 DEF Plane!NoCounts
  <2> HIDE DEF f
  <2>2. SumFunctionOnSet(f, Hosts) = 0
    BY <2>1, HostsAreFinite, SumOfZeros
  <2> QED
    BY <2>2 DEF RequestsIn, f
<1>3. DecisionsIn(seen') = 0
  <2> DEFINE f == [n \in Nodes |-> seen'[n].decisions]
  <2>1. \A n \in Nodes : f[n] = 0
    BY <1>1 DEF Plane!NoNodes
  <2> HIDE DEF f
  <2>2. SumFunctionOnSet(f, Nodes) = 0
    BY <2>1, HostsAreFinite, SumOfZeros
  <2> QED
    BY <2>2 DEF DecisionsIn, f
<1>4. CountersOK' /\ OnlineInv'
  BY <1>1 DEF Plane!NoCounts, Plane!NoNodes, CountersOK, OnlineInv
<1>5. SumsInv'
  BY <1>1, <1>2, <1>3 DEF SumsInv
<1>6. RingInv'
  BY <1>1, <1>2 DEF Plane!EnforcementAssumption, RingInv
<1> QED
  BY <1>4, <1>5, <1>6 DEF AccountsInv

\* A node that falls silent keeps its count.
LEMMA SilenceCounts ==
  ASSUME AccountsInv, NEW n \in Nodes, Plane!FallSilent(n)
  PROVE  AccountsInv'
<1>1. /\ UNCHANGED <<ring, counts, allCounted, failed, partial>>
      /\ seen' = [seen EXCEPT ![n] = [seen[n] EXCEPT !.online = FALSE]]
  BY DEF Plane!FallSilent
<1>2. CountersOK /\ OnlineInv /\ RingInv /\ SumsInv
  BY DEF AccountsInv
<1>3. /\ seen' \in [Nodes -> [decisions : Nat, online : BOOLEAN]]
      /\ \A m \in Nodes : seen'[m].decisions = seen[m].decisions
  BY <1>1, <1>2 DEF CountersOK
<1>4. CountersOK' /\ OnlineInv'
  <2>1. CountersOK'
    BY <1>1, <1>2, <1>3 DEF CountersOK
  <2>2. ASSUME NEW m \in Nodes, seen'[m].online PROVE m # n /\ seen'[m] = seen[m]
    BY <1>1, <1>2, <2>2 DEF CountersOK
  <2> QED
    BY <1>2, <1>3, <2>1, <2>2 DEF OnlineInv
<1>5. DecisionsIn(seen') = DecisionsIn(seen)
  <2>1. [m \in Nodes |-> seen'[m].decisions] = [m \in Nodes |-> seen[m].decisions]
    BY <1>3
  <2> QED
    BY <2>1 DEF DecisionsIn
<1>6. SumsInv'
  BY <1>1, <1>2, <1>5 DEF SumsInv
<1>7. RingInv'
  BY <1>1, <1>2, <1>3 DEF RingInv
<1> QED
  BY <1>4, <1>6, <1>7 DEF AccountsInv

\* The latest entries of two sequences, one behind the other.
LEMMA LatestAre ==
  ASSUME NEW E, NEW s \in Seq(E), NEW most \in Nat \ {0}
  PROVE  LET last == Plane!LastOf(s, most)
         IN  /\ last \in Seq(E)
             /\ Len(last) = (IF Len(s) < most THEN Len(s) ELSE most)
             /\ \A i \in DOMAIN last : \E j \in DOMAIN s : last[i] = s[j]
<1> DEFINE gone == IF Len(s) > most THEN Len(s) - most ELSE 0
           last == SubSeq(s, gone + 1, Len(s))
<1>1. Plane!LastOf(s, most) = last
  BY DEF Plane!LastOf
<1>2. gone \in 0..Len(s) /\ Len(s) - gone = (IF Len(s) < most THEN Len(s) ELSE most)
  <2>1. Len(s) \in Nat /\ most \in Nat
    OBVIOUS
  <2>2. CASE Len(s) > most
    BY <2>1, <2>2
  <2>3. CASE ~(Len(s) > most)
    BY <2>1, <2>3
  <2> QED
    BY <2>2, <2>3
<1> HIDE DEF gone
<1>3. /\ last \in Seq(E) /\ Len(last) = Len(s) - gone
      /\ \A i \in 1..Len(last) : last[i] = s[gone + i]
  BY <1>2
<1>4. ASSUME NEW i \in DOMAIN last PROVE \E j \in DOMAIN s : last[i] = s[j]
  <2>1. i \in 1..Len(last) /\ gone + i \in DOMAIN s
    BY <1>2, <1>3
  <2> QED
    BY <1>3, <2>1
<1> QED
  BY <1>1, <1>2, <1>3, <1>4

\* A batch counts the same by host, by node and in the ring.
LEMMA IngestCounts ==
  ASSUME Plane!EnforcementAssumption, AccountsInv, NEW batch \in Batches, Plane!Ingest(batch)
  PROVE  AccountsInv'
<1> DEFINE news == Plane!Taken(batch)
           Of(n) == {i \in DOMAIN news : news[i].node = n}
           Asked(h) == {i \in DOMAIN news : news[i].host = h}
           lone == Plane!HalfCounted(batch)
           Alone(n) == {k \in lone : batch[k].node = n}
<1>1. /\ counts' = [h \in Hosts |-> Plane!Counted(h, news)]
      /\ ring' = Plane!LastOf(ring \o news, MaxDecisions)
      /\ partial' = partial + Cardinality(lone)
      /\ \/ failed' = TRUE
         \/ allCounted' = allCounted + Len(news) /\ failed' = failed
  BY SameCount DEF Plane!Ingest
<1>2. seen' = [n \in Nodes |->
                 IF Plane!Cardinality(Of(n)) + Plane!Cardinality(Alone(n)) = 0 THEN seen[n]
                 ELSE [decisions |-> seen[n].decisions
                                       + (Plane!Cardinality(Of(n)) + Plane!Cardinality(Alone(n))),
                       online |-> TRUE]]
  BY DEF Plane!Ingest, Plane!Entries, Plane!TouchNode
<1>3. /\ news \in Seq(DecisionsOf(batch))
      /\ \A e \in DecisionsOf(batch) : Plane!IsDecision(e)
  BY TakenIsCounted
<1>4. /\ Len(news) \in Nat /\ DOMAIN news = 1..Len(news)
      /\ \A i \in DOMAIN news : Plane!IsDecision(news[i])
  BY <1>3
<1>5. CountersOK /\ OnlineInv /\ RingInv /\ SumsInv
  BY DEF AccountsInv
<1>6. IsFiniteSet(Hosts) /\ IsFiniteSet(Nodes)
  BY HostsAreFinite
<1> DEFINE each == [n \in Nodes |-> Cardinality(Alone(n))]
<1>14. /\ Cardinality(lone) \in Nat /\ \A n \in Nodes : Cardinality(Alone(n)) \in Nat
       /\ SumFunctionOnSet(each, Nodes) = Cardinality(lone)
  <2> DEFINE at == [n \in Nodes |-> Alone(n)]
             all == [n \in Nodes |-> Cardinality(at[n])]
  <2>1. /\ Cardinality(lone) \in Nat /\ \A n \in Nodes : all[n] \in Nat
        /\ SumFunctionOnSet(all, Nodes) = Cardinality(lone)
    BY HalfCountedAddUp
  <2>2. all = each
    OBVIOUS
  <2> QED
    BY <2>1, <2>2
<1> HIDE DEF news, lone
<1>7. ASSUME NEW h \in Hosts
      PROVE  /\ counts'[h].requests = counts[h].requests + Cardinality(Asked(h))
             /\ Cardinality(Asked(h)) \in Nat
             /\ Asked(h) # {} => Cardinality(Asked(h)) > 0
             /\ counts'[h].requests \in Nat /\ counts'[h].allow \in Nat
             /\ counts'[h].denied \in Nat /\ counts'[h].blocked \in Nat
             /\ counts'[h].requests = counts'[h].allow + counts'[h].denied
  <2> DEFINE allowed == Cardinality({i \in DOMAIN news : news[i].host = h /\ news[i].allowed})
             denied  == Cardinality({i \in DOMAIN news : news[i].host = h /\ ~news[i].allowed})
             blocked == Cardinality({i \in DOMAIN news : news[i].host = h /\ news[i].would_block})
             asked   == Cardinality(Asked(h))
  <2>1. counts'[h] = Plane!Counted(h, news)
    BY <1>1
  <2>2. /\ Plane!Counted(h, news) =
             [requests |-> counts[h].requests + asked, allow |-> counts[h].allow + allowed,
              denied |-> counts[h].denied + denied, blocked |-> counts[h].blocked + blocked]
        /\ asked = allowed + denied
        /\ asked \in Nat /\ allowed \in Nat /\ denied \in Nat /\ blocked \in Nat
        /\ Asked(h) # {} => asked > 0
    BY <1>4, CountedIs
  <2>3. /\ counts[h].requests \in Nat /\ counts[h].allow \in Nat
        /\ counts[h].denied \in Nat /\ counts[h].blocked \in Nat
        /\ counts[h].requests = counts[h].allow + counts[h].denied
    BY <1>5 DEF CountersOK
  <2> HIDE DEF allowed, denied, blocked, asked, Asked
  <2>4. /\ counts'[h].requests = counts[h].requests + asked
        /\ counts'[h].allow = counts[h].allow + allowed
        /\ counts'[h].denied = counts[h].denied + denied
        /\ counts'[h].blocked = counts[h].blocked + blocked
    BY <2>1, <2>2
  <2>5. /\ counts'[h].requests \in Nat /\ counts'[h].allow \in Nat
        /\ counts'[h].denied \in Nat /\ counts'[h].blocked \in Nat
        /\ counts'[h].requests = counts'[h].allow + counts'[h].denied
    BY <2>2, <2>3, <2>4
  <2> QED
    BY <2>2, <2>4, <2>5 DEF asked
<1>8. ASSUME NEW n \in Nodes
      PROVE  /\ seen'[n].decisions = seen[n].decisions + (Cardinality(Of(n)) + Cardinality(Alone(n)))
             /\ Cardinality(Of(n)) \in Nat /\ Cardinality(Alone(n)) \in Nat
             /\ Of(n) # {} => Cardinality(Of(n)) > 0
             /\ seen'[n] \in [decisions : Nat, online : BOOLEAN]
             /\ Cardinality(Of(n)) + Cardinality(Alone(n)) = 0 => seen'[n] = seen[n]
  <2> DEFINE count == Cardinality(Of(n))
             more == Cardinality(Alone(n))
  <2>1. /\ Plane!Cardinality(Of(n)) = count /\ count \in Nat /\ (Of(n) = {} <=> count = 0)
        /\ Plane!Cardinality(Alone(n)) = more /\ more \in Nat
    BY <1>4, <1>14, NodeCounts, SameCount
  <2>2. seen'[n] = IF count + more = 0 THEN seen[n]
                   ELSE [decisions |-> seen[n].decisions + (count + more), online |-> TRUE]
    BY <1>2, <2>1
  <2>3. seen[n] \in [decisions : Nat, online : BOOLEAN]
    BY <1>5 DEF CountersOK
  <2> HIDE DEF count, more
  <2>4. CASE count + more = 0
    BY <2>1, <2>2, <2>3, <2>4 DEF count, more
  <2>5. CASE count + more # 0
    BY <2>1, <2>2, <2>3, <2>5 DEF count, more
  <2> QED
    BY <2>4, <2>5
<1>9. CountersOK' /\ OnlineInv'
  <2>1. CountersOK'
    <3>1. seen' \in [Nodes -> [decisions : Nat, online : BOOLEAN]]
      BY <1>2, <1>8
    <3> QED
      BY <1>7, <3>1 DEF CountersOK
  <2>2. ASSUME NEW n \in Nodes, seen'[n].online PROVE seen'[n].decisions > 0
    <3> DEFINE count == Cardinality(Of(n)) + Cardinality(Alone(n))
    <3>1. /\ seen'[n].decisions = seen[n].decisions + count /\ count \in Nat
          /\ count = 0 => seen'[n] = seen[n]
      BY <1>8
    <3>2. seen[n].decisions \in Nat
      BY <1>5 DEF CountersOK
    <3> HIDE DEF count
    <3>3. CASE count = 0
      BY <1>5, <2>2, <3>1, <3>3 DEF OnlineInv
    <3>4. CASE count # 0
      BY <3>1, <3>2, <3>4
    <3> QED
      BY <3>3, <3>4
  <2> QED
    BY <2>1, <2>2 DEF OnlineInv
<1>10. RequestsIn(counts') = RequestsIn(counts) + Len(news) /\ RequestsIn(counts) \in Nat
  <2> DEFINE f == [h \in Hosts |-> counts[h].requests]
             g == [h \in Hosts |-> Cardinality(Asked(h))]
             k == [h \in Hosts |-> counts'[h].requests]
             key == [i \in DOMAIN news |-> news[i].host]
             P == [h \in Hosts |-> Asked(h)]
  <2>1. \A h \in Hosts : f[h] \in Nat /\ g[h] \in Nat /\ k[h] = f[h] + g[h]
    BY <1>5, <1>7 DEF CountersOK
  <2>2. \A h \in Hosts : g[h] = Cardinality(P[h])
    OBVIOUS
  <2>3. Apart(P, key, Hosts, Len(news))
    BY <1>4 DEF Plane!IsDecision, Apart
  <2> HIDE DEF f, g, k, key, P
  <2>4. SumFunctionOnSet(k, Hosts) = SumFunctionOnSet(f, Hosts) + SumFunctionOnSet(g, Hosts)
    BY <1>6, <2>1, SumAdds
  <2>5. SumFunctionOnSet(g, Hosts) = Len(news)
    BY <1>6, <2>2, <2>3, PlacesAddUp
  <2>6. SumFunctionOnSet(f, Hosts) \in Nat
    BY <1>6, <2>1, SumType
  <2> QED
    BY <2>4, <2>5, <2>6 DEF RequestsIn, f, k
<1>11. DecisionsIn(seen') = DecisionsIn(seen) + (Len(news) + Cardinality(lone))
  <2> DEFINE f == [n \in Nodes |-> seen[n].decisions]
             g == [n \in Nodes |-> Cardinality(Of(n))]
             b == [n \in Nodes |-> Cardinality(Of(n)) + Cardinality(Alone(n))]
             k == [n \in Nodes |-> seen'[n].decisions]
             key == [i \in DOMAIN news |-> news[i].node]
             P == [n \in Nodes |-> Of(n)]
  <2>1. \A n \in Nodes : /\ f[n] \in Nat /\ g[n] \in Nat /\ each[n] \in Nat /\ b[n] \in Nat
                         /\ k[n] = f[n] + b[n] /\ b[n] = g[n] + each[n]
    BY <1>5, <1>8, <1>14 DEF CountersOK
  <2>2. \A n \in Nodes : g[n] = Cardinality(P[n])
    OBVIOUS
  <2>3. Apart(P, key, Nodes, Len(news))
    BY <1>4 DEF Plane!IsDecision, Apart
  <2> HIDE DEF f, g, b, k, key, P, each
  <2>4. SumFunctionOnSet(k, Nodes) = SumFunctionOnSet(f, Nodes) + SumFunctionOnSet(b, Nodes)
    BY <1>6, <2>1, SumAdds
  <2>5. SumFunctionOnSet(b, Nodes) = SumFunctionOnSet(g, Nodes) + SumFunctionOnSet(each, Nodes)
    BY <1>6, <2>1, SumAdds
  <2>6. SumFunctionOnSet(g, Nodes) = Len(news)
    BY <1>6, <2>2, <2>3, PlacesAddUp
  <2> QED
    BY <1>14, <2>4, <2>5, <2>6 DEF DecisionsIn, f, k
<1>12. SumsInv'
  <2>1. /\ partial \in Nat /\ partial' = partial + Cardinality(lone)
        /\ DecisionsIn(seen) = RequestsIn(counts) + partial
    BY <1>1, <1>5 DEF SumsInv
  <2>2. partial' \in Nat /\ RequestsIn(counts') \in Nat /\ DecisionsIn(seen') = RequestsIn(counts') + partial'
    <3> DEFINE old == RequestsIn(counts)
               lot == Cardinality(lone)
               n   == Len(news)
    <3>1. /\ old \in Nat /\ lot \in Nat /\ n \in Nat
          /\ RequestsIn(counts') = old + n
          /\ DecisionsIn(seen') = (old + partial) + (n + lot)
          /\ partial \in Nat /\ partial' = partial + lot
      BY <1>4, <1>10, <1>11, <1>14, <2>1
    <3> HIDE DEF old, lot, n
    <3> QED
      BY <3>1
  <2>3. ~failed' => RequestsIn(counts') = allCounted'
    BY <1>1, <1>5, <1>10 DEF SumsInv
  <2> QED
    BY <2>2, <2>3 DEF SumsInv
<1>13. RingInv'
  <2> DEFINE old == {ring[i] : i \in DOMAIN ring}
             E == old \cup DecisionsOf(batch)
             both == ring \o news
             total == RequestsIn(counts)
             new == RequestsIn(counts')
  <2>1. /\ ring \in Seq(old)
        /\ Len(ring) = (IF total < MaxDecisions THEN total ELSE MaxDecisions)
        /\ \A i \in DOMAIN ring : /\ ring[i].host \in Hosts /\ counts[ring[i].host].requests > 0
                                   /\ ring[i].node \in Nodes /\ seen[ring[i].node].decisions > 0
    BY <1>5 DEF RingInv
  <2>2. MaxDecisions \in Nat \ {0}
    BY DEF Plane!EnforcementAssumption
  <2>3. ring \in Seq(E) /\ news \in Seq(E)
    BY <1>3, <2>1
  <2>4. /\ both \in Seq(E) /\ Len(both) = Len(ring) + Len(news)
        /\ \A j \in DOMAIN both : \/ j \in DOMAIN ring /\ both[j] = ring[j]
                                  \/ \E i \in DOMAIN news : both[j] = news[i]
    <3> HIDE DEF E
    <3>1. both \in Seq(E) /\ Len(both) = Len(ring) + Len(news)
      BY <2>3
    <3>2. ASSUME NEW j \in DOMAIN both, j \notin DOMAIN ring
          PROVE  j - Len(ring) \in DOMAIN news /\ both[j] = news[j - Len(ring)]
      BY <2>3, <3>1, <3>2
    <3>3. ASSUME NEW j \in DOMAIN both, j \in DOMAIN ring PROVE both[j] = ring[j]
      BY <2>3, <3>1, <3>3
    <3> QED
      BY <3>1, <3>2, <3>3
  <2> HIDE DEF both
  <2>5. /\ ring' \in Seq(E)
        /\ Len(ring') = (IF Len(both) < MaxDecisions THEN Len(both) ELSE MaxDecisions)
        /\ \A i \in DOMAIN ring' : \E j \in DOMAIN both : ring'[i] = both[j]
    <3>1. ring' = Plane!LastOf(both, MaxDecisions)
      BY <1>1 DEF both
    <3> HIDE DEF E
    <3>2. both \in Seq(E)
      BY <2>4
    <3> QED
      BY <2>2, <3>1, <3>2, LatestAre
  <2>6. Len(ring') = IF new < MaxDecisions THEN new ELSE MaxDecisions
    <3> HIDE DEF total, new
    <3>1. total \in Nat /\ new = total + Len(news)
      BY <1>10 DEF total, new
    <3> QED
      BY <1>4, <2>1, <2>2, <2>4, <2>5, <3>1
  <2>7. ASSUME NEW i \in DOMAIN ring'
        PROVE  /\ ring'[i].host \in Hosts /\ counts'[ring'[i].host].requests > 0
               /\ ring'[i].node \in Nodes /\ seen'[ring'[i].node].decisions > 0
    <3>1. PICK j \in DOMAIN both : ring'[i] = both[j]
      BY <2>5
    <3>2. CASE j \in DOMAIN ring /\ both[j] = ring[j]
      <4> DEFINE h == ring[j].host
                 n == ring[j].node
      <4>1. h \in Hosts /\ counts[h].requests > 0 /\ n \in Nodes /\ seen[n].decisions > 0
        BY <2>1, <3>2
      <4> HIDE DEF h, n
      <4>2. /\ counts'[h].requests = counts[h].requests + Cardinality(Asked(h))
            /\ Cardinality(Asked(h)) \in Nat /\ counts[h].requests \in Nat
        BY <1>5, <1>7, <4>1 DEF CountersOK
      <4>3. /\ seen'[n].decisions = seen[n].decisions + (Cardinality(Of(n)) + Cardinality(Alone(n)))
            /\ Cardinality(Of(n)) \in Nat /\ Cardinality(Alone(n)) \in Nat
            /\ seen[n].decisions \in Nat
        BY <1>5, <1>8, <4>1 DEF CountersOK
      <4>4. counts'[h].requests > 0 /\ seen'[n].decisions > 0
        BY <4>1, <4>2, <4>3
      <4> QED
        BY <3>1, <3>2, <4>1, <4>4 DEF h, n
    <3>3. CASE \E l \in DOMAIN news : both[j] = news[l]
      <4>1. PICK l \in DOMAIN news : both[j] = news[l]
        BY <3>3
      <4> DEFINE h == news[l].host
                 n == news[l].node
      <4>2. h \in Hosts /\ n \in Nodes
        BY <1>4, <4>1 DEF Plane!IsDecision
      <4>3. l \in Asked(h) /\ l \in Of(n)
        BY <4>1
      <4> HIDE DEF h, n
      <4>4. Asked(h) # {} /\ Of(n) # {}
        BY <4>3
      <4>5. /\ counts'[h].requests = counts[h].requests + Cardinality(Asked(h))
            /\ Cardinality(Asked(h)) > 0 /\ counts[h].requests \in Nat
            /\ Cardinality(Asked(h)) \in Nat
        BY <1>5, <1>7, <4>2, <4>4 DEF CountersOK
      <4>6. /\ seen'[n].decisions = seen[n].decisions + (Cardinality(Of(n)) + Cardinality(Alone(n)))
            /\ Cardinality(Of(n)) > 0 /\ seen[n].decisions \in Nat
            /\ Cardinality(Of(n)) \in Nat /\ Cardinality(Alone(n)) \in Nat
        BY <1>5, <1>8, <4>2, <4>4 DEF CountersOK
      <4>7. counts'[h].requests > 0 /\ seen'[n].decisions > 0
        BY <4>5, <4>6
      <4> QED
        BY <3>1, <4>1, <4>2, <4>7 DEF h, n
    <3> QED
      BY <2>4, <3>1, <3>2, <3>3
  <2>8. ring' \in Seq({ring'[i] : i \in DOMAIN ring'})
    <3> HIDE DEF E
    <3> QED
      BY <2>5
  <2> QED
    BY <2>6, <2>7, <2>8 DEF RingInv, new
<1> QED
  BY <1>9, <1>12, <1>13 DEF AccountsInv

\* Every step keeps the accounts.
LEMMA AccountsKept ==
  ASSUME Plane!EnforcementAssumption, AccountsInv, [Plane!Next]_(Plane!vars)
  PROVE  AccountsInv'
<1>1. CASE Plane!BundleNext \/ UNCHANGED Plane!vars
  <2>1. UNCHANGED <<ring, counts, seen, allCounted, failed, partial>>
    BY <1>1 DEF Plane!BundleNext, Plane!Switch, Plane!Open, Plane!Write, Plane!LookUp, Plane!Parse,
                Plane!vars, Plane!logVars
  <2> QED
    BY <2>1, AccountsStay
<1>2. CASE Plane!LogNext
  BY <1>2, IngestCounts, SilenceCounts DEF Plane!LogNext
<1>3. CASE Plane!Kill
  BY <1>3, KillCounts
<1> QED
  BY <1>1, <1>2, <1>3 DEF Plane!Next

\* What was decided is accounted for alike by host, by node and in the ring,
\* for any hosts, nodes, batches and any length of the ring.
THEOREM DecisionsAreAccounted ==
  ASSUME Plane!EnforcementAssumption
  PROVE  Plane!Spec => []AccountsAgree
<1>1. ASSUME AccountsInv PROVE AccountsAgree
  <2>1. CountersOK /\ OnlineInv /\ RingInv /\ SumsInv
    BY <1>1 DEF AccountsInv
  <2> DEFINE f == [h \in Hosts |-> counts[h].requests]
             a == [h \in Hosts |-> counts[h].allow]
             d == [h \in Hosts |-> counts[h].denied]
             n == [m \in Nodes |-> seen[m].decisions]
  <2>2. /\ Plane!Total(LAMBDA c : c.requests) = SumFunctionOnSet(f, Hosts)
        /\ Plane!Total(LAMBDA c : c.allow) = SumFunctionOnSet(a, Hosts)
        /\ Plane!Total(LAMBDA c : c.denied) = SumFunctionOnSet(d, Hosts)
        /\ Plane!SumFunctionOnSet(n, Nodes) = SumFunctionOnSet(n, Nodes)
    BY SameTotal DEF Plane!Total
  <2>3. \A h \in Hosts : a[h] \in Nat /\ d[h] \in Nat /\ f[h] = a[h] + d[h]
    BY <2>1 DEF CountersOK
  <2>4. SumFunctionOnSet(f, Hosts) = SumFunctionOnSet(a, Hosts) + SumFunctionOnSet(d, Hosts)
    <3> HIDE DEF f, a, d
    <3> QED
      BY <2>3, HostsAreFinite, SumAdds
  <2>5. /\ SumFunctionOnSet(n, Nodes) = SumFunctionOnSet(f, Hosts) + partial
        /\ ~failed => SumFunctionOnSet(f, Hosts) = allCounted
    BY <2>1 DEF SumsInv, RequestsIn, DecisionsIn
  <2>6. Len(ring) = IF SumFunctionOnSet(f, Hosts) < MaxDecisions
                    THEN SumFunctionOnSet(f, Hosts) ELSE MaxDecisions
    BY <2>1 DEF RingInv, RequestsIn
  <2>7. \A e \in Plane!Range(ring) : e.node \in Plane!PdpNodes /\ counts[e.host].requests > 0
    BY <2>1 DEF RingInv, Plane!Range, Plane!PdpNodes
  <2>8. Plane!PepsOnline \subseteq Plane!PdpNodes
    BY <2>1 DEF OnlineInv, Plane!PepsOnline, Plane!PdpNodes
  <2> HIDE DEF f, a, d
  <2>9. /\ Plane!SumFunctionOnSet(n, Nodes) = Plane!Total(LAMBDA c : c.requests) + partial
        /\ Plane!Total(LAMBDA c : c.requests)
             = Plane!Total(LAMBDA c : c.allow) + Plane!Total(LAMBDA c : c.denied)
        /\ ~failed => Plane!Total(LAMBDA c : c.requests) = allCounted
    BY <2>2, <2>4, <2>5
  <2>10. Len(ring) = IF Plane!Total(LAMBDA c : c.requests) < MaxDecisions
                     THEN Plane!Total(LAMBDA c : c.requests) ELSE MaxDecisions
    BY <2>2, <2>6
  <2> QED
    BY <2>7, <2>8, <2>9, <2>10 DEF AccountsAgree, Plane!AccountsAgree
<1>2. Plane!Init => AccountsInv
  BY AccountsBegin
<1>3. AccountsInv /\ [Plane!Next]_(Plane!vars) => AccountsInv'
  BY AccountsKept
<1> QED
  BY <1>1, <1>2, <1>3, PTL DEF Plane!Spec

-----------------------------------------------------------------------------
(* Documents: what is believed was vouched for.                             *)

\* The requests that rewrite the evidence of a document.
Rewriters == {p \in DocumentRequests : req[p].kind \in {"upload", "delete"}}

\* What is on record was numbered, dated and read from the lexicon; requests
\* have the fields of their kind.
RecordsOK ==
  /\ day \in Nat /\ issued \in Nat
  /\ req = [p \in DocumentRequests |-> req[p]]
  /\ att = [c \in Controls |-> att[c]]
  /\ \A d \in docs : d.id \in Nat /\ d.id < issued /\ {"id", "method"} \subseteq DOMAIN d
  /\ \A h \in hits : /\ h.doc \in Nat /\ h.doc < issued
                     /\ h.at \in Nat /\ h.at <= day
                     /\ h.concept \in DOMAIN Maps /\ h.id[2].concept = h.concept
                     /\ {"id", "doc", "concept", "at", "confirmed"} \subseteq DOMAIN h

RequestsOK ==
  /\ \A p \in Rewriters :
       /\ {"kind", "doc", "at", "found", "erased"} \subseteq DOMAIN req[p]
       /\ req[p].doc.id \in Nat /\ req[p].doc.id < issued
       /\ {"id", "method"} \subseteq DOMAIN req[p].doc
       /\ req[p].at \in {"new", "clear", "clearing", "cleared"}
  /\ \A p \in DocumentRequests : req[p].kind \in {"confirm", "attest"} =>
       /\ {"kind", "hit", "to", "dirty", "at", "seen"} \subseteq DOMAIN req[p]
       /\ req[p].dirty => req[p].kind = "confirm" /\ req[p].hit.id[2].concept = req[p].hit.concept

\* A sign-off, and a confirmed hit of the control's concepts, is no younger
\* than the day a person last vouched for the control.
VouchInv ==
  /\ \A c \in Controls : att[c] # None =>
       acted[c] \in Nat /\ acted[c] <= day /\ att[c].at \in Nat /\ att[c].at <= acted[c]
  /\ \A h \in hits, c \in Controls : h.confirmed /\ h \in Docs!Bearing(c) =>
       acted[c] \in Nat /\ acted[c] <= day /\ h.at <= acted[c]

\* A document that no two requests rewrote at a time has one rewriter at
\* most, is on file unless it is new, and its hits are in that one's hands.
RewriteInv ==
  \A p \in Rewriters : req[p].doc.id \notin crossed =>
    /\ \A q \in Rewriters : req[q].doc.id = req[p].doc.id => q = p
    /\ req[p].at # "new" => \E d \in docs : d.id = req[p].doc.id
    /\ req[p].at = "new" => \A h \in hits : h.doc # req[p].doc.id
    /\ \A h \in hits : h.doc = req[p].doc.id =>
         /\ req[p].at = "clearing" => h.id \in req[p].found
         /\ req[p].at = "cleared" => h.id \in req[p].erased

DocsInv == RecordsOK /\ RequestsOK /\ VouchInv /\ RewriteInv /\ Docs!OneReading

\* A request's step, and the others.
LEMMA DocumentRequestFacts ==
  ASSUME RecordsOK, NEW p \in DocumentRequests, NEW v, req' = [req EXCEPT ![p] = v]
  PROVE  /\ \A q \in DocumentRequests : req'[q] = IF q = p THEN v ELSE req[q]
         /\ req' = [q \in DocumentRequests |-> req'[q]]
BY DEF RecordsOK

\* Records stand while nobody writes them and time passes.
LEMMA RecordsStand ==
  ASSUME RecordsOK, VouchInv, Docs!OneReading,
         UNCHANGED <<docs, hits, att, acted>>, crossed \subseteq crossed',
         day' \in Nat, day <= day', issued' \in Nat, issued <= issued',
         req' = [q \in DocumentRequests |-> req'[q]]
  PROVE  RecordsOK' /\ VouchInv' /\ Docs!OneReading'
<1>1. day \in Nat /\ issued \in Nat
  BY DEF RecordsOK
<1>2. RecordsOK'
  BY <1>1 DEF RecordsOK
<1>3. VouchInv'
  <2>1. \A c \in Controls : Docs!Bearing(c)' = Docs!Bearing(c)
    BY DEF Docs!Bearing
  <2>2. \A c \in Controls : att'[c] # None =>
          acted'[c] \in Nat /\ acted'[c] <= day' /\ att'[c].at \in Nat /\ att'[c].at <= acted'[c]
    BY <1>1 DEF VouchInv
  <2>3. \A h \in hits, c \in Controls : h.confirmed /\ h \in Docs!Bearing(c) =>
          acted[c] \in Nat /\ acted[c] <= day' /\ h.at <= acted[c]
    BY <1>1 DEF VouchInv
  <2> QED
    BY <2>1, <2>2, <2>3 DEF VouchInv
<1>4. Docs!OneReading'
  BY DEF Docs!OneReading
<1> QED
  BY <1>2, <1>3, <1>4

\* What a request of either kind has to look like.
RewriterOK(v, bound) ==
  /\ {"kind", "doc", "at", "found", "erased"} \subseteq DOMAIN v
  /\ v.doc.id \in Nat /\ v.doc.id < bound
  /\ {"id", "method"} \subseteq DOMAIN v.doc
  /\ v.at \in {"new", "clear", "clearing", "cleared"}

VoucherOK(v) ==
  /\ {"kind", "hit", "to", "dirty", "at", "seen"} \subseteq DOMAIN v
  /\ v.dirty => v.kind = "confirm" /\ v.hit.id[2].concept = v.hit.concept

\* What is asked of requests holds on while one of them goes on.
LEMMA RequestsStand ==
  ASSUME RecordsOK, RequestsOK, issued' \in Nat, issued <= issued',
         NEW p \in DocumentRequests, NEW v,
         \A q \in DocumentRequests : req'[q] = IF q = p THEN v ELSE req[q],
         v.kind \in {"upload", "delete"} => RewriterOK(v, issued'),
         v.kind \in {"confirm", "attest"} => VoucherOK(v)
  PROVE  RequestsOK'
<1>1. \A q \in DocumentRequests : req[q].kind \in {"upload", "delete"} => RewriterOK(req[q], issued')
  BY DEF RecordsOK, RequestsOK, Rewriters, RewriterOK
<1>2. \A q \in DocumentRequests : req[q].kind \in {"confirm", "attest"} => VoucherOK(req[q])
  BY DEF RequestsOK, VoucherOK
<1>3. \A q \in DocumentRequests : req'[q].kind \in {"upload", "delete"} => RewriterOK(req'[q], issued')
  BY <1>1
<1>4. \A q \in DocumentRequests : req'[q].kind \in {"confirm", "attest"} => VoucherOK(req'[q])
  BY <1>2
<1> QED
  BY <1>3, <1>4 DEF RequestsOK, Rewriters, RewriterOK, VoucherOK

\* Who rewrites goes on with it while the others only mark hits.
LEMMA RewritersStand ==
  ASSUME RewriteInv, Rewriters' \subseteq Rewriters, \A q \in Rewriters' : req'[q] = req[q],
         UNCHANGED docs, crossed \subseteq crossed',
         \A h \in hits' : \E g \in hits : g.id = h.id /\ g.doc = h.doc
  PROVE  RewriteInv'
<1> SUFFICES ASSUME NEW p \in Rewriters', req'[p].doc.id \notin crossed'
             PROVE  /\ \A q \in Rewriters' : req'[q].doc.id = req'[p].doc.id => q = p
                    /\ req'[p].at # "new" => \E d \in docs' : d.id = req'[p].doc.id
                    /\ req'[p].at = "new" => \A h \in hits' : h.doc # req'[p].doc.id
                    /\ \A h \in hits' : h.doc = req'[p].doc.id =>
                         /\ req'[p].at = "clearing" => h.id \in req'[p].found
                         /\ req'[p].at = "cleared" => h.id \in req'[p].erased
  BY DEF RewriteInv
<1>1. p \in Rewriters /\ req'[p] = req[p] /\ req[p].doc.id \notin crossed
  OBVIOUS
<1>2. /\ \A q \in Rewriters : req[q].doc.id = req[p].doc.id => q = p
      /\ req[p].at # "new" => \E d \in docs : d.id = req[p].doc.id
      /\ req[p].at = "new" => \A h \in hits : h.doc # req[p].doc.id
      /\ \A h \in hits : h.doc = req[p].doc.id =>
           /\ req[p].at = "clearing" => h.id \in req[p].found
           /\ req[p].at = "cleared" => h.id \in req[p].erased
  BY <1>1 DEF RewriteInv
<1>3. \A q \in Rewriters' : req'[q].doc.id = req'[p].doc.id => q = p
  BY <1>1, <1>2
<1>4. req'[p].at # "new" => \E d \in docs' : d.id = req'[p].doc.id
  BY <1>1, <1>2
<1>5. req'[p].at = "new" => \A h \in hits' : h.doc # req'[p].doc.id
  BY <1>1, <1>2
<1>6. ASSUME NEW h \in hits', h.doc = req'[p].doc.id
      PROVE  /\ req'[p].at = "clearing" => h.id \in req'[p].found
             /\ req'[p].at = "cleared" => h.id \in req'[p].erased
  <2>1. PICK g \in hits : g.id = h.id /\ g.doc = h.doc
    OBVIOUS
  <2> QED
    BY <1>1, <1>2, <1>6, <2>1
<1> QED
  BY <1>3, <1>4, <1>5, <1>6

\* A request that loads, is refused, fails or is killed changes no record.
LEMMA StepsAsideKeep ==
  ASSUME DocsInv, NEW p \in DocumentRequests, NEW v, req' = [req EXCEPT ![p] = v],
         UNCHANGED <<docs, hits, att, day, acted, crossed, issued>>,
         v.kind \notin {"upload", "delete"},
         v.kind \in {"confirm", "attest"} => VoucherOK(v)
  PROVE  DocsInv'
<1>1. /\ \A q \in DocumentRequests : req'[q] = IF q = p THEN v ELSE req[q]
      /\ req' = [q \in DocumentRequests |-> req'[q]]
  BY DocumentRequestFacts DEF DocsInv
<1>2. day \in Nat /\ issued \in Nat
  BY DEF DocsInv, RecordsOK
<1>3. RecordsOK' /\ VouchInv' /\ Docs!OneReading'
  BY <1>1, <1>2, RecordsStand DEF DocsInv
<1>4. RequestsOK'
  BY <1>1, <1>2, RequestsStand DEF DocsInv
<1>5. RewriteInv'
  <2>1. Rewriters' \subseteq Rewriters /\ \A q \in Rewriters' : req'[q] = req[q]
    BY <1>1 DEF Rewriters
  <2> QED
    BY <2>1, RewritersStand DEF DocsInv
<1> QED
  BY <1>3, <1>4, <1>5 DEF DocsInv

\* A request that ends early leaves the records as they are.
LEMMA KillKeepsDocs ==
  ASSUME DocsInv, NEW p \in DocumentRequests, req' = [req EXCEPT ![p] = Docs!Idle],
         UNCHANGED <<docs, hits, att, day, acted, crossed, issued>>
  PROVE  DocsInv'
<1>1. Docs!Idle.kind \notin {"upload", "delete"} /\ Docs!Idle.kind \notin {"confirm", "attest"}
  BY DEF Docs!Idle
<1> HIDE DEF Docs!Idle
<1> QED
  BY <1>1, StepsAsideKeep

\* A sign-off is read before it is written.
LEMMA LoadKeepsDocs ==
  ASSUME DocsInv, NEW p \in DocumentRequests, Docs!Load(p)
  PROVE  DocsInv'
<1> DEFINE v == [req[p] EXCEPT !.at = "save", !.seen = att[Head(req[p].todo)]]
<1>1. /\ req[p].kind \in {"confirm", "attest"} /\ VoucherOK(req[p])
      /\ UNCHANGED <<docs, hits, att, day, acted, crossed, issued>>
  BY DEF Docs!Load, Docs!At, Docs!rows, Docs!history, DocsInv, RequestsOK, VoucherOK
<1>2. req' = [req EXCEPT ![p] = v]
  BY DEF Docs!Load
<1>3. /\ DOMAIN v = DOMAIN req[p]
      /\ v.kind = req[p].kind /\ v.dirty = req[p].dirty /\ v.hit = req[p].hit
  BY <1>1 DEF VoucherOK
<1> HIDE DEF v
<1>4. VoucherOK(v) /\ v.kind \notin {"upload", "delete"}
  BY <1>1, <1>3 DEF VoucherOK
<1> QED
  BY <1>1, <1>2, <1>4, StepsAsideKeep

\* A confirmation begins with the hit as it is.
LEMMA ConfirmKeepsDocs ==
  ASSUME DocsInv, NEW p \in DocumentRequests, NEW h \in hits, NEW to, NEW attest,
         Docs!Confirm(p, h, to, attest)
  PROVE  DocsInv'
<1> DEFINE entry == [status |-> "compliant", owner |-> None, ref |-> <<h.doc>>]
           todo == IF to /\ attest THEN Maps[h.concept] ELSE <<>>
           v == Docs!Vouching("confirm", h, to, todo, entry)
<1>1. /\ req' = [req EXCEPT ![p] = v]
      /\ UNCHANGED <<docs, hits, att, day, acted, crossed, issued>>
  BY DEF Docs!Confirm, Docs!Begin, Docs!rows, Docs!history
<1>2. /\ {"kind", "hit", "to", "dirty", "at", "seen"} \subseteq DOMAIN v
      /\ v.kind = "confirm" /\ v.hit = h
  BY DEF Docs!Vouching
<1> HIDE DEF v
<1>3. h.id[2].concept = h.concept
  BY DEF DocsInv, RecordsOK
<1>4. VoucherOK(v) /\ v.kind \notin {"upload", "delete"}
  BY <1>2, <1>3 DEF VoucherOK
<1> QED
  BY <1>1, <1>4, StepsAsideKeep

\* A sign-off marks no hit.
LEMMA AttestKeepsDocs ==
  ASSUME DocsInv, NEW p \in DocumentRequests, NEW c, NEW status, NEW owner,
         Docs!Attest(p, c, status, owner)
  PROVE  DocsInv'
<1> DEFINE entry == [status |-> status, owner |-> owner, ref |-> None]
           v == Docs!Vouching("attest", Docs!NoHit, FALSE, <<c>>, entry)
<1>1. /\ req' = [req EXCEPT ![p] = v]
      /\ UNCHANGED <<docs, hits, att, day, acted, crossed, issued>>
  BY DEF Docs!Attest, Docs!Begin, Docs!rows, Docs!history
<1>2. /\ {"kind", "hit", "to", "dirty", "at", "seen"} \subseteq DOMAIN v
      /\ v.kind = "attest" /\ ~v.dirty
  BY DEF Docs!Vouching
<1> HIDE DEF v
<1>3. VoucherOK(v) /\ v.kind \notin {"upload", "delete"}
  BY <1>2 DEF VoucherOK
<1> QED
  BY <1>1, <1>3, StepsAsideKeep

\* Time passes.
LEMMA PassKeepsDocs ==
  ASSUME DocsInv, Docs!Pass
  PROVE  DocsInv'
<1>1. /\ day' = day + 1 /\ UNCHANGED <<docs, hits, att, req, issued, acted, crossed>>
      /\ day \in Nat /\ issued \in Nat /\ req = [p \in DocumentRequests |-> req[p]]
  BY DEF Docs!Pass, Docs!rows, Docs!history, DocsInv, RecordsOK
<1>2. RecordsOK' /\ VouchInv' /\ Docs!OneReading'
  BY <1>1, RecordsStand DEF DocsInv
<1>3. Rewriters' = Rewriters
  BY <1>1 DEF Rewriters
<1>4. RequestsOK'
  BY <1>1, <1>3 DEF DocsInv, RequestsOK
<1>5. RewriteInv'
  BY <1>1, <1>3, RewritersStand DEF DocsInv
<1> QED
  BY <1>2, <1>4, <1>5 DEF DocsInv

-----------------------------------------------------------------------------
(* Documents come, come again and go.                                       *)

\* A rewriter goes on to its next step with its document.
LEMMA RewriterGoesOn ==
  ASSUME DocsInv, NEW p \in Rewriters, NEW v, req' = [req EXCEPT ![p] = v],
         UNCHANGED <<docs, hits, att, day, acted, crossed, issued>>,
         v.kind = req[p].kind, v.doc = req[p].doc, DOMAIN v = DOMAIN req[p],
         req[p].at # "new",
         v.at \in {"clearing", "cleared"},
         \A h \in hits : h.doc = v.doc.id /\ v.doc.id \notin crossed =>
           /\ v.at = "clearing" => h.id \in v.found
           /\ v.at = "cleared" => h.id \in v.erased
  PROVE  DocsInv'
<1>0. p \in DocumentRequests
  BY DEF Rewriters
<1>1. /\ \A q \in DocumentRequests : req'[q] = IF q = p THEN v ELSE req[q]
      /\ req' = [q \in DocumentRequests |-> req'[q]]
  BY <1>0, DocumentRequestFacts DEF DocsInv
<1>2. day \in Nat /\ issued \in Nat
  BY DEF DocsInv, RecordsOK
<1>3. RecordsOK' /\ VouchInv' /\ Docs!OneReading'
  BY <1>1, <1>2, RecordsStand DEF DocsInv
<1>4. RewriterOK(v, issued)
  BY <1>0 DEF DocsInv, RequestsOK, RewriterOK
<1>5. RequestsOK'
  BY <1>0, <1>1, <1>2, <1>4, RequestsStand DEF DocsInv, Rewriters
<1>6. Rewriters' = Rewriters /\ \A q \in Rewriters : req'[q].doc.id = req[q].doc.id
  BY <1>0, <1>1 DEF Rewriters
<1>7. RewriteInv'
  <2> SUFFICES ASSUME NEW q \in Rewriters, req[q].doc.id \notin crossed
               PROVE  /\ \A r \in Rewriters : req[r].doc.id = req[q].doc.id => r = q
                      /\ req'[q].at # "new" => \E d \in docs : d.id = req[q].doc.id
                      /\ req'[q].at = "new" => \A h \in hits : h.doc # req[q].doc.id
                      /\ \A h \in hits : h.doc = req[q].doc.id =>
                           /\ req'[q].at = "clearing" => h.id \in req'[q].found
                           /\ req'[q].at = "cleared" => h.id \in req'[q].erased
    BY <1>6 DEF RewriteInv
  <2>1. /\ \A r \in Rewriters : req[r].doc.id = req[q].doc.id => r = q
        /\ req[q].at # "new" => \E d \in docs : d.id = req[q].doc.id
        /\ req[q].at = "new" => \A h \in hits : h.doc # req[q].doc.id
        /\ \A h \in hits : h.doc = req[q].doc.id =>
             /\ req[q].at = "clearing" => h.id \in req[q].found
             /\ req[q].at = "cleared" => h.id \in req[q].erased
    BY DEF DocsInv, RewriteInv
  <2>2. CASE q # p
    <3>1. req'[q] = req[q]
      BY <1>1, <2>2 DEF Rewriters
    <3> QED
      BY <2>1, <3>1
  <2>3. CASE q = p
    <3>1. req'[q] = v
      BY <1>0, <1>1, <2>3
    <3> QED
      BY <1>0, <2>1, <2>3, <3>1
  <2> QED
    BY <2>2, <2>3
<1> QED
  BY <1>3, <1>5, <1>7 DEF DocsInv

\* A rewriter finds every hit of a document it has to itself ...
LEMMA ClearKeepsDocs ==
  ASSUME DocsInv, NEW p \in DocumentRequests, Docs!Clear(p)
  PROVE  DocsInv'
<1> DEFINE found == {h.id : h \in {x \in hits : x.doc = req[p].doc.id}}
           v == [req[p] EXCEPT !.at = "clearing", !.found = found]
<1>1. /\ p \in Rewriters /\ req[p].at = "clear"
      /\ req' = [req EXCEPT ![p] = v]
      /\ UNCHANGED <<docs, hits, att, day, acted, crossed, issued>>
  BY DEF Docs!Clear, Docs!rows, Docs!history, Rewriters
<1>2. {"kind", "doc", "at", "found", "erased"} \subseteq DOMAIN req[p]
  BY <1>1 DEF DocsInv, RequestsOK
<1>3. /\ DOMAIN v = DOMAIN req[p] /\ v.kind = req[p].kind /\ v.doc = req[p].doc
      /\ v.at = "clearing" /\ v.found = found
  BY <1>2
<1> HIDE DEF v
<1>4. \A h \in hits : h.doc = v.doc.id => h.id \in v.found
  BY <1>3
<1> QED
  BY <1>1, <1>3, <1>4, RewriterGoesOn

\* ... and deletes what it found.
LEMMA ClearedKeepsDocs ==
  ASSUME DocsInv, NEW p \in DocumentRequests, Docs!Cleared(p)
  PROVE  DocsInv'
<1> DEFINE erased == req[p].found \cap {h.id : h \in hits}
           v == [req[p] EXCEPT !.at = "cleared", !.found = {}, !.erased = erased]
           x == req[p].doc.id
<1>1. /\ p \in Rewriters /\ req[p].at = "clearing"
      /\ req' = [req EXCEPT ![p] = v]
      /\ UNCHANGED <<docs, hits, att, day, acted, crossed, issued>>
  BY DEF Docs!Cleared, Docs!rows, Docs!history, Rewriters
<1>2. {"kind", "doc", "at", "found", "erased"} \subseteq DOMAIN req[p]
  BY <1>1 DEF DocsInv, RequestsOK
<1>3. /\ DOMAIN v = DOMAIN req[p] /\ v.kind = req[p].kind /\ v.doc = req[p].doc
      /\ v.at = "cleared" /\ v.erased = erased
  BY <1>2
<1> HIDE DEF v
<1>4. \A h \in hits : h.doc = x /\ x \notin crossed => h.id \in v.erased
  BY <1>1, <1>3 DEF DocsInv, RewriteInv
<1> QED
  BY <1>1, <1>3, <1>4, RewriterGoesOn

\* The fields of a request that begins to rewrite.
LEMMA RewritingFields ==
  ASSUME NEW kind, NEW doc, NEW at
  PROVE  LET v == Docs!Rewriting(kind, doc, at)
         IN  /\ {"kind", "doc", "at", "found", "erased"} \subseteq DOMAIN v
             /\ v.kind = kind /\ v.doc = doc /\ v.at = at
BY DEF Docs!Rewriting

\* A request that begins to rewrite a document nobody else rewrites has it to
\* itself; else the document is one two requests crossed at.
LEMMA RewriterBegins ==
  ASSUME DocsInv, NEW p \in DocumentRequests, req[p].kind = "idle", NEW v,
         req' = [req EXCEPT ![p] = v], UNCHANGED <<docs, hits, att, day, acted>>,
         crossed \subseteq crossed', issued' \in Nat, issued <= issued',
         v.kind \in {"upload", "delete"}, RewriterOK(v, issued'), v.at \in {"new", "clear"},
         v.at = "clear" => \E d \in docs : d.id = v.doc.id,
         v.at = "new" => \A h \in hits : h.doc # v.doc.id,
         (\E q \in Rewriters : req[q].doc.id = v.doc.id) => v.doc.id \in crossed'
  PROVE  DocsInv'
<1>1. /\ \A q \in DocumentRequests : req'[q] = IF q = p THEN v ELSE req[q]
      /\ req' = [q \in DocumentRequests |-> req'[q]]
  BY DocumentRequestFacts DEF DocsInv
<1>2. day \in Nat /\ issued \in Nat /\ day' = day
  BY DEF DocsInv, RecordsOK
<1>3. RecordsOK' /\ VouchInv' /\ Docs!OneReading'
  BY <1>1, <1>2, RecordsStand DEF DocsInv
<1>4. RequestsOK'
  BY <1>1, RequestsStand DEF DocsInv
<1>5. /\ Rewriters' = Rewriters \cup {p} /\ p \notin Rewriters
      /\ req'[p] = v /\ \A q \in Rewriters : req'[q] = req[q]
  BY <1>1 DEF Rewriters
<1>6. RewriteInv'
  <2> SUFFICES ASSUME NEW q \in Rewriters', req'[q].doc.id \notin crossed'
               PROVE  /\ \A r \in Rewriters' : req'[r].doc.id = req'[q].doc.id => r = q
                      /\ req'[q].at # "new" => \E d \in docs : d.id = req'[q].doc.id
                      /\ req'[q].at = "new" => \A h \in hits : h.doc # req'[q].doc.id
                      /\ \A h \in hits : h.doc = req'[q].doc.id =>
                           /\ req'[q].at = "clearing" => h.id \in req'[q].found
                           /\ req'[q].at = "cleared" => h.id \in req'[q].erased
    BY DEF RewriteInv
  <2>1. CASE q = p
    <3>1. \A r \in Rewriters : req[r].doc.id # v.doc.id
      BY <1>5, <2>1
    <3>2. \A r \in Rewriters' : req'[r].doc.id = req'[q].doc.id => r = q
      BY <1>5, <2>1, <3>1
    <3> QED
      BY <1>5, <2>1, <3>2
  <2>2. CASE q \in Rewriters
    <3>1. req'[q] = req[q] /\ req[q].doc.id \notin crossed
      BY <1>5, <2>2
    <3>2. /\ \A r \in Rewriters : req[r].doc.id = req[q].doc.id => r = q
          /\ req[q].at # "new" => \E d \in docs : d.id = req[q].doc.id
          /\ req[q].at = "new" => \A h \in hits : h.doc # req[q].doc.id
          /\ \A h \in hits : h.doc = req[q].doc.id =>
               /\ req[q].at = "clearing" => h.id \in req[q].found
               /\ req[q].at = "cleared" => h.id \in req[q].erased
      BY <2>2, <3>1 DEF DocsInv, RewriteInv
    <3>3. v.doc.id # req[q].doc.id
      BY <2>2, <3>1
    <3>4. \A r \in Rewriters' : req'[r].doc.id = req'[q].doc.id => r = q
      BY <1>5, <3>1, <3>2, <3>3
    <3> QED
      BY <3>1, <3>2, <3>4
  <2> QED
    BY <1>5, <2>1, <2>2
<1> QED
  BY <1>3, <1>4, <1>6 DEF DocsInv

\* A document on file is taken up by one more request.
LEMMA TakenUp ==
  ASSUME DocsInv, NEW p \in DocumentRequests, NEW kind \in {"upload", "delete"}, NEW d \in docs,
         Docs!Begin(p, Docs!Rewriting(kind, d, "clear")), Docs!Meet(d.id),
         UNCHANGED <<docs, hits, att, day, acted, issued>>
  PROVE  DocsInv'
<1> DEFINE v == Docs!Rewriting(kind, d, "clear")
<1>1. req[p].kind = "idle" /\ req' = [req EXCEPT ![p] = v]
  BY DEF Docs!Begin
<1>2. /\ {"kind", "doc", "at", "found", "erased"} \subseteq DOMAIN v
      /\ v.kind = kind /\ v.doc = d /\ v.at = "clear"
  BY RewritingFields
<1> HIDE DEF v
<1>3. /\ issued' \in Nat /\ issued <= issued' /\ d.id \in Nat /\ d.id < issued'
      /\ {"id", "method"} \subseteq DOMAIN d
  BY DEF DocsInv, RecordsOK
<1>4. RewriterOK(v, issued')
  BY <1>2, <1>3 DEF RewriterOK
<1>5. /\ crossed \subseteq crossed'
      /\ (\E q \in Rewriters : req[q].doc.id = v.doc.id) => v.doc.id \in crossed'
  BY <1>2 DEF Docs!Meet, Docs!Rewrites, Rewriters
<1>6. v.at = "clear" => \E e \in docs : e.id = v.doc.id
  BY <1>2
<1>7. v.at \in {"new", "clear"} /\ (v.at = "new" => \A h \in hits : h.doc # v.doc.id)
  BY <1>2
<1>8. v.kind \in {"upload", "delete"} /\ UNCHANGED <<docs, hits, att, day, acted>>
  BY <1>2
<1> QED
  BY <1>1, <1>3, <1>4, <1>5, <1>6, <1>7, <1>8, RewriterBegins

\* An upload takes up the document of its text, or a new number.
LEMMA UploadKeepsDocs ==
  ASSUME DocsInv, NEW p \in DocumentRequests, NEW content, Docs!Upload(p, content)
  PROVE  DocsInv'
<1>1. UNCHANGED <<docs, hits, att, day, acted>>
  BY DEF Docs!Upload, Docs!rows
<1>2. ASSUME NEW d \in docs, Docs!Begin(p, Docs!Rewriting("upload", d, "clear")),
             Docs!Meet(d.id), UNCHANGED issued
      PROVE  DocsInv'
  BY <1>1, <1>2, TakenUp
<1>3. ASSUME Docs!Begin(p, Docs!Rewriting(
                             "upload", [id |-> issued, content |-> content, method |-> None], "new")),
             issued' = issued + 1, UNCHANGED crossed
      PROVE  DocsInv'
  <2> DEFINE doc == [id |-> issued, content |-> content, method |-> None]
             v == Docs!Rewriting("upload", doc, "new")
  <2>1. req[p].kind = "idle" /\ req' = [req EXCEPT ![p] = v]
    BY <1>3 DEF Docs!Begin
  <2>2. /\ {"kind", "doc", "at", "found", "erased"} \subseteq DOMAIN v
        /\ v.kind = "upload" /\ v.doc = doc /\ v.at = "new"
    BY RewritingFields
  <2>3. doc.id = issued /\ {"id", "method"} \subseteq DOMAIN doc
    OBVIOUS
  <2> HIDE DEF v, doc
  <2>4. issued \in Nat /\ issued' \in Nat /\ issued < issued' /\ issued <= issued'
    BY <1>3 DEF DocsInv, RecordsOK
  <2>5. RewriterOK(v, issued')
    BY <2>2, <2>3, <2>4 DEF RewriterOK
  <2>6. \A h \in hits : h.doc # v.doc.id
    BY <2>2, <2>3 DEF DocsInv, RecordsOK
  <2>7. \A q \in Rewriters : req[q].doc.id # v.doc.id
    BY <2>2, <2>3, <2>4 DEF DocsInv, RequestsOK
  <2>8. v.kind \in {"upload", "delete"} /\ v.at \in {"new", "clear"} /\ v.at # "clear"
    BY <2>2
  <2>9. crossed \subseteq crossed'
    BY <1>3
  <2> QED
    BY <1>1, <2>1, <2>4, <2>5, <2>6, <2>7, <2>8, <2>9, RewriterBegins
<1> QED
  BY <1>2, <1>3 DEF Docs!Upload

\* A deletion takes up its document.
LEMMA DeleteKeepsDocs ==
  ASSUME DocsInv, NEW p \in DocumentRequests, NEW d \in docs, Docs!Delete(p, d)
  PROVE  DocsInv'
<1>1. /\ Docs!Begin(p, Docs!Rewriting("delete", d, "clear")) /\ Docs!Meet(d.id)
      /\ UNCHANGED <<docs, hits, att, day, acted, issued>>
  BY DEF Docs!Delete, Docs!rows
<1> QED
  BY <1>1, TakenUp

\* A hit just read from a document.
Read(h, d) ==
  /\ h.doc = d /\ h.at = day /\ ~h.confirmed
  /\ h.concept \in DOMAIN Maps /\ h.id[2].concept = h.concept
  /\ {"id", "doc", "concept", "at", "confirmed"} \subseteq DOMAIN h

\* A rewriter ends, and leaves of its document what it read, each concept
\* once; of a document that others rewrote it may leave more.
LEMMA RewriterEnds ==
  ASSUME DocsInv, NEW p \in Rewriters, NEW x, x = req[p].doc.id,
         req' = [req EXCEPT ![p] = Docs!Idle],
         UNCHANGED <<att, day, acted, crossed>>, issued' \in Nat, issued <= issued',
         NEW new, hits' \subseteq hits \cup new,
         \A h \in new : Read(h, x),
         \A g, h \in new : g.concept = h.concept => g = h,
         x \notin crossed => \A h \in hits' : h.doc = x => h \in new,
         \A d \in docs : d.id # x => d \in docs',
         \A d \in docs' : d \in docs \/ (d.id = x /\ {"id", "method"} \subseteq DOMAIN d),
         x \notin crossed /\ hits' \cap new # {} => \E d \in docs' : d.id = x
  PROVE  DocsInv'
<1>1. p \in DocumentRequests
  BY DEF Rewriters
<1>2. /\ \A q \in DocumentRequests : req'[q] = IF q = p THEN Docs!Idle ELSE req[q]
      /\ req' = [q \in DocumentRequests |-> req'[q]]
  BY <1>1, DocumentRequestFacts DEF DocsInv
<1>3. day \in Nat /\ issued \in Nat /\ x \in Nat /\ x < issued
  BY DEF DocsInv, RecordsOK, RequestsOK
<1>4. Docs!Idle.kind \notin {"upload", "delete"} /\ Docs!Idle.kind \notin {"confirm", "attest"}
  BY DEF Docs!Idle
<1> HIDE DEF Docs!Idle
<1>5. RequestsOK'
  BY <1>1, <1>2, <1>3, <1>4, RequestsStand DEF DocsInv
<1>6. RecordsOK'
  <2>1. \A d \in docs' : d.id \in Nat /\ d.id < issued' /\ {"id", "method"} \subseteq DOMAIN d
    BY <1>3 DEF DocsInv, RecordsOK
  <2>2. \A h \in hits : h.doc < issued'
    BY <1>3 DEF DocsInv, RecordsOK
  <2>3. \A h \in hits' : /\ h.doc \in Nat /\ h.doc < issued'
                         /\ h.at \in Nat /\ h.at <= day
                         /\ h.concept \in DOMAIN Maps /\ h.id[2].concept = h.concept
                         /\ {"id", "doc", "concept", "at", "confirmed"} \subseteq DOMAIN h
    <3>1. ASSUME NEW h \in new
          PROVE  /\ h.doc \in Nat /\ h.doc < issued'
                 /\ h.at \in Nat /\ h.at <= day
                 /\ h.concept \in DOMAIN Maps /\ h.id[2].concept = h.concept
                 /\ {"id", "doc", "concept", "at", "confirmed"} \subseteq DOMAIN h
      BY <1>3, <3>1 DEF Read
    <3> QED
      BY <2>2, <3>1 DEF DocsInv, RecordsOK
  <2> QED
    BY <1>2, <1>3, <2>1, <2>3 DEF DocsInv, RecordsOK
<1>7. VouchInv'
  <2>1. \A h \in hits' : h.confirmed => h \in hits
    BY DEF Read
  <2>2. \A c \in Controls, h \in hits' : h.confirmed /\ h \in Docs!Bearing(c)' => h \in Docs!Bearing(c)
    BY <2>1 DEF Docs!Bearing
  <2>3. \A h \in hits', c \in Controls : h.confirmed /\ h \in Docs!Bearing(c)' =>
          acted'[c] \in Nat /\ acted'[c] <= day' /\ h.at <= acted'[c]
    BY <2>1, <2>2 DEF DocsInv, VouchInv
  <2> QED
    BY <2>3 DEF DocsInv, VouchInv
<1>8. Docs!OneReading'
  <2> SUFFICES ASSUME NEW h \in hits', h.doc \notin crossed
               PROVE  /\ \E d \in docs' : d.id = h.doc
                      /\ \A g \in hits' : g.doc = h.doc /\ g.concept = h.concept => g = h
    BY DEF Docs!OneReading
  <2>1. CASE h.doc = x
    <3>1. h \in new
      BY <2>1
    <3> QED
      BY <2>1, <3>1
  <2>2. CASE h.doc # x
    <3>1. \A g \in hits' : g.doc # x => g \in hits
      BY DEF Read
    <3>2. h \in hits
      BY <2>2, <3>1
    <3>3. /\ \E d \in docs : d.id = h.doc
          /\ \A g \in hits : g.doc = h.doc /\ g.concept = h.concept => g = h
      BY <3>2 DEF DocsInv, Docs!OneReading
    <3> QED
      BY <2>2, <3>1, <3>3
  <2> QED
    BY <2>1, <2>2
<1>9. RewriteInv'
  <2>1. /\ Rewriters' = Rewriters \ {p}
        /\ \A q \in Rewriters' : req'[q] = req[q]
    BY <1>2, <1>4 DEF Rewriters
  <2> SUFFICES ASSUME NEW q \in Rewriters', req[q].doc.id \notin crossed
               PROVE  /\ \A r \in Rewriters' : req[r].doc.id = req[q].doc.id => r = q
                      /\ req[q].at # "new" => \E d \in docs' : d.id = req[q].doc.id
                      /\ req[q].at = "new" => \A h \in hits' : h.doc # req[q].doc.id
                      /\ \A h \in hits' : h.doc = req[q].doc.id =>
                           /\ req[q].at = "clearing" => h.id \in req[q].found
                           /\ req[q].at = "cleared" => h.id \in req[q].erased
    BY <2>1 DEF RewriteInv
  <2>2. /\ \A r \in Rewriters : req[r].doc.id = req[q].doc.id => r = q
        /\ req[q].at # "new" => \E d \in docs : d.id = req[q].doc.id
        /\ req[q].at = "new" => \A h \in hits : h.doc # req[q].doc.id
        /\ \A h \in hits : h.doc = req[q].doc.id =>
             /\ req[q].at = "clearing" => h.id \in req[q].found
             /\ req[q].at = "cleared" => h.id \in req[q].erased
    BY <2>1 DEF DocsInv, RewriteInv
  <2>3. req[q].doc.id # x
    BY <2>1, <2>2
  <2>4. \A h \in hits' : h.doc = req[q].doc.id => h \in hits
    BY <2>3 DEF Read
  <2>5. req[q].at # "new" => \E d \in docs' : d.id = req[q].doc.id
    BY <2>2, <2>3
  <2> QED
    BY <2>1, <2>2, <2>4, <2>5
<1> QED
  BY <1>5, <1>6, <1>7, <1>8, <1>9 DEF DocsInv

\* Of a document it has to itself, a rewriter has cleared every hit.
LEMMA NothingRemains ==
  ASSUME DocsInv, NEW p \in Rewriters, req[p].at \in {"new", "cleared"},
         req[p].doc.id \notin crossed
  PROVE  /\ \A h \in Docs!Remaining(p) : h.doc # req[p].doc.id
         /\ req[p].at = "cleared" => \E d \in docs : d.id = req[p].doc.id
BY DEF DocsInv, RewriteInv, Docs!Remaining

\* A concept is extracted once, and the lexicon knows it.
LEMMA ExtractedOnce ==
  ASSUME Docs!DocumentsAssumption, NEW answer \in Answers
  PROVE  /\ \A h \in Docs!Extracted(answer) : h.concept \in DOMAIN Maps
         /\ \A g, h \in Docs!Extracted(answer) : g.concept = h.concept => g = h
<1> DEFINE kept == {i \in DOMAIN answer.raw :
                      answer.raw[i].concept \in DOMAIN Maps /\ answer.raw[i].quoted}
           firsts == {j \in kept : \A k \in kept :
                        k < j => answer.raw[k].concept # answer.raw[j].concept}
           F(i) == [concept |-> answer.raw[i].concept, conf |-> answer.raw[i].conf]
<1>1. Docs!Extracted(answer) = {F(i) : i \in firsts}
  BY DEF Docs!Extracted
<1>2. \A i \in kept : i \in Nat /\ answer.raw[i].concept \in DOMAIN Maps
  BY DEF Docs!DocumentsAssumption
<1>3. \A i, j \in firsts : answer.raw[i].concept = answer.raw[j].concept => i = j
  BY <1>2
<1>4. \A i : F(i).concept = answer.raw[i].concept
  OBVIOUS
<1> HIDE DEF F
<1> QED
  BY <1>1, <1>2, <1>3, <1>4

\* An upload leaves one reading of its document.
LEMMA StoreKeepsDocs ==
  ASSUME Docs!DocumentsAssumption, DocsInv, NEW p \in DocumentRequests, NEW answer \in Answers,
         Docs!Store(p, answer)
  PROVE  DocsInv'
<1> DEFINE x == req[p].doc.id
           doc == [req[p].doc EXCEPT !.method = answer.method]
           N(h) == [id |-> <<issued, h>>, doc |-> doc.id, concept |-> h.concept, conf |-> h.conf,
                    confirmed |-> FALSE, at |-> day]
           new == {N(h) : h \in Docs!Extracted(answer)}
<1>1. /\ p \in Rewriters /\ req[p].at \in {"new", "cleared"}
      /\ issued' = issued + 1 /\ req' = [req EXCEPT ![p] = Docs!Idle]
      /\ UNCHANGED <<att, day, acted, crossed>>
  BY DEF Docs!Store, Docs!history, Rewriters
<1>2. \/ /\ docs' = {d \in docs : d.id # doc.id} \cup {doc}
         /\ hits' = Docs!Remaining(p) \cup new
      \/ /\ req[p].at = "cleared" /\ ~\E d \in docs : d.id = doc.id
         /\ hits' = Docs!Remaining(p) \cup new
         /\ UNCHANGED docs
      \/ /\ req[p].at = "cleared" /\ ~\E d \in docs : d.id = doc.id
         /\ UNCHANGED <<docs, hits>>
  BY DEF Docs!Store
<1>3. {"id", "method"} \subseteq DOMAIN req[p].doc /\ issued \in Nat
  BY <1>1 DEF DocsInv, RequestsOK, RecordsOK
<1>4. doc.id = x /\ {"id", "method"} \subseteq DOMAIN doc
  BY <1>3
<1>5. issued' \in Nat /\ issued <= issued'
  BY <1>1, <1>3
<1>6. \A h : /\ N(h).id[2] = h /\ N(h).doc = doc.id /\ N(h).concept = h.concept
             /\ N(h).at = day /\ ~N(h).confirmed
             /\ DOMAIN N(h) = {"id", "doc", "concept", "conf", "confirmed", "at"}
  OBVIOUS
<1> HIDE DEF N, doc
<1>7. \A h \in new : Read(h, x)
  BY <1>4, <1>6, ExtractedOnce DEF Read
<1>8. \A g, h \in new : g.concept = h.concept => g = h
  BY <1>6, ExtractedOnce
<1>9. Docs!Remaining(p) \subseteq hits
  BY DEF Docs!Remaining
<1>10. x \notin crossed => /\ \A h \in Docs!Remaining(p) : h.doc # x
                           /\ req[p].at = "cleared" => \E d \in docs : d.id = x
  BY <1>1, NothingRemains
<1> HIDE DEF new, x
<1>11. hits' \subseteq hits \cup new
  BY <1>2, <1>9
<1>12. x \notin crossed => \A h \in hits' : h.doc = x => h \in new
  BY <1>2, <1>4, <1>10
<1>13. /\ \A d \in docs : d.id # x => d \in docs'
       /\ \A d \in docs' : d \in docs \/ (d.id = x /\ {"id", "method"} \subseteq DOMAIN d)
       /\ x \notin crossed => \E d \in docs' : d.id = x
  <2>1. \A d \in docs : d.id # x => d \in docs'
    BY <1>2, <1>4
  <2>2. \A d \in docs' : d \in docs \/ (d.id = x /\ {"id", "method"} \subseteq DOMAIN d)
    <3>1. \A d \in docs' : d \in docs \/ d = doc
      BY <1>2
    <3> QED
      BY <1>4, <3>1
  <2>3. x \notin crossed => \E d \in docs' : d.id = x
    <3>1. CASE docs' = {d \in docs : d.id # doc.id} \cup {doc}
      BY <1>4, <3>1
    <3>2. CASE req[p].at = "cleared" /\ ~\E d \in docs : d.id = doc.id
      BY <1>4, <1>10, <3>2
    <3> QED
      BY <1>2, <3>1, <3>2
  <2> QED
    BY <2>1, <2>2, <2>3
<1>14. x = req[p].doc.id
  BY DEF x
<1> HIDE DEF Docs!Idle
<1> QED
  BY <1>1, <1>5, <1>7, <1>8, <1>11, <1>12, <1>13, <1>14, RewriterEnds

\* A deletion leaves neither the document nor its hits.
LEMMA RemoveKeepsDocs ==
  ASSUME DocsInv, NEW p \in DocumentRequests, Docs!Remove(p)
  PROVE  DocsInv'
<1> DEFINE x == req[p].doc.id
<1>1. /\ p \in Rewriters /\ req[p].at = "cleared"
      /\ req' = [req EXCEPT ![p] = Docs!Idle]
      /\ hits' = Docs!Remaining(p) /\ docs' = {d \in docs : d.id # x}
      /\ UNCHANGED <<att, day, acted, crossed, issued>>
  BY DEF Docs!Remove, Docs!history, Rewriters
<1>2. issued' \in Nat /\ issued <= issued'
  BY <1>1 DEF DocsInv, RecordsOK
<1>3. PICK new : new = {}
  OBVIOUS
<1>4. x \notin crossed => \A h \in hits' : h.doc = x => h \in new
  BY <1>1, NothingRemains
<1>5. /\ \A d \in docs : d.id # x => d \in docs'
      /\ \A d \in docs' : d \in docs \/ (d.id = x /\ {"id", "method"} \subseteq DOMAIN d)
  BY <1>1
<1>6. /\ hits' \subseteq hits \cup new
      /\ x \notin crossed /\ hits' \cap new # {} => \E d \in docs' : d.id = x
  BY <1>1, <1>3 DEF Docs!Remaining
<1>7. /\ \A h \in new : Read(h, x)
      /\ \A g, h \in new : g.concept = h.concept => g = h
  BY <1>3
<1>8. x = req[p].doc.id
  OBVIOUS
<1> HIDE DEF Docs!Idle, x
<1> QED
  BY <1>1, <1>2, <1>4, <1>5, <1>6, <1>7, <1>8, RewriterEnds

-----------------------------------------------------------------------------
(* A person confirms a hit, or signs a control off.                         *)

\* A hit as a request leaves it.
Mark(p, h) ==
  IF req[p].dirty /\ h.id = req[p].hit.id THEN [h EXCEPT !.confirmed = req[p].to] ELSE h

\* Marking a hit touches nothing but its mark, and marks no other hit.
LEMMA MarkingMarks ==
  ASSUME RecordsOK, NEW p
  PROVE  /\ Docs!Marked(p) = {Mark(p, h) : h \in hits}
         /\ \A h \in hits :
              /\ Mark(p, h).id = h.id /\ Mark(p, h).doc = h.doc
              /\ Mark(p, h).concept = h.concept /\ Mark(p, h).at = h.at
              /\ DOMAIN Mark(p, h) = DOMAIN h
              /\ Mark(p, h) # h => req[p].dirty /\ h.id = req[p].hit.id
                                   /\ Mark(p, h).confirmed = req[p].to
<1>1. Docs!Marked(p) = {Mark(p, h) : h \in hits}
  <2>1. CASE req[p].dirty
    BY <2>1 DEF Docs!Marked, Mark
  <2>2. CASE ~req[p].dirty
    <3>1. \A h \in hits : Mark(p, h) = h
      BY <2>2 DEF Mark
    <3>2. Docs!Marked(p) = hits
      BY <2>2 DEF Docs!Marked
    <3> QED
      BY <3>1, <3>2
  <2> QED
    BY <2>1, <2>2
<1>2. ASSUME NEW h \in hits
      PROVE  /\ Mark(p, h).id = h.id /\ Mark(p, h).doc = h.doc
             /\ Mark(p, h).concept = h.concept /\ Mark(p, h).at = h.at
             /\ DOMAIN Mark(p, h) = DOMAIN h
             /\ Mark(p, h) # h => req[p].dirty /\ h.id = req[p].hit.id
                                  /\ Mark(p, h).confirmed = req[p].to
  <2>1. {"id", "doc", "concept", "at", "confirmed"} \subseteq DOMAIN h
    BY DEF RecordsOK
  <2>2. CASE req[p].dirty /\ h.id = req[p].hit.id
    <3> DEFINE m == [h EXCEPT !.confirmed = req[p].to]
    <3>1. Mark(p, h) = m
      BY <2>2 DEF Mark
    <3>2. /\ m.id = h.id /\ m.doc = h.doc /\ m.concept = h.concept /\ m.at = h.at
          /\ DOMAIN m = DOMAIN h
      BY <2>1
    <3>3. m.confirmed = req[p].to
      BY <2>1
    <3> HIDE DEF m
    <3> QED
      BY <2>2, <3>1, <3>2, <3>3
  <2>3. CASE ~(req[p].dirty /\ h.id = req[p].hit.id)
    BY <2>3 DEF Mark
  <2> QED
    BY <2>2, <2>3
<1> QED
  BY <1>1, <1>2

\* A marked hit was confirmed before, or a person confirms its concept now.
LEMMA ConfirmedBySomeone ==
  ASSUME DocsInv, NEW p \in DocumentRequests, req[p].kind \in {"confirm", "attest"},
         NEW others, Docs!Vouched(p, others), NEW h \in hits, Mark(p, h).confirmed,
         NEW c \in Controls, NEW i \in DOMAIN Maps[h.concept], Maps[h.concept][i] = c
  PROVE  h.confirmed \/ acted'[c] = day
<1>1. CASE Mark(p, h) = h
  BY <1>1
<1>2. CASE Mark(p, h) # h
  <2>1. req[p].dirty /\ h.id = req[p].hit.id /\ req[p].to
    BY <1>2, MarkingMarks DEF DocsInv
  <2>2. req[p].kind = "confirm" /\ req[p].hit.concept = h.concept
    BY <2>1 DEF DocsInv, RecordsOK, RequestsOK
  <2> DEFINE by == IF req[p].kind = "confirm" /\ req[p].to
                   THEN {Maps[req[p].hit.concept][j] : j \in DOMAIN Maps[req[p].hit.concept]} ELSE {}
  <2>3. c \in by
    BY <2>1, <2>2
  <2>4. acted' = [x \in Controls |-> IF x \in by \cup others THEN day ELSE acted[x]]
    BY DEF Docs!Vouched
  <2> HIDE DEF by
  <2> QED
    BY <2>3, <2>4
<1> QED
  BY <1>1, <1>2

\* Who vouches does it today.
LEMMA VouchedToday ==
  ASSUME NEW p, NEW others, Docs!Vouched(p, others), NEW c \in Controls
  PROVE  /\ acted'[c] = day \/ acted'[c] = acted[c]
         /\ c \in others => acted'[c] = day
BY DEF Docs!Vouched

\* A person's word on a hit and on the controls signed off with it.
LEMMA VouchingKeeps ==
  ASSUME DocsInv, NEW p \in DocumentRequests, req[p].kind \in {"confirm", "attest"},
         hits' = Docs!Marked(p), NEW others, Docs!Vouched(p, others),
         UNCHANGED <<docs, day, issued, crossed>>,
         NEW v, req' = [req EXCEPT ![p] = v], v.kind \notin {"upload", "delete"},
         v.kind \in {"confirm", "attest"} => VoucherOK(v),
         att' = [c \in Controls |-> att'[c]],
         \A c \in Controls : att'[c] = att[c] \/ (c \in others /\ att'[c].at = day)
  PROVE  DocsInv'
<1>1. /\ \A q \in DocumentRequests : req'[q] = IF q = p THEN v ELSE req[q]
      /\ req' = [q \in DocumentRequests |-> req'[q]]
  BY DocumentRequestFacts DEF DocsInv
<1>2. day \in Nat /\ issued \in Nat
  BY DEF DocsInv, RecordsOK
<1>3. /\ hits' = {Mark(p, h) : h \in hits}
      /\ \A h \in hits : /\ Mark(p, h).id = h.id /\ Mark(p, h).doc = h.doc
                         /\ Mark(p, h).concept = h.concept /\ Mark(p, h).at = h.at
                         /\ DOMAIN Mark(p, h) = DOMAIN h
  BY MarkingMarks DEF DocsInv
<1>4. RequestsOK'
  BY <1>1, <1>2, RequestsStand DEF DocsInv
<1>5. RecordsOK'
  BY <1>1, <1>2, <1>3 DEF DocsInv, RecordsOK
<1>6. VouchInv'
  <2>1. ASSUME NEW c \in Controls, att'[c] # None
        PROVE  /\ acted'[c] \in Nat /\ acted'[c] <= day
               /\ att'[c].at \in Nat /\ att'[c].at <= acted'[c]
    <3>1. CASE att'[c] = att[c]
      <4>1. acted[c] \in Nat /\ acted[c] <= day /\ att[c].at \in Nat /\ att[c].at <= acted[c]
        BY <2>1, <3>1 DEF DocsInv, VouchInv
      <4> QED
        BY <1>2, <3>1, <4>1, VouchedToday
    <3>2. CASE c \in others /\ att'[c].at = day
      BY <1>2, <3>2, VouchedToday
    <3> QED
      BY <3>1, <3>2
  <2>2. ASSUME NEW g \in hits', NEW c \in Controls, g.confirmed, g \in Docs!Bearing(c)'
        PROVE  acted'[c] \in Nat /\ acted'[c] <= day /\ g.at <= acted'[c]
    <3>1. PICK h \in hits : g = Mark(p, h)
      BY <1>3
    <3>2. g.concept = h.concept /\ g.at = h.at /\ h.at \in Nat /\ h.at <= day
      BY <1>3, <3>1 DEF DocsInv, RecordsOK
    <3>3. PICK i \in DOMAIN Maps[h.concept] : Maps[h.concept][i] = c
      BY <2>2, <3>2 DEF Docs!Bearing
    <3>4. h.confirmed \/ acted'[c] = day
      BY <2>2, <3>1, <3>3, ConfirmedBySomeone
    <3>5. CASE acted'[c] = day
      BY <1>2, <3>2, <3>5
    <3>6. CASE h.confirmed /\ acted'[c] # day
      <4>1. h \in Docs!Bearing(c)
        BY <3>3 DEF Docs!Bearing
      <4>2. acted[c] \in Nat /\ acted[c] <= day /\ h.at <= acted[c]
        BY <3>6, <4>1 DEF DocsInv, VouchInv
      <4> QED
        BY <3>2, <3>6, <4>2, VouchedToday
    <3> QED
      BY <3>4, <3>5, <3>6
  <2> QED
    BY <2>1, <2>2 DEF VouchInv
<1>7. Docs!OneReading'
  <2> SUFFICES ASSUME NEW h \in hits', h.doc \notin crossed
               PROVE  /\ \E d \in docs : d.id = h.doc
                      /\ \A g \in hits' : g.doc = h.doc /\ g.concept = h.concept => g = h
    BY DEF Docs!OneReading
  <2>1. PICK h0 \in hits : h = Mark(p, h0)
    BY <1>3
  <2>2. h0.doc = h.doc /\ h0.concept = h.concept
    BY <1>3, <2>1
  <2>3. /\ \E d \in docs : d.id = h.doc
        /\ \A g \in hits : g.doc = h.doc /\ g.concept = h.concept => g = h0
    BY <2>2 DEF DocsInv, Docs!OneReading
  <2>4. ASSUME NEW g \in hits', g.doc = h.doc, g.concept = h.concept PROVE g = h
    <3>1. PICK g0 \in hits : g = Mark(p, g0)
      BY <1>3
    <3>2. g0.doc = h.doc /\ g0.concept = h.concept
      BY <1>3, <2>4, <3>1
    <3> QED
      BY <2>1, <2>3, <3>1, <3>2
  <2> QED
    BY <2>3, <2>4
<1>8. RewriteInv'
  <2>1. Rewriters' \subseteq Rewriters /\ \A q \in Rewriters' : req'[q] = req[q]
    BY <1>1 DEF Rewriters
  <2>2. \A h \in hits' : \E g \in hits : g.id = h.id /\ g.doc = h.doc
    BY <1>3
  <2> QED
    BY <2>1, <2>2, RewritersStand DEF DocsInv
<1> QED
  BY <1>4, <1>5, <1>6, <1>7, <1>8 DEF DocsInv

\* A request that goes on to the control after marks no hit again.
LEMMA SaveKeepsDocs ==
  ASSUME DocsInv, NEW p \in DocumentRequests, Docs!Save(p)
  PROVE  DocsInv'
<1> DEFINE c == Head(req[p].todo)
           later == [req[p] EXCEPT !.todo = Tail(req[p].todo), !.dirty = FALSE,
                                   !.first = FALSE, !.at = "load"]
<1>1. /\ req[p].kind \in {"confirm", "attest"} /\ VoucherOK(req[p])
      /\ hits' = Docs!Marked(p) /\ Docs!Vouched(p, {c})
      /\ UNCHANGED <<docs, day, issued, crossed>>
  BY DEF Docs!Save, Docs!At, DocsInv, RequestsOK, VoucherOK
<1>2. req' = [req EXCEPT ![p] = Docs!Idle] \/ req' = [req EXCEPT ![p] = later]
  <2>1. req' = [req EXCEPT ![p] = IF Len(req[p].todo) = 1 THEN Docs!Idle ELSE later]
    BY DEF Docs!Save
  <2> HIDE DEF later, Docs!Idle
  <2> QED
    BY <2>1
<1>3. Docs!Idle.kind \notin {"upload", "delete"} /\ Docs!Idle.kind \notin {"confirm", "attest"}
  BY DEF Docs!Idle
<1>4. later.kind \notin {"upload", "delete"} /\ VoucherOK(later)
  <2>1. /\ DOMAIN later = DOMAIN req[p] /\ later.kind = req[p].kind /\ later.hit = req[p].hit
    BY <1>1 DEF VoucherOK
  <2>2. ~later.dirty
    BY <1>1 DEF VoucherOK
  <2> HIDE DEF later
  <2> QED
    BY <1>1, <2>1, <2>2 DEF VoucherOK
<1>5. PICK row : (att' = [att EXCEPT ![c] = row] /\ row.at = day) \/ att' = att
  <2> DEFINE entry == req[p].entry
             changed == {f \in DOMAIN entry : entry[f] # None /\ entry[f] # req[p].seen[f]}
             updated == [f \in DOMAIN entry \cup {"at"} |->
                           IF f = "at" THEN day ELSE IF f \in changed THEN entry[f] ELSE att[c][f]]
             inserted == [status |-> entry.status, owner |-> entry.owner,
                          ref |-> entry.ref, at |-> day]
  <2>1. \/ att' = [att EXCEPT ![c] = inserted]
        \/ att' = [att EXCEPT ![c] = updated]
        \/ att' = att
    BY DEF Docs!Save
  <2>2. inserted.at = day /\ updated.at = day
    OBVIOUS
  <2> HIDE DEF inserted, updated
  <2> QED
    BY <2>1, <2>2
<1>6. /\ att' = [x \in Controls |-> att'[x]]
      /\ \A x \in Controls : att'[x] = att[x] \/ (x \in {c} /\ att'[x].at = day)
  <2>1. att = [x \in Controls |-> att[x]]
    BY DEF DocsInv, RecordsOK
  <2>2. CASE att' = [att EXCEPT ![c] = row] /\ row.at = day
    BY <2>1, <2>2
  <2>3. CASE att' = att
    BY <2>1, <2>3
  <2> QED
    BY <1>5, <2>2, <2>3
<1> HIDE DEF later, c, Docs!Idle
<1>7. CASE req' = [req EXCEPT ![p] = Docs!Idle]
  BY <1>1, <1>3, <1>6, <1>7, VouchingKeeps
<1>8. CASE req' = [req EXCEPT ![p] = later]
  BY <1>1, <1>4, <1>6, <1>8, VouchingKeeps
<1> QED
  BY <1>2, <1>7, <1>8

\* A confirmation that attests nothing marks its hit alone.
LEMMA SettleKeepsDocs ==
  ASSUME DocsInv, NEW p \in DocumentRequests, Docs!Settle(p)
  PROVE  DocsInv'
<1>1. /\ req[p].kind \in {"confirm", "attest"}
      /\ req' = [req EXCEPT ![p] = Docs!Idle]
      /\ UNCHANGED <<docs, att, day, issued, crossed>>
      /\ (hits' = Docs!Marked(p) /\ Docs!Vouched(p, {})) \/ UNCHANGED <<hits, acted>>
  BY DEF Docs!Settle, Docs!At
<1>2. Docs!Idle.kind \notin {"upload", "delete"} /\ Docs!Idle.kind \notin {"confirm", "attest"}
  BY DEF Docs!Idle
<1>3. att' = [x \in Controls |-> att'[x]] /\ \A x \in Controls : att'[x] = att[x]
  BY <1>1 DEF DocsInv, RecordsOK
<1> HIDE DEF Docs!Idle
<1>4. CASE UNCHANGED <<hits, acted>>
  BY <1>1, <1>4, KillKeepsDocs
<1>5. CASE hits' = Docs!Marked(p) /\ Docs!Vouched(p, {})
  <2>1. PICK others : Docs!Vouched(p, others)
    BY <1>5
  <2> QED
    BY <1>1, <1>2, <1>3, <1>5, <2>1, VouchingKeeps
<1> QED
  BY <1>1, <1>4, <1>5

-----------------------------------------------------------------------------
\* At first nothing is on record.
LEMMA DocsBegin ==
  ASSUME Docs!Init
  PROVE  DocsInv
<1>1. /\ docs = {} /\ hits = {} /\ day = 0 /\ issued = 0
      /\ att = [c \in Controls |-> None] /\ req = [p \in DocumentRequests |-> Docs!Idle]
  BY DEF Docs!Init
<1>2. \A p \in DocumentRequests : req[p].kind = "idle"
  BY <1>1 DEF Docs!Idle
<1>3. RecordsOK
  BY <1>1 DEF RecordsOK
<1>4. Rewriters = {}
  BY <1>2 DEF Rewriters
<1>5. RequestsOK
  BY <1>2, <1>4 DEF RequestsOK
<1>6. VouchInv /\ RewriteInv /\ Docs!OneReading
  BY <1>1, <1>4 DEF VouchInv, RewriteInv, Docs!OneReading
<1> QED
  BY <1>3, <1>5, <1>6 DEF DocsInv

\* Every step keeps the invariant.
LEMMA DocsKept ==
  ASSUME Docs!DocumentsAssumption, DocsInv, [Docs!Next]_(Docs!vars)
  PROVE  DocsInv'
<1>1. ASSUME NEW p \in DocumentRequests, NEW content \in Contents, Docs!Upload(p, content)
      PROVE  DocsInv'
  BY <1>1, UploadKeepsDocs
<1>2. ASSUME NEW p \in DocumentRequests, NEW d \in docs, Docs!Delete(p, d) PROVE DocsInv'
  BY <1>2, DeleteKeepsDocs
<1>3. ASSUME NEW p \in DocumentRequests, Docs!Clear(p) \/ Docs!Cleared(p) \/ Docs!Remove(p)
      PROVE  DocsInv'
  BY <1>3, ClearKeepsDocs, ClearedKeepsDocs, RemoveKeepsDocs
<1>4. ASSUME NEW p \in DocumentRequests, NEW answer \in Answers, Docs!Store(p, answer)
      PROVE  DocsInv'
  BY <1>4, StoreKeepsDocs
<1>5. ASSUME NEW p \in DocumentRequests, NEW h \in hits, NEW to \in BOOLEAN, NEW attest \in BOOLEAN,
             Docs!Confirm(p, h, to, attest)
      PROVE  DocsInv'
  BY <1>5, ConfirmKeepsDocs
<1>6. ASSUME NEW p \in DocumentRequests, NEW c \in Controls,
             NEW status \in {"compliant", "non_compliant"}, NEW owner \in Owners,
             Docs!Attest(p, c, status, owner)
      PROVE  DocsInv'
  BY <1>6, AttestKeepsDocs
<1>7. ASSUME NEW p \in DocumentRequests,
             Docs!Load(p) \/ Docs!Save(p) \/ Docs!Settle(p)
      PROVE  DocsInv'
  BY <1>7, LoadKeepsDocs, SaveKeepsDocs, SettleKeepsDocs
<1>8. ASSUME NEW p \in DocumentRequests,
             Docs!Refused(p) \/ Docs!Fail(p) \/ Docs!Kill(p)
      PROVE  DocsInv'
  <2>1. /\ req' = [req EXCEPT ![p] = Docs!Idle]
        /\ UNCHANGED <<docs, hits, att, day, acted, crossed, issued>>
    BY <1>8 DEF Docs!Refused, Docs!Fail, Docs!Kill, Docs!rows, Docs!history
  <2> QED
    BY <2>1, KillKeepsDocs
<1>9. CASE Docs!Pass
  BY <1>9, PassKeepsDocs
<1>10. CASE UNCHANGED Docs!vars
  <2>1. UNCHANGED <<docs, hits, att, day, req, issued, acted, crossed>>
    BY <1>10 DEF Docs!vars, Docs!rows, Docs!history
  <2>2. /\ day \in Nat /\ day' \in Nat /\ day <= day' /\ issued' \in Nat /\ issued <= issued'
        /\ req' = [q \in DocumentRequests |-> req'[q]]
    BY <2>1 DEF DocsInv, RecordsOK
  <2>3. RecordsOK' /\ VouchInv' /\ Docs!OneReading'
    BY <2>1, <2>2, RecordsStand DEF DocsInv
  <2>4. Rewriters' = Rewriters
    BY <2>1 DEF Rewriters
  <2>5. RequestsOK'
    BY <2>1, <2>4 DEF DocsInv, RequestsOK
  <2>6. RewriteInv'
    BY <2>1, <2>4, RewritersStand DEF DocsInv
  <2> QED
    BY <2>3, <2>5, <2>6 DEF DocsInv
<1> QED
  BY <1>1, <1>2, <1>3, <1>4, <1>5, <1>6, <1>7, <1>8, <1>9, <1>10 DEF Docs!Next

\* What happened later is younger.
LEMMA LaterIsYounger ==
  ASSUME Docs!DocumentsAssumption, day \in Nat, NEW a \in Nat, NEW b \in Nat, a <= b, b <= day
  PROVE  Docs!Age(b) <= Docs!Age(a) /\ Docs!Age(a) \in Nat
<1>1. DayLength \in Nat
  BY DEF Docs!DocumentsAssumption
<1>2. /\ day - a \in Nat /\ day - b \in Nat /\ b - a \in Nat
      /\ day - a = (day - b) + (b - a)
  OBVIOUS
<1>3. ASSUME NEW m \in Nat, NEW n \in Nat
      PROVE  /\ (m + n) * DayLength = m * DayLength + n * DayLength
             /\ m * DayLength \in Nat /\ n * DayLength \in Nat
  BY <1>1
<1>4. (day - a) * DayLength = (day - b) * DayLength + (b - a) * DayLength
  BY <1>2, <1>3
<1> QED
  BY <1>2, <1>3, <1>4 DEF Docs!Age

\* The invariant gives what is promised of the evidence.
LEMMA DocsInvImplies ==
  ASSUME Docs!DocumentsAssumption, Docs!RulesAreStrict, DocsInv
  PROVE  Docs!EvidenceStands
<1>1. ASSUME NEW c \in Controls, Docs!Satisfied(c)
      PROVE  acted[c] # None /\ Docs!Age(acted[c]) <= 365
  <2>1. Docs!SignedOff(c) \/ \E h \in Docs!Bearing(c) : Docs!Qualifies(c, h)
    BY <1>1 DEF Docs!Satisfied, Docs!Evaluate
  <2>2. day \in Nat /\ None \notin Nat
    BY DEF DocsInv, RecordsOK, Docs!DocumentsAssumption
  <2>3. CASE Docs!SignedOff(c)
    <3>1. /\ acted[c] \in Nat /\ acted[c] <= day /\ att[c].at \in Nat /\ att[c].at <= acted[c]
      BY <2>3 DEF DocsInv, VouchInv, Docs!SignedOff
    <3>2. Docs!Age(att[c].at) <= Docs!Rule(c, None).age /\ Docs!Rule(c, None).age \in 0..365
      BY <2>3 DEF Docs!SignedOff, Docs!RulesAreStrict
    <3>3. Docs!Age(acted[c]) <= Docs!Age(att[c].at) /\ Docs!Age(att[c].at) \in Nat
      BY <2>2, <3>1, LaterIsYounger
    <3>4. Docs!Age(acted[c]) \in Nat
      BY <2>2, <3>1, LaterIsYounger
    <3> QED
      BY <2>2, <3>1, <3>2, <3>3, <3>4
  <2>4. ASSUME NEW h \in Docs!Bearing(c), Docs!Qualifies(c, h)
        PROVE  acted[c] # None /\ Docs!Age(acted[c]) <= 365
    <3>1. h \in hits /\ h.concept \in DOMAIN Maps /\ h.at \in Nat
      BY DEF Docs!Bearing, DocsInv, RecordsOK
    <3>2. Docs!Rule(c, h.concept).confirmation /\ Docs!Rule(c, h.concept).age \in 0..365
      BY <3>1 DEF Docs!RulesAreStrict
    <3>3. h.confirmed /\ Docs!Age(h.at) <= Docs!Rule(c, h.concept).age
      BY <2>4, <3>2 DEF Docs!Qualifies
    <3>4. acted[c] \in Nat /\ acted[c] <= day /\ h.at <= acted[c]
      BY <3>1, <3>3 DEF DocsInv, VouchInv
    <3>5. Docs!Age(acted[c]) <= Docs!Age(h.at) /\ Docs!Age(h.at) \in Nat
      BY <2>2, <3>1, <3>4, LaterIsYounger
    <3>6. Docs!Age(acted[c]) \in Nat
      BY <2>2, <3>4, LaterIsYounger
    <3> QED
      BY <2>2, <3>2, <3>3, <3>4, <3>5, <3>6
  <2> QED
    BY <2>1, <2>3, <2>4
<1>2. ASSUME NEW c \in Controls
      PROVE  Docs!Resolve(c) = "compliant" <=>
               \/ Docs!Satisfied(c)
               \/ Docs!Bearing(c) = {} /\ att[c] # None /\ att[c].status = "compliant"
  <2>h. Docs!HitsFor(c) = Docs!Bearing(c)
    <3>1. Strategies[c] = {k \in DOMAIN Maps : \E i \in DOMAIN Maps[k] : Maps[k][i] = c}
      BY DEF Docs!DocumentsAssumption, Docs!StrategiesFollowTheLexicon
    <3>2. \A h \in hits : h.concept \in DOMAIN Maps
      BY DEF DocsInv, RecordsOK
    <3> QED
      BY <3>1, <3>2 DEF Docs!HitsFor, Docs!Bearing
  <2>1. CASE Docs!Bearing(c) # {}
    BY <2>h, <2>1 DEF Docs!Resolve, Docs!Satisfied
  <2>2. CASE Docs!Bearing(c) = {}
    BY <2>h, <2>2 DEF Docs!Resolve, Docs!Satisfied, Docs!Evaluate, Docs!SignedOff
  <2> QED
    BY <2>1, <2>2
<1> QED
  BY <1>1, <1>2 DEF DocsInv, Docs!EvidenceStands, Docs!VouchedWithinTheYear, Docs!OneAnswer

\* What is said to be met, a person vouched for within the year; evidence is
\* of a document on file and of one reading of it, unless two requests rewrote
\* that document at a time; resolver and policy tell the same (evidence_graph.py,
\* attestation.py, evidence_policy.py): for any texts, answers, lexicon and
\* requests, under rules that ask for confirmation and renewal.
THEOREM EvidenceHolds ==
  ASSUME Docs!DocumentsAssumption, Docs!RulesAreStrict
  PROVE  Docs!Spec => []EvidenceStands
<1>1. Docs!Init => DocsInv
  BY DocsBegin
<1>2. DocsInv /\ [Docs!Next]_(Docs!vars) => DocsInv'
  BY DocsKept
<1>3. DocsInv => EvidenceStands
  BY DocsInvImplies DEF EvidenceStands
<1> QED
  BY <1>1, <1>2, <1>3, PTL DEF Docs!Spec

-----------------------------------------------------------------------------
(* MerkleLog: a root binds the leaves it is made of, and each leaf of the  *)
(* tree has a proof, which proves nothing else, for any number of leaves.  *)

\* A sequence, of whatever there may be in it.
IsSequence(s) == Len(s) \in Nat /\ s = [i \in 1..Len(s) |-> s[i]]

LEMMA ASequence ==
  ASSUME NEW n \in Nat, NEW f, f = [i \in 1..n |-> f[i]]
  PROVE  IsSequence(f) /\ Len(f) = n
<1>1. f \in Seq({f[i] : i \in 1..n})
  <2> DEFINE S == {f[i] : i \in 1..n}
  <2>1. \A i \in 1..n : f[i] \in S
    OBVIOUS
  <2> HIDE DEF S
  <2>2. f \in [1..n -> S]
    BY <2>1
  <2> QED
    BY <2>2 DEF S
<1>2. DOMAIN f = 1..n
  OBVIOUS
<1>3. Len(f) = n
  BY <1>1, <1>2
<1> QED
  BY <1>3 DEF IsSequence

LEMMA Appended ==
  ASSUME NEW s, IsSequence(s), NEW x
  PROVE  /\ IsSequence(Append(s, x)) /\ Len(Append(s, x)) = Len(s) + 1
         /\ Append(s, x)[Len(s) + 1] = x
         /\ \A i \in 1..Len(s) : Append(s, x)[i] = s[i]
<1> DEFINE S == {s[i] : i \in 1..Len(s)} \cup {x}
<1>1. s \in Seq(S)
  <2>1. \A i \in 1..Len(s) : s[i] \in S
    OBVIOUS
  <2> HIDE DEF S
  <2>2. s \in [1..Len(s) -> S] /\ Len(s) \in Nat
    BY <2>1 DEF IsSequence
  <2> QED
    BY <2>2
<1>2. x \in S
  OBVIOUS
<1> HIDE DEF S
<1> DEFINE more == Append(s, x)
<1>3. /\ more \in Seq(S) /\ Len(more) = Len(s) + 1 /\ more[Len(s) + 1] = x
      /\ \A i \in 1..Len(s) : more[i] = s[i]
  BY <1>1, <1>2
<1> HIDE DEF more
<1>4. IsSequence(more)
  BY <1>3 DEF IsSequence
<1> QED
  BY <1>3, <1>4 DEF more

-----------------------------------------------------------------------------
(* The levels.                                                              *)

Hashes(given) == [i \in 1..Len(given) |-> Tree!Leaf(given[i])]

Grows(g, given, n) ==
  g = [m \in 0..n |-> IF m = 0 THEN <<Hashes(given)>> ELSE Tree!Grown(g[m - 1])]

LEMMA LevelsUnfold ==
  ASSUME NEW given, IsSequence(given)
  PROVE  \E g : Grows(g, given, Len(given)) /\ Tree!Levels(given) = g[Len(given)]
<1> DEFINE Bad == {n \in Nat : ~ \E g : Grows(g, given, n)}
<1>1. ASSUME NEW n \in Bad, \A m \in Bad : n <= m
      PROVE  FALSE
  <2>1. CASE n = 0
    <3> DEFINE g == [m \in 0..n |-> <<Hashes(given)>>]
    <3>1. \A m \in 0..n : m = 0
      BY <2>1
    <3>2. Grows(g, given, n)
      BY <3>1 DEF Grows
    <3> QED
      BY <3>2
  <2>2. CASE n # 0
    <3>1. n - 1 \in Nat /\ n - 1 \notin Bad
      BY <1>1, <2>2
    <3>2. PICK g : Grows(g, given, n - 1)
      BY <3>1
    <3> DEFINE h == [m \in 0..n |-> IF m < n THEN g[m] ELSE Tree!Grown(g[n - 1])]
    <3>3. h[0] = <<Hashes(given)>>
      BY <2>2, <3>2 DEF Grows
    <3>4. ASSUME NEW m \in 0..n, m # 0 PROVE h[m] = Tree!Grown(h[m - 1])
      <4>1. m - 1 \in 0..n - 1 /\ h[m - 1] = g[m - 1]
        BY <3>4
      <4>2. CASE m < n
        <5>1. m \in 0..n - 1 /\ h[m] = g[m]
          BY <3>4, <4>2
        <5>2. g[m] = Tree!Grown(g[m - 1])
          BY <3>2, <3>4, <5>1 DEF Grows
        <5> QED
          BY <4>1, <5>1, <5>2
      <4>3. CASE m = n
        BY <4>1, <4>3
      <4> QED
        BY <4>2, <4>3
    <3>5. h = [m \in 0..n |-> h[m]]
      OBVIOUS
    <3> HIDE DEF h
    <3>6. Grows(h, given, n)
      BY <3>3, <3>4, <3>5 DEF Grows
    <3> QED
      BY <3>6
  <2> QED
    BY <2>1, <2>2
<1>2. Bad = {}
  <2>1. Bad \subseteq Nat
    OBVIOUS
  <2> HIDE DEF Bad
  <2> QED
    BY <1>1, <2>1, LeastNumber
<1>3. \E g : Grows(g, given, Len(given))
  BY <1>2 DEF IsSequence
<1>4. Tree!Levels(given) = (CHOOSE g : Grows(g, given, Len(given)))[Len(given)]
  BY DEF Tree!Levels, Grows, Hashes
<1> QED
  BY <1>3, <1>4

\* One level above another.
LEMMA AboveIs ==
  ASSUME NEW level, IsSequence(level)
  PROVE  /\ IsSequence(Tree!Above(level))
         /\ Len(Tree!Above(level)) = (Len(level) + 1) \div 2
         /\ \A i \in 1..((Len(level) + 1) \div 2) :
              Tree!Above(level)[i] = IF 2 * i <= Len(level)
                                     THEN Tree!Node(level[2 * i - 1], level[2 * i])
                                     ELSE level[2 * i - 1]
<1> DEFINE n == (Len(level) + 1) \div 2
           up == Tree!Above(level)
<1>1. n \in Nat
  BY DEF IsSequence
<1>2. up = [i \in 1..n |-> IF 2 * i <= Len(level)
                           THEN Tree!Node(level[2 * i - 1], level[2 * i]) ELSE level[2 * i - 1]]
  BY DEF Tree!Above
<1> HIDE DEF n
<1>3. up = [i \in 1..n |-> up[i]]
  BY <1>2
<1>4. IsSequence(up) /\ Len(up) = n
  <2> HIDE DEF up
  <2> QED
    BY <1>1, <1>3, ASequence
<1>5. \A i \in 1..n : up[i] = IF 2 * i <= Len(level)
                              THEN Tree!Node(level[2 * i - 1], level[2 * i]) ELSE level[2 * i - 1]
  BY <1>2
<1> QED
  BY <1>4, <1>5 DEF n

\* Levels that are one above another, begun with the given.
Stacked(levels, given) ==
  /\ IsSequence(levels) /\ Len(levels) >= 1
  /\ levels[1] = Hashes(given)
  /\ \A k \in 1..Len(levels) : IsSequence(levels[k])
  /\ \A k \in 2..Len(levels) : Len(levels[k - 1]) > 1 /\ levels[k] = Tree!Above(levels[k - 1])

Top(levels) == levels[Len(levels)]

LEMMA StackGrows ==
  ASSUME NEW given, NEW levels, Stacked(levels, given)
  PROVE  /\ Stacked(Tree!Grown(levels), given)
         /\ Len(Top(levels)) <= 1 => Tree!Grown(levels) = levels
         /\ Len(Top(levels)) > 1 =>
              /\ Len(Top(Tree!Grown(levels))) <= Len(Top(levels)) - 1
              /\ Len(Top(Tree!Grown(levels))) >= 1
<1> DEFINE n == Len(levels)
           top == levels[n]
<1>1. n \in Nat /\ n >= 1 /\ IsSequence(top) /\ Len(top) \in Nat
  BY DEF Stacked, IsSequence
<1>2. CASE Len(top) <= 1
  BY <1>1, <1>2 DEF Tree!Grown, Top
<1>3. CASE Len(top) > 1
  <2> DEFINE up == Tree!Above(top)
             more == Append(levels, up)
  <2>1. Tree!Grown(levels) = more
    BY <1>1, <1>3 DEF Tree!Grown
  <2>2. IsSequence(up) /\ Len(up) = (Len(top) + 1) \div 2
    BY <1>1, AboveIs
  <2> HIDE DEF up
  <2>3. /\ IsSequence(more) /\ Len(more) = n + 1 /\ more[n + 1] = up
        /\ \A k \in 1..n : more[k] = levels[k]
    BY Appended DEF Stacked
  <2> HIDE DEF more
  <2>4. Stacked(more, given)
    <3>1. more[1] = Hashes(given)
      BY <1>1, <2>3 DEF Stacked
    <3>2. ASSUME NEW k \in 1..n + 1 PROVE IsSequence(more[k])
      <4>1. CASE k = n + 1
        BY <2>2, <2>3, <4>1
      <4>2. CASE k # n + 1
        <5>1. k \in 1..n
          BY <1>1, <4>2
        <5> QED
          BY <2>3, <5>1 DEF Stacked
      <4> QED
        BY <4>1, <4>2
    <3>3. ASSUME NEW k \in 2..n + 1 PROVE Len(more[k - 1]) > 1 /\ more[k] = Tree!Above(more[k - 1])
      <4>1. k - 1 \in 1..n /\ more[k - 1] = levels[k - 1]
        BY <1>1, <2>3
      <4>2. CASE k = n + 1
        BY <1>1, <1>3, <2>3, <4>1, <4>2 DEF up
      <4>3. CASE k # n + 1
        <5>1. k \in 2..n /\ k \in 1..n
          BY <1>1, <4>3
        <5> QED
          BY <2>3, <4>1, <5>1 DEF Stacked
      <4> QED
        BY <4>2, <4>3
    <3> QED
      BY <1>1, <2>3, <3>1, <3>2, <3>3 DEF Stacked
  <2>5. Top(more) = up /\ Len(up) <= Len(top) - 1 /\ Len(up) >= 1
    <3>1. Top(more) = up
      BY <2>3 DEF Top
    <3> DEFINE m == Len(top)
    <3>2. m \in Nat /\ m > 1 /\ Len(up) = (m + 1) \div 2
      BY <1>1, <1>3, <2>2
    <3> HIDE DEF m
    <3>3. (m + 1) \div 2 <= m - 1 /\ (m + 1) \div 2 >= 1
      BY <3>2
    <3>4. Len(up) <= m - 1 /\ Len(up) >= 1
      BY <3>2, <3>3
    <3> QED
      BY <3>1, <3>4 DEF m
  <2> QED
    BY <1>3, <2>1, <2>4, <2>5 DEF Top
<1> QED
  BY <1>1, <1>2, <1>3

\* The levels of a tree are stacked and end with the root alone.
LEMMA LevelsAre ==
  ASSUME NEW given, IsSequence(given)
  PROVE  /\ Stacked(Tree!Levels(given), given)
         /\ Len(Top(Tree!Levels(given))) <= 1
         /\ given # <<>> => Len(Top(Tree!Levels(given))) = 1
<1> DEFINE N == Len(given)
<1>1. PICK g : Grows(g, given, N) /\ Tree!Levels(given) = g[N]
  BY LevelsUnfold
<1> DEFINE Good(n) == /\ Stacked(g[n], given)
                      /\ Len(Top(g[n])) <= 1 \/ Len(Top(g[n])) + n <= N
                      /\ N > 0 => Len(Top(g[n])) >= 1
           Bad == {n \in 0..N : ~ Good(n)}
<1>0. N \in Nat
  BY DEF IsSequence
<1>2. ASSUME NEW n \in Bad, \A m \in Bad : n <= m
      PROVE  FALSE
  <2>1. CASE n = 0
    <3>1. g[0] = <<Hashes(given)>>
      BY <1>0, <1>1 DEF Grows
    <3>2. IsSequence(Hashes(given)) /\ Len(Hashes(given)) = N
      <4>1. Hashes(given) = [i \in 1..N |-> Hashes(given)[i]]
        BY DEF Hashes
      <4> QED
        BY <1>0, <4>1, ASequence
    <3> DEFINE one == <<Hashes(given)>>
    <3>3. one = [i \in 1..1 |-> one[i]] /\ one[1] = Hashes(given)
      OBVIOUS
    <3> HIDE DEF one
    <3>4. IsSequence(one) /\ Len(one) = 1
      BY <3>3, ASequence
    <3>5. \A k \in 1..1 : k = 1
      OBVIOUS
    <3>6. Stacked(one, given) /\ Top(one) = Hashes(given)
      BY <3>2, <3>3, <3>4, <3>5 DEF Stacked, Top
    <3> QED
      BY <1>0, <2>1, <3>1, <3>2, <3>6 DEF one
  <2>2. CASE n # 0
    <3>1. n - 1 \in 0..N /\ n - 1 \notin Bad
      BY <1>0, <1>2, <2>2
    <3>2. g[n] = Tree!Grown(g[n - 1])
      BY <1>1, <2>2 DEF Grows
    <3> DEFINE s == g[n - 1]
    <3>3. /\ Stacked(s, given)
          /\ Len(Top(s)) <= 1 \/ Len(Top(s)) + (n - 1) <= N
          /\ N > 0 => Len(Top(s)) >= 1
      BY <3>1
    <3>4. Len(Top(s)) \in Nat
      BY <3>3 DEF Stacked, IsSequence, Top
    <3>5. g[n] = Tree!Grown(s)
      BY <3>2
    <3> HIDE DEF s
    <3>6. /\ Stacked(g[n], given)
          /\ Len(Top(s)) <= 1 => g[n] = s
          /\ Len(Top(s)) > 1 => Len(Top(g[n])) <= Len(Top(s)) - 1 /\ Len(Top(g[n])) >= 1
      BY <3>3, <3>5, StackGrows
    <3>7. Len(Top(g[n])) \in Nat
      BY <3>6 DEF Stacked, IsSequence, Top
    <3>8. Good(n)
      BY <1>0, <2>2, <3>3, <3>4, <3>6, <3>7
    <3> QED
      BY <3>8
  <2> QED
    BY <2>1, <2>2
<1>3. Bad = {}
  <2>1. Bad \subseteq Nat
    BY <1>0
  <2> HIDE DEF Bad
  <2> QED
    BY <1>2, <2>1, LeastNumber
<1>4. Good(N)
  BY <1>0, <1>3
<1>5. Len(Top(g[N])) \in Nat
  BY <1>4 DEF Stacked, IsSequence, Top
<1>6. given # <<>> => N > 0
  <2> SUFFICES ASSUME N = 0 PROVE given = <<>>
    BY <1>0
  <2>1. given = [i \in 1..0 |-> given[i]]
    BY DEF IsSequence
  <2> QED
    BY <2>1
<1>7. /\ Stacked(g[N], given) /\ Len(Top(g[N])) <= 1
      /\ N > 0 => Len(Top(g[N])) = 1
  <2> DEFINE s == g[N]
             m == Len(Top(s))
  <2>1. /\ Stacked(s, given) /\ m \in Nat
        /\ m <= 1 \/ m + N <= N
        /\ N > 0 => m >= 1
    BY <1>4, <1>5
  <2> HIDE DEF s, m, N
  <2>2. m <= 1 /\ (N > 0 => m = 1)
    BY <1>0, <2>1
  <2> QED
    BY <2>1, <2>2 DEF s, m
<1> QED
  BY <1>1, <1>6, <1>7

-----------------------------------------------------------------------------
(* What a node is over: leaves in a row.                                    *)

\* How many of the leaves after the first lo up to hi are x.
Held(given, x, lo, hi) == Tree!Cardinality({i \in (lo + 1)..hi : given[i] = x})

LEMMA HeldIs ==
  ASSUME NEW given, NEW x, NEW lo \in Nat, NEW mid \in Nat, NEW hi \in Nat, lo <= mid, mid <= hi
  PROVE  /\ Held(given, x, lo, hi) \in Nat
         /\ Held(given, x, lo, hi) = Held(given, x, lo, mid) + Held(given, x, mid, hi)
<1> DEFINE some(a, b) == {i \in (a + 1)..b : given[i] = x}
<1>1. ASSUME NEW a \in Nat, NEW b \in Nat PROVE IsFiniteSet(some(a, b))
  <2>1. IsFiniteSet((a + 1)..b)
    <3> DEFINE c == a + 1
    <3>1. c \in Int /\ b \in Int
      OBVIOUS
    <3> HIDE DEF c
    <3>2. IsFiniteSet(c..b)
      BY <3>1, FS_Interval
    <3> QED
      BY <3>2 DEF c
  <2>2. some(a, b) \subseteq (a + 1)..b
    OBVIOUS
  <2> QED
    BY <2>1, <2>2, FS_Subset
<1>2. some(lo, hi) = some(lo, mid) \cup some(mid, hi)
  OBVIOUS
<1>3. some(lo, mid) \cap some(mid, hi) = {}
  OBVIOUS
<1>4. /\ IsFiniteSet(some(lo, mid)) /\ IsFiniteSet(some(mid, hi)) /\ IsFiniteSet(some(lo, hi))
  BY <1>1
<1> DEFINE A == some(lo, mid)
           B == some(mid, hi)
           C == some(lo, hi)
<1>5. C = A \cup B /\ A \cap B = {} /\ IsFiniteSet(A) /\ IsFiniteSet(B) /\ IsFiniteSet(C)
  BY <1>2, <1>3, <1>4
<1>6. /\ Held(given, x, lo, hi) = Cardinality(C)
      /\ Held(given, x, lo, mid) = Cardinality(A) /\ Held(given, x, mid, hi) = Cardinality(B)
  BY DEF Held, Tree!Cardinality, Cardinality
<1> HIDE DEF A, B, C
<1>7. Cardinality(C) \in Nat /\ Cardinality(A) \in Nat /\ Cardinality(B) \in Nat
  BY <1>5, FS_CardinalityType
<1>8. Cardinality(A \cap B) = 0
  BY <1>5, FS_EmptySet
<1>9. Cardinality(C) = Cardinality(A) + Cardinality(B)
  <2>1. Cardinality(A \cup B) = Cardinality(A) + Cardinality(B) - Cardinality(A \cap B)
    BY <1>5, FS_Union, Zenon
  <2>2. Cardinality(C) = Cardinality(A) + Cardinality(B) - 0
    BY <1>5, <1>8, <2>1
  <2> QED
    BY <1>7, <2>2
<1> QED
  BY <1>6, <1>7, <1>9

LEMMA OneHeld ==
  ASSUME NEW given, NEW x, NEW i \in Nat, i > 0
  PROVE  Held(given, x, i - 1, i) = IF given[i] = x THEN 1 ELSE 0
<1> DEFINE one == {j \in ((i - 1) + 1)..i : given[j] = x}
<1>1. one = IF given[i] = x THEN {i} ELSE {}
  OBVIOUS
<1>2. Held(given, x, i - 1, i) = Cardinality(one)
  BY DEF Held, Tree!Cardinality, Cardinality
<1>3. Cardinality({i}) = 1 /\ Cardinality({}) = 0
  BY FS_Singleton, FS_EmptySet
<1> HIDE DEF one
<1> QED
  BY <1>1, <1>2, <1>3

\* Where the leaves of each node of the next level end, by where those of
\* the level below do.
Ends(below, under, level) ==
  [i \in 0..Len(level) |-> below[IF 2 * i <= Len(under) THEN 2 * i ELSE Len(under)]]

Spans(b, levels, n) ==
  b = [k \in 1..n |-> IF k = 1 THEN [i \in 0..Len(levels[1]) |-> i]
                      ELSE Ends(b[k - 1], levels[k - 1], levels[k])]

LEMMA SpansAre ==
  ASSUME NEW levels, NEW n \in Nat
  PROVE  \E b : Spans(b, levels, n)
<1> DEFINE Bad == {m \in Nat : ~ \E b : Spans(b, levels, m)}
<1>1. ASSUME NEW m \in Bad, \A l \in Bad : m <= l
      PROVE  FALSE
  <2>1. CASE m = 0
    <3> DEFINE b == [k \in 1..m |-> 0]
    <3>1. \A k \in 1..m : FALSE
      BY <2>1
    <3>2. Spans(b, levels, m)
      BY <3>1 DEF Spans
    <3> QED
      BY <3>2
  <2>2. CASE m # 0
    <3>1. m - 1 \in Nat /\ m - 1 \notin Bad
      BY <1>1, <2>2
    <3>2. PICK b : Spans(b, levels, m - 1)
      BY <3>1
    <3> DEFINE first == [i \in 0..Len(levels[1]) |-> i]
               h == [k \in 1..m |-> IF k < m THEN b[k]
                                    ELSE IF k = 1 THEN first
                                    ELSE Ends(b[k - 1], levels[k - 1], levels[k])]
    <3>3. ASSUME NEW k \in 1..m
          PROVE  h[k] = IF k = 1 THEN first ELSE Ends(h[k - 1], levels[k - 1], levels[k])
      <4> HIDE DEF first
      <4>1. k # 1 => k - 1 \in 1..m - 1 /\ h[k - 1] = b[k - 1]
        BY <3>3
      <4>2. CASE k < m
        <5>1. k \in 1..m - 1 /\ h[k] = b[k]
          BY <3>3, <4>2
        <5>2. b[k] = IF k = 1 THEN first ELSE Ends(b[k - 1], levels[k - 1], levels[k])
          BY <3>2, <5>1 DEF Spans, first
        <5> HIDE DEF h
        <5> QED
          BY <4>1, <5>1, <5>2
      <4>3. CASE k = m
        <5>1. h[k] = IF k = 1 THEN first ELSE Ends(b[k - 1], levels[k - 1], levels[k])
          BY <4>3
        <5> HIDE DEF h
        <5> QED
          BY <4>1, <5>1
      <4> QED
        BY <4>2, <4>3
    <3>4. h = [k \in 1..m |-> h[k]]
      OBVIOUS
    <3> HIDE DEF h
    <3>5. Spans(h, levels, m)
      BY <3>3, <3>4 DEF Spans
    <3> QED
      BY <3>5
  <2> QED
    BY <2>1, <2>2
<1>2. Bad = {}
  <2>1. Bad \subseteq Nat
    OBVIOUS
  <2> HIDE DEF Bad
  <2> QED
    BY <1>1, <2>1, LeastNumber
<1> QED
  BY <1>2

\* The leaves of the nodes of a level are all leaves, in order.
InOrder(ends, n, most) ==
  /\ ends[0] = 0 /\ ends[n] = most
  /\ \A i \in 0..n : ends[i] \in Nat
  /\ \A i, j \in 0..n : i <= j => ends[i] <= ends[j]

LEMMA EndsInOrder ==
  ASSUME NEW below, NEW under, NEW level, NEW most \in Nat,
         Len(under) \in Nat, Len(under) > 1, Len(level) = (Len(under) + 1) \div 2,
         InOrder(below, Len(under), most)
  PROVE  InOrder(Ends(below, under, level), Len(level), most)
<1> DEFINE m == Len(under)
           n == Len(level)
           to(i) == IF 2 * i <= m THEN 2 * i ELSE m
           ends == Ends(below, under, level)
<1>1. m \in Nat /\ m > 1 /\ n = (m + 1) \div 2 /\ InOrder(below, m, most)
  OBVIOUS
<1>2. \A i \in 0..n : ends[i] = below[to(i)]
  BY DEF Ends
<1> HIDE DEF m, n, ends
<1>3. n \in Nat /\ \A i \in 0..n : to(i) \in 0..m
  BY <1>1
<1>4. to(0) = 0 /\ to(n) = m
  BY <1>1
<1>5. \A i, j \in 0..n : i <= j => to(i) <= to(j)
  BY <1>1, <1>3
<1> HIDE DEF to
<1>6. 0 \in 0..n /\ n \in 0..n
  BY <1>3
<1>7. ends[0] = 0 /\ ends[n] = most
  BY <1>1, <1>2, <1>4, <1>6 DEF InOrder
<1>8. \A i \in 0..n : ends[i] \in Nat
  BY <1>1, <1>2, <1>3 DEF InOrder
<1>9. \A i, j \in 0..n : i <= j => ends[i] <= ends[j]
  BY <1>1, <1>2, <1>3, <1>5 DEF InOrder
<1> QED
  BY <1>7, <1>8, <1>9 DEF InOrder, ends, n

\* A tree: its leaves, its levels, and where the leaves of its nodes end.
Planted(given, levels, b) ==
  /\ IsSequence(given) /\ Stacked(levels, given)
  /\ Spans(b, levels, Len(levels))
  /\ \A k \in 1..Len(levels) : InOrder(b[k], Len(levels[k]), Len(given))

LEMMA TreesArePlanted ==
  ASSUME NEW given, IsSequence(given), NEW levels, Stacked(levels, given)
  PROVE  \E b : Planted(given, levels, b)
<1> DEFINE N == Len(given)
           K == Len(levels)
<1>1. /\ N \in Nat /\ K \in Nat /\ K >= 1
      /\ levels[1] = Hashes(given)
      /\ \A k \in 1..K : IsSequence(levels[k]) /\ Len(levels[k]) \in Nat
      /\ \A k \in 2..K : Len(levels[k - 1]) > 1 /\ levels[k] = Tree!Above(levels[k - 1])
  BY DEF Stacked, IsSequence
<1>2. PICK b : Spans(b, levels, K)
  BY <1>1, SpansAre
<1>3. Len(levels[1]) = N
  <2>1. Hashes(given) = [i \in 1..N |-> Hashes(given)[i]]
    BY DEF Hashes
  <2> QED
    BY <1>1, <2>1, ASequence
<1> DEFINE Good(k) == InOrder(b[k], Len(levels[k]), N)
           Bad == {k \in 1..K : ~ Good(k)}
<1>4. ASSUME NEW k \in Bad, \A l \in Bad : k <= l
      PROVE  FALSE
  <2>1. CASE k = 1
    <3> DEFINE first == [i \in 0..N |-> i]
    <3>1. b[1] = first
      BY <1>1, <1>2, <1>3 DEF Spans
    <3>2. InOrder(first, N, N)
      BY <1>1 DEF InOrder
    <3> QED
      BY <1>3, <2>1, <3>1, <3>2
  <2>2. CASE k # 1
    <3>1. k - 1 \in 1..K /\ k \in 2..K /\ k - 1 \notin Bad
      BY <1>1, <1>4, <2>2
    <3>2. b[k] = Ends(b[k - 1], levels[k - 1], levels[k])
      BY <1>2, <2>2 DEF Spans
    <3>3. Len(levels[k]) = (Len(levels[k - 1]) + 1) \div 2
      BY <1>1, <3>1, AboveIs
    <3>4. Good(k - 1)
      BY <3>1
    <3> DEFINE below == b[k - 1]
               under == levels[k - 1]
               level == levels[k]
    <3>5. /\ Len(under) \in Nat /\ Len(under) > 1 /\ N \in Nat
          /\ Len(level) = (Len(under) + 1) \div 2 /\ InOrder(below, Len(under), N)
      BY <1>1, <3>1, <3>3, <3>4
    <3>6. b[k] = Ends(below, under, level)
      BY <3>2
    <3>7. Good(k) <=> InOrder(b[k], Len(level), N)
      OBVIOUS
    <3> HIDE DEF below, under, level, N, Good
    <3>8. InOrder(Ends(below, under, level), Len(level), N)
      BY <3>5, EndsInOrder
    <3>9. Good(k)
      BY <3>6, <3>7, <3>8
    <3> QED
      BY <1>4, <3>9
  <2> QED
    BY <2>1, <2>2
<1>5. Bad = {}
  <2>1. Bad \subseteq Nat
    OBVIOUS
  <2> HIDE DEF Bad
  <2> QED
    BY <1>4, <2>1, LeastNumber
<1>6. \A k \in 1..K : Good(k)
  BY <1>5
<1> QED
  BY <1>2, <1>6 DEF Planted

\* How many of the leaves of a node are x.
Weight(given, b, x, k, i) == Held(given, x, b[k][i - 1], b[k][i])

\* A node is a leaf's hash, the hash of two nodes below, or one of them that
\* was promoted; its leaves are theirs.
NodeFrom(given, levels, b, x, k, i) ==
  /\ Weight(given, b, x, k, i) \in Nat
  /\ \/ /\ levels[k][i] = Tree!Leaf(given[i])
        /\ Weight(given, b, x, k, i) = IF given[i] = x THEN 1 ELSE 0
     \/ /\ k - 1 \in 1..Len(levels)
        /\ \E j \in 1..Len(levels[k - 1]) :
             /\ j + 1 \in 1..Len(levels[k - 1])
             /\ levels[k][i] = Tree!Node(levels[k - 1][j], levels[k - 1][j + 1])
             /\ Weight(given, b, x, k, i) =
                  Weight(given, b, x, k - 1, j) + Weight(given, b, x, k - 1, j + 1)
     \/ /\ k - 1 \in 1..Len(levels)
        /\ \E j \in 1..Len(levels[k - 1]) :
             /\ levels[k][i] = levels[k - 1][j]
             /\ Weight(given, b, x, k, i) = Weight(given, b, x, k - 1, j)

LEMMA NodeIs ==
  ASSUME NEW given, NEW levels, NEW b, Planted(given, levels, b), NEW x,
         NEW k \in 1..Len(levels), NEW i \in 1..Len(levels[k])
  PROVE  NodeFrom(given, levels, b, x, k, i)
<1>1. /\ Len(levels) \in Nat /\ levels[1] = Hashes(given)
      /\ \A l \in 1..Len(levels) : IsSequence(levels[l]) /\ Len(levels[l]) \in Nat
      /\ \A l \in 2..Len(levels) : Len(levels[l - 1]) > 1 /\ levels[l] = Tree!Above(levels[l - 1])
  BY DEF Planted, Stacked, IsSequence
<1>2. ASSUME NEW l \in 1..Len(levels)
      PROVE  /\ \A j \in 0..Len(levels[l]) : b[l][j] \in Nat
             /\ \A i1, i2 \in 0..Len(levels[l]) : i1 <= i2 => b[l][i1] <= b[l][i2]
  BY DEF Planted, InOrder
<1>3. Len(given) \in Nat
  BY DEF Planted, IsSequence
<1>4. Weight(given, b, x, k, i) \in Nat
  <2> DEFINE lo == b[k][i - 1]
             hi == b[k][i]
  <2>1. i - 1 \in 0..Len(levels[k]) /\ i \in 0..Len(levels[k]) /\ i - 1 <= i
    BY <1>1
  <2>2. lo \in Nat /\ hi \in Nat /\ lo <= lo /\ lo <= hi
    BY <1>2, <2>1
  <2> HIDE DEF lo, hi
  <2>3. Held(given, x, lo, hi) \in Nat
    BY <2>2, HeldIs
  <2> QED
    BY <2>3 DEF Weight, lo, hi
<1>5. CASE k = 1
  <2>1. Len(levels[1]) = Len(given)
    <3>1. Hashes(given) = [j \in 1..Len(given) |-> Hashes(given)[j]]
      BY DEF Hashes
    <3> QED
      BY <1>1, <1>3, <3>1, ASequence
  <2>2. levels[k][i] = Tree!Leaf(given[i])
    BY <1>1, <1>5, <2>1 DEF Hashes
  <2>3. b[1] = [j \in 0..Len(levels[1]) |-> j]
    BY <1>5 DEF Planted, Spans
  <2>4. b[k][i - 1] = i - 1 /\ b[k][i] = i /\ i \in Nat /\ i > 0
    BY <1>1, <1>5, <2>3
  <2>5. Weight(given, b, x, k, i) = IF given[i] = x THEN 1 ELSE 0
    BY <2>4, OneHeld DEF Weight
  <2> QED
    BY <1>4, <2>2, <2>5 DEF NodeFrom
<1>6. CASE k # 1
  <2> DEFINE under == levels[k - 1]
             level == levels[k]
             m == Len(under)
  <2>1. k \in 2..Len(levels) /\ k - 1 \in 1..Len(levels)
    BY <1>1, <1>6
  <2>2. /\ IsSequence(under) /\ m \in Nat /\ m > 1 /\ level = Tree!Above(under)
    BY <1>1, <2>1
  <2>3. /\ Len(level) = (m + 1) \div 2
        /\ \A j \in 1..((m + 1) \div 2) :
             level[j] = IF 2 * j <= m THEN Tree!Node(under[2 * j - 1], under[2 * j])
                        ELSE under[2 * j - 1]
    BY <2>2, AboveIs
  <2>4. b[k] = Ends(b[k - 1], under, level)
    BY <1>6, <2>1 DEF Planted, Spans
  <2> DEFINE below == b[k - 1]
             ends == b[k]
  <2>5. \A j \in 0..Len(level) : ends[j] = below[IF 2 * j <= m THEN 2 * j ELSE m]
    BY <2>4 DEF Ends
  <2>6. /\ \A j \in 0..m : below[j] \in Nat
        /\ \A i1, i2 \in 0..m : i1 <= i2 => below[i1] <= below[i2]
    BY <1>2, <2>1
  <2>7. i \in 1..Len(level)
    OBVIOUS
  <2>8. /\ Weight(given, b, x, k, i) = Held(given, x, ends[i - 1], ends[i])
        /\ \A j : Weight(given, b, x, k - 1, j) = Held(given, x, below[j - 1], below[j])
    BY DEF Weight
  <2>9. levels[k][i] = level[i] /\ \A j : levels[k - 1][j] = under[j]
    OBVIOUS
  <2>10. Len(levels[k - 1]) = m
    OBVIOUS
  <2> HIDE DEF under, level, m, below, ends
  <2>11. i - 1 \in 0..Len(level) /\ i \in 0..Len(level) /\ i \in 1..((m + 1) \div 2)
    BY <2>2, <2>3, <2>7
  <2>12. CASE 2 * i <= m
    <3> DEFINE j == 2 * i - 1
    <3>1. j \in 1..m /\ j + 1 \in 1..m /\ j - 1 \in 0..m /\ j \in 0..m /\ j + 1 \in 0..m
      BY <2>2, <2>11, <2>12
    <3>2. level[i] = Tree!Node(under[j], under[j + 1])
      BY <2>2, <2>3, <2>11, <2>12
    <3>3. ends[i - 1] = below[j - 1] /\ ends[i] = below[j + 1]
      <4>1. 2 * (i - 1) <= m /\ 2 * (i - 1) = j - 1 /\ 2 * i = j + 1
        BY <2>2, <2>11, <2>12
      <4> HIDE DEF j
      <4> QED
        BY <2>5, <2>11, <2>12, <4>1
    <3> DEFINE lo == below[j - 1]
               mid == below[j]
               hi == below[j + 1]
    <3>4. lo \in Nat /\ mid \in Nat /\ hi \in Nat /\ lo <= mid /\ mid <= hi
      <4>1. j \in Int
        BY <3>1
      <4> HIDE DEF j
      <4>2. j - 1 <= j /\ j <= j + 1
        BY <4>1
      <4> QED
        BY <2>6, <3>1, <4>2
    <3>5. (j + 1) - 1 = j
      BY <3>1
    <3>6. Weight(given, b, x, k - 1, j) = Held(given, x, lo, mid)
      BY <2>8
    <3>7. Weight(given, b, x, k - 1, j + 1) = Held(given, x, mid, hi)
      BY <2>8, <3>5
    <3>8. Weight(given, b, x, k, i) = Held(given, x, lo, hi)
      BY <2>8, <3>3
    <3> HIDE DEF lo, mid, hi, j
    <3>9. Held(given, x, lo, hi) = Held(given, x, lo, mid) + Held(given, x, mid, hi)
      BY <3>4, HeldIs
    <3>10. Weight(given, b, x, k, i) = Weight(given, b, x, k - 1, j) + Weight(given, b, x, k - 1, j + 1)
      BY <3>6, <3>7, <3>8, <3>9
    <3> QED
      BY <1>4, <2>1, <2>9, <2>10, <3>1, <3>2, <3>10 DEF NodeFrom
  <2>13. CASE ~ (2 * i <= m)
    <3> DEFINE j == 2 * i - 1
    <3>1. j = m /\ j \in 1..m /\ 2 * (i - 1) = j - 1
      BY <2>2, <2>11, <2>13
    <3>2. level[i] = under[j]
      BY <2>2, <2>3, <2>11, <2>13
    <3>3. ends[i - 1] = below[j - 1] /\ ends[i] = below[j]
      <4> HIDE DEF j
      <4>1. 2 * (i - 1) <= m
        BY <2>2, <3>1
      <4> QED
        BY <2>5, <2>11, <2>13, <3>1, <4>1
    <3> HIDE DEF j
    <3>4. Weight(given, b, x, k, i) = Weight(given, b, x, k - 1, j)
      BY <2>8, <3>3
    <3> QED
      BY <1>4, <2>1, <2>9, <2>10, <3>1, <3>2, <3>4 DEF NodeFrom
  <2> QED
    BY <2>12, <2>13
<1> QED
  BY <1>5, <1>6

\* Equal hashes are hashes of equal things.
LEMMA HashesAreApart ==
  /\ \A x, y : Tree!Leaf(x) = Tree!Leaf(y) => x = y
  /\ \A x, y, z : Tree!Leaf(x) # Tree!Node(y, z)
  /\ \A x : Tree!Leaf(x) # Tree!EmptyRoot
  /\ \A x, y : Tree!Node(x, y) # Tree!EmptyRoot
  /\ \A x, y, z, w : Tree!Node(x, y) = Tree!Node(z, w) => (x = z /\ y = w) \/ (x = w /\ y = z)
<1>1. ASSUME NEW x, NEW y, Tree!Leaf(x) = Tree!Leaf(y) PROVE x = y
  <2>1. Tree!Leaf(x)[2] = x /\ Tree!Leaf(y)[2] = y
    BY DEF Tree!Leaf
  <2> QED
    BY <1>1, <2>1, Zenon
<1>2. ASSUME NEW x, NEW y, NEW z PROVE Tree!Leaf(x) # Tree!Node(y, z)
  <2>1. Tree!Leaf(x)[1] = 0 /\ Tree!Node(y, z)[1] = 1
    BY DEF Tree!Leaf, Tree!Node
  <2> QED
    BY <2>1
<1>3. ASSUME NEW x PROVE Tree!Leaf(x) # Tree!EmptyRoot
  <2>1. Tree!Leaf(x)[1] = 0 /\ Tree!EmptyRoot[1] = 2
    BY DEF Tree!Leaf, Tree!EmptyRoot
  <2> QED
    BY <2>1
<1>4. ASSUME NEW x, NEW y PROVE Tree!Node(x, y) # Tree!EmptyRoot
  <2>1. Tree!Node(x, y)[1] = 1 /\ Tree!EmptyRoot[1] = 2
    BY DEF Tree!Node, Tree!EmptyRoot
  <2> QED
    BY <2>1
<1>5. ASSUME NEW x, NEW y, NEW z, NEW w, Tree!Node(x, y) = Tree!Node(z, w)
      PROVE  (x = z /\ y = w) \/ (x = w /\ y = z)
  <2>1. Tree!Node(x, y)[2] = {x, y} /\ Tree!Node(z, w)[2] = {z, w}
    BY DEF Tree!Node
  <2>2. {x, y} = {z, w}
    BY <1>5, <2>1, Zenon
  <2> QED
    BY <2>2
<1> QED
  BY <1>1, <1>2, <1>3, <1>4, <1>5, Zenon

\* No tree has the root of the empty one.
LEMMA NodesAreNotEmpty ==
  ASSUME NEW given, NEW levels, NEW b, Planted(given, levels, b)
  PROVE  \A k \in 1..Len(levels) : \A i \in 1..Len(levels[k]) : levels[k][i] # Tree!EmptyRoot
<1> DEFINE Good(k) == \A i \in 1..Len(levels[k]) : levels[k][i] # Tree!EmptyRoot
           Bad == {k \in 1..Len(levels) : ~ Good(k)}
<1>1. ASSUME NEW k \in Bad, \A l \in Bad : k <= l
      PROVE  FALSE
  <2>1. PICK i \in 1..Len(levels[k]) : levels[k][i] = Tree!EmptyRoot
    OBVIOUS
  <2>2. \/ levels[k][i] = Tree!Leaf(given[i])
        \/ \E j : levels[k][i] = Tree!Node(levels[k - 1][j], levels[k - 1][j + 1])
        \/ /\ k - 1 \in 1..Len(levels)
           /\ \E j \in 1..Len(levels[k - 1]) : levels[k][i] = levels[k - 1][j]
    <3> DEFINE x == 0
    <3>1. k \in 1..Len(levels)
      OBVIOUS
    <3> HIDE DEF Bad, x
    <3>2. NodeFrom(given, levels, b, x, k, i)
      BY <3>1, NodeIs, Zenon
    <3> QED
      BY <3>2 DEF NodeFrom
  <2>3. k - 1 \in 1..Len(levels) => Good(k - 1)
    <3> SUFFICES ASSUME k - 1 \in 1..Len(levels), k - 1 \in Bad PROVE FALSE
      OBVIOUS
    <3>1. k <= k - 1 /\ k \in Int
      BY <1>1
    <3> QED
      BY <3>1
  <2> QED
    BY <2>1, <2>2, <2>3, HashesAreApart
<1>2. Bad = {}
  <2>1. Bad \subseteq Nat
    OBVIOUS
  <2> HIDE DEF Bad
  <2> QED
    BY <1>1, <2>1, LeastNumber
<1> QED
  BY <1>2

\* Equal nodes, of one tree or of two, are over as many leaves of a kind.
Agree(given, levels, b, other, stack, d, x, k, j) ==
  \A i \in 1..Len(levels[k]), m \in 1..Len(stack[j]) :
    levels[k][i] = stack[j][m] => Weight(given, b, x, k, i) = Weight(other, d, x, j, m)

LEMMA AgreeUp ==
  ASSUME NEW given, NEW levels, NEW b, Planted(given, levels, b),
         NEW other, NEW stack, NEW d, Planted(other, stack, d), NEW x,
         NEW k \in 1..Len(levels), NEW j \in 1..Len(stack),
         \A l \in 1..Len(levels), n \in 1..Len(stack) :
           l + n < k + j => Agree(given, levels, b, other, stack, d, x, l, n)
  PROVE  Agree(given, levels, b, other, stack, d, x, k, j)
<1> SUFFICES ASSUME NEW i \in 1..Len(levels[k]), NEW m \in 1..Len(stack[j]),
                    levels[k][i] = stack[j][m]
             PROVE  Weight(given, b, x, k, i) = Weight(other, d, x, j, m)
  BY DEF Agree
<1> DEFINE W(l, p) == Weight(given, b, x, l, p)
           V(l, p) == Weight(other, d, x, l, p)
<1>1. ASSUME k - 1 \in 1..Len(levels), NEW p \in 1..Len(levels[k - 1]),
             levels[k][i] = levels[k - 1][p], W(k, i) = W(k - 1, p)
      PROVE  W(k, i) = V(j, m)
  <2>1. (k - 1) + j < k + j
    OBVIOUS
  <2>2. Agree(given, levels, b, other, stack, d, x, k - 1, j)
    BY <1>1, <2>1
  <2> QED
    BY <1>1, <2>2 DEF Agree
<1>2. ASSUME j - 1 \in 1..Len(stack), NEW q \in 1..Len(stack[j - 1]),
             stack[j][m] = stack[j - 1][q], V(j, m) = V(j - 1, q)
      PROVE  W(k, i) = V(j, m)
  <2>1. k + (j - 1) < k + j
    OBVIOUS
  <2>2. Agree(given, levels, b, other, stack, d, x, k, j - 1)
    BY <1>2, <2>1
  <2> QED
    BY <1>2, <2>2 DEF Agree
<1>3. ASSUME k - 1 \in 1..Len(levels), NEW p \in 1..Len(levels[k - 1]), p + 1 \in 1..Len(levels[k - 1]),
             levels[k][i] = Tree!Node(levels[k - 1][p], levels[k - 1][p + 1]),
             W(k, i) = W(k - 1, p) + W(k - 1, p + 1),
             j - 1 \in 1..Len(stack), NEW q \in 1..Len(stack[j - 1]), q + 1 \in 1..Len(stack[j - 1]),
             stack[j][m] = Tree!Node(stack[j - 1][q], stack[j - 1][q + 1]),
             V(j, m) = V(j - 1, q) + V(j - 1, q + 1)
      PROVE  W(k, i) = V(j, m)
  <2>1. (k - 1) + (j - 1) < k + j
    OBVIOUS
  <2>2. Agree(given, levels, b, other, stack, d, x, k - 1, j - 1)
    BY <1>3, <2>1
  <2>3. /\ W(k - 1, p) \in Nat /\ W(k - 1, p + 1) \in Nat
        /\ V(j - 1, q) \in Nat /\ V(j - 1, q + 1) \in Nat
    <3>1. /\ NodeFrom(given, levels, b, x, k - 1, p) /\ NodeFrom(given, levels, b, x, k - 1, p + 1)
          /\ NodeFrom(other, stack, d, x, j - 1, q) /\ NodeFrom(other, stack, d, x, j - 1, q + 1)
      BY <1>3, NodeIs, Zenon
    <3> QED
      BY <3>1 DEF NodeFrom
  <2>4. CASE levels[k - 1][p] = stack[j - 1][q] /\ levels[k - 1][p + 1] = stack[j - 1][q + 1]
    <3>1. W(k - 1, p) = V(j - 1, q) /\ W(k - 1, p + 1) = V(j - 1, q + 1)
      BY <1>3, <2>2, <2>4 DEF Agree
    <3> HIDE DEF W, V
    <3> QED
      BY <1>3, <3>1
  <2>5. CASE levels[k - 1][p] = stack[j - 1][q + 1] /\ levels[k - 1][p + 1] = stack[j - 1][q]
    <3>1. W(k - 1, p) = V(j - 1, q + 1) /\ W(k - 1, p + 1) = V(j - 1, q)
      BY <1>3, <2>2, <2>5 DEF Agree
    <3> HIDE DEF W, V
    <3> QED
      BY <1>3, <2>3, <3>1
  <2>6. Tree!Node(levels[k - 1][p], levels[k - 1][p + 1]) = Tree!Node(stack[j - 1][q], stack[j - 1][q + 1])
    BY <1>3
  <2> QED
    <3> DEFINE a1 == levels[k - 1][p]
               a2 == levels[k - 1][p + 1]
               b1 == stack[j - 1][q]
               b2 == stack[j - 1][q + 1]
    <3>1. (a1 = b1 /\ a2 = b2) \/ (a1 = b2 /\ a2 = b1)
      <4>1. Tree!Node(a1, a2) = Tree!Node(b1, b2)
        BY <2>6
      <4> HIDE DEF a1, a2, b1, b2
      <4> QED
        BY <4>1, HashesAreApart
    <3> QED
      BY <2>4, <2>5, <3>1
<1>4. ASSUME levels[k][i] = Tree!Leaf(given[i]), W(k, i) = IF given[i] = x THEN 1 ELSE 0,
             stack[j][m] = Tree!Leaf(other[m]), V(j, m) = IF other[m] = x THEN 1 ELSE 0
      PROVE  W(k, i) = V(j, m)
  <2>1. given[i] = other[m]
    BY <1>4, HashesAreApart
  <2> HIDE DEF W, V
  <2> QED
    BY <1>4, <2>1
<1>5. \/ levels[k][i] = Tree!Leaf(given[i]) /\ W(k, i) = (IF given[i] = x THEN 1 ELSE 0)
      \/ /\ k - 1 \in 1..Len(levels)
         /\ \E p \in 1..Len(levels[k - 1]) :
              /\ p + 1 \in 1..Len(levels[k - 1])
              /\ levels[k][i] = Tree!Node(levels[k - 1][p], levels[k - 1][p + 1])
              /\ W(k, i) = W(k - 1, p) + W(k - 1, p + 1)
      \/ /\ k - 1 \in 1..Len(levels)
         /\ \E p \in 1..Len(levels[k - 1]) :
              levels[k][i] = levels[k - 1][p] /\ W(k, i) = W(k - 1, p)
  <2>1. NodeFrom(given, levels, b, x, k, i)
    BY NodeIs, Zenon
  <2> QED
    BY <2>1 DEF NodeFrom
<1>6. \/ stack[j][m] = Tree!Leaf(other[m]) /\ V(j, m) = (IF other[m] = x THEN 1 ELSE 0)
      \/ /\ j - 1 \in 1..Len(stack)
         /\ \E q \in 1..Len(stack[j - 1]) :
              /\ q + 1 \in 1..Len(stack[j - 1])
              /\ stack[j][m] = Tree!Node(stack[j - 1][q], stack[j - 1][q + 1])
              /\ V(j, m) = V(j - 1, q) + V(j - 1, q + 1)
      \/ /\ j - 1 \in 1..Len(stack)
         /\ \E q \in 1..Len(stack[j - 1]) :
              stack[j][m] = stack[j - 1][q] /\ V(j, m) = V(j - 1, q)
  <2>1. NodeFrom(other, stack, d, x, j, m)
    BY NodeIs, Zenon
  <2> QED
    BY <2>1 DEF NodeFrom
<1> HIDE DEF W, V
<1>7. W(k, i) = V(j, m)
  BY <1>1, <1>2, <1>3, <1>4, <1>5, <1>6, HashesAreApart
<1> QED
  BY <1>7 DEF W, V

LEMMA NodesAgree ==
  ASSUME NEW given, NEW levels, NEW b, Planted(given, levels, b),
         NEW other, NEW stack, NEW d, Planted(other, stack, d), NEW x
  PROVE  \A k \in 1..Len(levels), j \in 1..Len(stack) :
           Agree(given, levels, b, other, stack, d, x, k, j)
<1> DEFINE Good(k, j) == Agree(given, levels, b, other, stack, d, x, k, j)
           Bad == {n \in Nat : \E k \in 1..Len(levels) : \E j \in 1..Len(stack) :
                                 n = k + j /\ ~ Good(k, j)}
<1>1. ASSUME NEW n \in Bad, \A l \in Bad : n <= l
      PROVE  FALSE
  <2>1. PICK k \in 1..Len(levels) : \E j \in 1..Len(stack) : n = k + j /\ ~ Good(k, j)
    OBVIOUS
  <2>2. PICK j \in 1..Len(stack) : n = k + j /\ ~ Good(k, j)
    BY <2>1
  <2>3. ASSUME NEW l \in 1..Len(levels), NEW p \in 1..Len(stack), l + p < k + j
        PROVE  Good(l, p)
    <3>1. l + p \in Nat /\ ~ (n <= l + p)
      BY <2>2, <2>3
    <3> DEFINE sum == l + p
    <3>2. sum \notin Bad
      <4> HIDE DEF Bad, sum
      <4> QED
        BY <1>1, <3>1 DEF sum
    <3>3. sum \in Nat /\ sum = l + p
      BY <3>1
    <3> HIDE DEF Good, sum
    <3> QED
      BY <3>2, <3>3
  <2>4. Good(k, j)
    BY <2>3, AgreeUp
  <2> QED
    BY <2>2, <2>4
<1>2. Bad = {}
  <2>1. Bad \subseteq Nat
    OBVIOUS
  <2> HIDE DEF Bad
  <2> QED
    BY <1>1, <2>1, LeastNumber
<1>3. ASSUME NEW k \in 1..Len(levels), NEW j \in 1..Len(stack) PROVE Good(k, j)
  <2>1. k + j \in Nat /\ k + j \notin Bad
    <3> HIDE DEF Bad
    <3> QED
      BY <1>2
  <2> HIDE DEF Good
  <2> QED
    BY <2>1
<1> QED
  BY <1>3

\* A root binds the leaves it is made of: no other number, and no others,
\* have it.
LEMMA RootBinds ==
  ASSUME NEW given, IsSequence(given), NEW other, IsSequence(other),
         Tree!Root(given) = Tree!Root(other), NEW x
  PROVE  Tree!Count(given, x) = Tree!Count(other, x)
<1>1. ASSUME NEW leaves1, IsSequence(leaves1)
      PROVE  \E s, b : /\ Planted(leaves1, s, b) /\ Len(s) \in Nat /\ Len(s) >= 1
                       /\ leaves1 = <<>> => Tree!Root(leaves1) = Tree!EmptyRoot
                       /\ leaves1 # <<>> =>
                            /\ Tree!Root(leaves1) = s[Len(s)][1] /\ Len(s[Len(s)]) = 1
                            /\ Weight(leaves1, b, x, Len(s), 1) = Tree!Count(leaves1, x)
  <2> DEFINE s == Tree!Levels(leaves1)
             N == Len(leaves1)
  <2>1. /\ Stacked(s, leaves1) /\ (leaves1 # <<>> => Len(Top(s)) = 1)
    BY <1>1, LevelsAre
  <2>2. PICK b : Planted(leaves1, s, b)
    BY <1>1, <2>1, TreesArePlanted
  <2>3. /\ leaves1 = <<>> => Tree!Root(leaves1) = Tree!EmptyRoot
        /\ leaves1 # <<>> => Tree!Root(leaves1) = s[Len(s)][1]
    BY DEF Tree!Root
  <2> HIDE DEF s
  <2>4. Len(s) \in Nat /\ Len(s) >= 1
    BY <2>1 DEF Stacked, IsSequence
  <2>5. ASSUME leaves1 # <<>>
        PROVE  Weight(leaves1, b, x, Len(s), 1) = Tree!Count(leaves1, x)
    <3>0. Len(s) \in 1..Len(s) /\ Len(s[Len(s)]) = 1
      BY <2>1, <2>4, <2>5 DEF Top
    <3>1. InOrder(b[Len(s)], 1, N)
      BY <2>2, <3>0 DEF Planted
    <3>2. b[Len(s)][1 - 1] = 0 /\ b[Len(s)][1] = N
      BY <3>1 DEF InOrder
    <3>3. N \in Nat
      BY <1>1 DEF IsSequence
    <3>4. Held(leaves1, x, 0, N) = Tree!Count(leaves1, x)
      <4>1. 0 + 1 = 1
        OBVIOUS
      <4> QED
        BY <4>1 DEF Held, Tree!Count
    <3> QED
      BY <3>2, <3>4 DEF Weight
  <2> QED
    BY <2>1, <2>2, <2>3, <2>4, <2>5 DEF Top
<1>2. PICK s, b : /\ Planted(given, s, b) /\ Len(s) \in Nat /\ Len(s) >= 1
                  /\ given = <<>> => Tree!Root(given) = Tree!EmptyRoot
                  /\ given # <<>> =>
                       /\ Tree!Root(given) = s[Len(s)][1] /\ Len(s[Len(s)]) = 1
                       /\ Weight(given, b, x, Len(s), 1) = Tree!Count(given, x)
  BY <1>1
<1>3. PICK t, d : /\ Planted(other, t, d) /\ Len(t) \in Nat /\ Len(t) >= 1
                  /\ other = <<>> => Tree!Root(other) = Tree!EmptyRoot
                  /\ other # <<>> =>
                       /\ Tree!Root(other) = t[Len(t)][1] /\ Len(t[Len(t)]) = 1
                       /\ Weight(other, d, x, Len(t), 1) = Tree!Count(other, x)
  BY <1>1
<1>4. given # <<>> => Tree!Root(given) # Tree!EmptyRoot
  <2> SUFFICES ASSUME given # <<>> PROVE Tree!Root(given) # Tree!EmptyRoot
    OBVIOUS
  <2>1. Len(s) \in 1..Len(s) /\ 1 \in 1..Len(s[Len(s)])
    BY <1>2
  <2> QED
    BY <1>2, <2>1, NodesAreNotEmpty
<1>5. other # <<>> => Tree!Root(other) # Tree!EmptyRoot
  <2> SUFFICES ASSUME other # <<>> PROVE Tree!Root(other) # Tree!EmptyRoot
    OBVIOUS
  <2>1. Len(t) \in 1..Len(t) /\ 1 \in 1..Len(t[Len(t)])
    BY <1>3
  <2> QED
    BY <1>3, <2>1, NodesAreNotEmpty
<1>6. CASE given = <<>> \/ other = <<>>
  BY <1>2, <1>3, <1>4, <1>5, <1>6
<1>7. CASE given # <<>> /\ other # <<>>
  <2>1. /\ Len(s) \in 1..Len(s) /\ 1 \in 1..Len(s[Len(s)])
        /\ Len(t) \in 1..Len(t) /\ 1 \in 1..Len(t[Len(t)])
    BY <1>2, <1>3, <1>7
  <2>2. Agree(given, s, b, other, t, d, x, Len(s), Len(t))
    BY <1>2, <1>3, <2>1, NodesAgree
  <2>3. s[Len(s)][1] = t[Len(t)][1]
    BY <1>2, <1>3, <1>7
  <2>4. Weight(given, b, x, Len(s), 1) = Weight(other, d, x, Len(t), 1)
    BY <2>1, <2>2, <2>3 DEF Agree
  <2> QED
    BY <1>2, <1>3, <1>7, <2>4
<1> QED
  BY <1>6, <1>7

-----------------------------------------------------------------------------
(* Proofs of inclusion.                                                     *)

Hashed(h, leaf, proof, n) ==
  h = [m \in 0..n |-> IF m = 0 THEN Tree!Leaf(leaf) ELSE Tree!Node(h[m - 1], proof[m])]

Climbs(walk, levels, index, n) ==
  walk = [k \in 0..n |-> IF k = 0 THEN [index |-> index, proof |-> <<>>]
                         ELSE Tree!Climbed(walk[k - 1], levels[k])]

LEMMA HashedIs ==
  ASSUME NEW leaf, NEW proof, NEW n \in Nat
  PROVE  \E h : Hashed(h, leaf, proof, n)
<1> DEFINE Bad == {m \in Nat : ~ \E h : Hashed(h, leaf, proof, m)}
<1>1. ASSUME NEW m \in Bad, \A l \in Bad : m <= l
      PROVE  FALSE
  <2>1. CASE m = 0
    <3> DEFINE h == [k \in 0..m |-> Tree!Leaf(leaf)]
    <3>1. \A k \in 0..m : k = 0
      BY <2>1
    <3>2. Hashed(h, leaf, proof, m)
      BY <3>1 DEF Hashed
    <3> QED
      BY <3>2
  <2>2. CASE m # 0
    <3>1. m - 1 \in Nat /\ m - 1 \notin Bad
      BY <1>1, <2>2
    <3>2. PICK g : Hashed(g, leaf, proof, m - 1)
      BY <3>1
    <3> DEFINE h == [k \in 0..m |-> IF k < m THEN g[k] ELSE Tree!Node(g[m - 1], proof[m])]
    <3>3. h[0] = Tree!Leaf(leaf)
      BY <2>2, <3>2 DEF Hashed
    <3>4. ASSUME NEW k \in 0..m, k # 0 PROVE h[k] = Tree!Node(h[k - 1], proof[k])
      <4>1. k - 1 \in 0..m - 1 /\ h[k - 1] = g[k - 1]
        BY <3>4
      <4>2. CASE k < m
        <5>1. k \in 0..m - 1 /\ h[k] = g[k]
          BY <3>4, <4>2
        <5>2. g[k] = Tree!Node(g[k - 1], proof[k])
          BY <3>2, <3>4, <5>1 DEF Hashed
        <5> QED
          BY <4>1, <5>1, <5>2
      <4>3. CASE k = m
        BY <4>1, <4>3
      <4> QED
        BY <4>2, <4>3
    <3>5. h = [k \in 0..m |-> h[k]]
      OBVIOUS
    <3> HIDE DEF h
    <3>6. Hashed(h, leaf, proof, m)
      BY <3>3, <3>4, <3>5 DEF Hashed
    <3> QED
      BY <3>6
  <2> QED
    BY <2>1, <2>2
<1>2. Bad = {}
  <2>1. Bad \subseteq Nat
    OBVIOUS
  <2> HIDE DEF Bad
  <2> QED
    BY <1>1, <2>1, LeastNumber
<1> QED
  BY <1>2

LEMMA ClimbsIs ==
  ASSUME NEW levels, NEW index, NEW n \in Nat
  PROVE  \E walk : Climbs(walk, levels, index, n)
<1> DEFINE Bad == {m \in Nat : ~ \E walk : Climbs(walk, levels, index, m)}
<1>1. ASSUME NEW m \in Bad, \A l \in Bad : m <= l
      PROVE  FALSE
  <2>1. CASE m = 0
    <3> DEFINE h == [k \in 0..m |-> [index |-> index, proof |-> <<>>]]
    <3>1. \A k \in 0..m : k = 0
      BY <2>1
    <3>2. Climbs(h, levels, index, m)
      BY <3>1 DEF Climbs
    <3> QED
      BY <3>2
  <2>2. CASE m # 0
    <3>1. m - 1 \in Nat /\ m - 1 \notin Bad
      BY <1>1, <2>2
    <3>2. PICK g : Climbs(g, levels, index, m - 1)
      BY <3>1
    <3> DEFINE h == [k \in 0..m |-> IF k < m THEN g[k] ELSE Tree!Climbed(g[m - 1], levels[m])]
    <3>3. h[0] = [index |-> index, proof |-> <<>>]
      BY <2>2, <3>2 DEF Climbs
    <3>4. ASSUME NEW k \in 0..m, k # 0 PROVE h[k] = Tree!Climbed(h[k - 1], levels[k])
      <4>1. k - 1 \in 0..m - 1 /\ h[k - 1] = g[k - 1]
        BY <3>4
      <4>2. CASE k < m
        <5>1. k \in 0..m - 1 /\ h[k] = g[k]
          BY <3>4, <4>2
        <5>2. g[k] = Tree!Climbed(g[k - 1], levels[k])
          BY <3>2, <3>4, <5>1 DEF Climbs
        <5> QED
          BY <4>1, <5>1, <5>2
      <4>3. CASE k = m
        BY <4>1, <4>3
      <4> QED
        BY <4>2, <4>3
    <3>5. h = [k \in 0..m |-> h[k]]
      OBVIOUS
    <3> HIDE DEF h
    <3>6. Climbs(h, levels, index, m)
      BY <3>3, <3>4, <3>5 DEF Climbs
    <3> QED
      BY <3>6
  <2> QED
    BY <2>1, <2>2
<1>2. Bad = {}
  <2>1. Bad \subseteq Nat
    OBVIOUS
  <2> HIDE DEF Bad
  <2> QED
    BY <1>1, <2>1, LeastNumber
<1> QED
  BY <1>2

\* A leaf combined with a proof is the end of a chain of hashes.
LEMMA CombinedIs ==
  ASSUME NEW leaf, NEW proof, Len(proof) \in Nat
  PROVE  \E h : Hashed(h, leaf, proof, Len(proof)) /\ Tree!Combined(leaf, proof) = h[Len(proof)]
<1>1. \E h : Hashed(h, leaf, proof, Len(proof))
  BY HashedIs
<1>2. Tree!Combined(leaf, proof) = (CHOOSE h : Hashed(h, leaf, proof, Len(proof)))[Len(proof)]
  BY DEF Tree!Combined, Hashed
<1> QED
  BY <1>1, <1>2

\* A proof proves one leaf.
LEMMA CombinedBinds ==
  ASSUME NEW proof, Len(proof) \in Nat, NEW x, NEW y,
         Tree!Combined(x, proof) = Tree!Combined(y, proof)
  PROVE  x = y
<1> DEFINE n == Len(proof)
<1>1. PICK h : Hashed(h, x, proof, n) /\ Tree!Combined(x, proof) = h[n]
  BY CombinedIs
<1>2. PICK g : Hashed(g, y, proof, n) /\ Tree!Combined(y, proof) = g[n]
  BY CombinedIs
<1>0. n \in Nat
  OBVIOUS
<1> HIDE DEF n
<1> DEFINE Same == {m \in 0..n : h[m] = g[m]}
<1>3. PICK m \in Same : \A l \in Same : m <= l
  <2>0. h[n] = g[n] /\ n \in 0..n
    <3>1. h[n] = g[n]
      BY <1>1, <1>2, Zenon
    <3>2. n \in 0..n
      BY <1>0
    <3> QED
      BY <3>1, <3>2
  <2>1. Same \subseteq Nat /\ n \in Same
    BY <1>0, <2>0
  <2> HIDE DEF Same
  <2> QED
    BY <2>1, LeastNumber
<1>4. CASE m = 0
  <2>1. h[0] = Tree!Leaf(x) /\ g[0] = Tree!Leaf(y)
    BY <1>0, <1>1, <1>2 DEF Hashed
  <2>2. Tree!Leaf(x) = Tree!Leaf(y)
    BY <1>3, <1>4, <2>1
  <2> QED
    BY <2>2, HashesAreApart, Zenon
<1>5. CASE m # 0
  <2> DEFINE a == h[m - 1]
             b == g[m - 1]
             s == proof[m]
  <2>1. m - 1 \in 0..n /\ ~ (m <= m - 1)
    BY <1>0, <1>3, <1>5
  <2>2. h[m] = Tree!Node(a, s) /\ g[m] = Tree!Node(b, s)
    BY <1>0, <1>1, <1>2, <1>5 DEF Hashed
  <2>3. Tree!Node(a, s) = Tree!Node(b, s)
    BY <1>3, <2>2
  <2>4. a # b
    BY <1>3, <2>1
  <2> HIDE DEF a, b, s
  <2> QED
    BY <2>3, <2>4, HashesAreApart
<1> QED
  BY <1>4, <1>5

LEMMA NodeOfEither == \A x, y : Tree!Node(x, y) = Tree!Node(y, x)
<1>1. \A x, y : {x, y} = {y, x}
  OBVIOUS
<1> QED
  BY <1>1 DEF Tree!Node

\* A node and its sibling make the node above; one without a sibling is it.
LEMMA AboveEach ==
  ASSUME NEW level, IsSequence(level), Len(level) > 1, NEW i \in 0..(Len(level) - 1)
  PROVE  /\ i \div 2 \in 0..(Len(Tree!Above(level)) - 1)
         /\ Tree!Sibling(i) < Len(level) =>
              Tree!Above(level)[i \div 2 + 1] = Tree!Node(level[i + 1], level[Tree!Sibling(i) + 1])
         /\ ~ (Tree!Sibling(i) < Len(level)) => Tree!Above(level)[i \div 2 + 1] = level[i + 1]
<1> DEFINE m == Len(level)
           up == Tree!Above(level)
           j == i \div 2 + 1
           sib == Tree!Sibling(i)
<1>1. m \in Nat /\ m > 1 /\ i \in 0..m - 1
  BY DEF IsSequence
<1>2. /\ Len(up) = (m + 1) \div 2
      /\ \A l \in 1..((m + 1) \div 2) :
           up[l] = IF 2 * l <= m THEN Tree!Node(level[2 * l - 1], level[2 * l]) ELSE level[2 * l - 1]
  BY AboveIs
<1> HIDE DEF m, up
<1>3. i \in Nat /\ (i = 2 * (i \div 2) \/ i = 2 * (i \div 2) + 1) /\ i \div 2 \in Nat
  BY <1>1
<1>4. /\ i = 2 * (i \div 2) => i % 2 = 0
      /\ i = 2 * (i \div 2) + 1 => i % 2 = 1
  BY <1>1
<1>5. sib = IF i = 2 * (i \div 2) THEN i + 1 ELSE i - 1
  BY <1>3, <1>4 DEF Tree!Sibling
<1> DEFINE half == i \div 2
<1>6. /\ half \in Nat /\ (i = 2 * half \/ i = 2 * half + 1) /\ j = half + 1
      /\ sib = IF i = 2 * half THEN i + 1 ELSE i - 1
  BY <1>3, <1>5
<1> HIDE DEF half, j, sib
<1>7. j \in 1..((m + 1) \div 2) /\ half <= (m + 1) \div 2 - 1
  BY <1>1, <1>6
<1>8. up[j] = IF 2 * j <= m THEN Tree!Node(level[2 * j - 1], level[2 * j]) ELSE level[2 * j - 1]
  BY <1>2, <1>7
<1>9. sib < m => up[j] = Tree!Node(level[i + 1], level[sib + 1])
  <2> SUFFICES ASSUME sib < m PROVE up[j] = Tree!Node(level[i + 1], level[sib + 1])
    OBVIOUS
  <2>1. CASE i = 2 * half
    <3>1. sib = i + 1 /\ 2 * j <= m /\ 2 * j - 1 = i + 1 /\ 2 * j = sib + 1
      BY <1>1, <1>6, <2>1
    <3> QED
      BY <1>8, <3>1
  <2>2. CASE i = 2 * half + 1
    <3>1. sib = i - 1 /\ 2 * j <= m /\ 2 * j - 1 = sib + 1 /\ 2 * j = i + 1
      BY <1>1, <1>6, <2>2
    <3>2. up[j] = Tree!Node(level[sib + 1], level[i + 1])
      BY <1>8, <3>1
    <3> QED
      BY <3>2, NodeOfEither
  <2> QED
    BY <1>6, <2>1, <2>2
<1>10. ~ (sib < m) => up[j] = level[i + 1]
  <2> SUFFICES ASSUME ~ (sib < m) PROVE up[j] = level[i + 1]
    OBVIOUS
  <2>1. i = 2 * half /\ ~ (2 * j <= m) /\ 2 * j - 1 = i + 1
    BY <1>1, <1>6
  <2> QED
    BY <1>8, <2>1
<1>11. half \in 0..Len(up) - 1
  BY <1>1, <1>2, <1>6, <1>7
<1> QED
  BY <1>9, <1>10, <1>11 DEF half, j, sib, m, up

\* A step of the way up from a leaf: what was gathered leads to the node
\* arrived at.
Reaches(step, leaf, level) ==
  /\ step.index \in 0..(Len(level) - 1) /\ IsSequence(step.proof)
  /\ \A h : Hashed(h, leaf, step.proof, Len(step.proof)) =>
              h[Len(step.proof)] = level[step.index + 1]

LEMMA ReachesOn ==
  ASSUME NEW step, NEW leaf, NEW level, IsSequence(level), Len(level) > 1,
         Reaches(step, leaf, level)
  PROVE  Reaches(Tree!Climbed(step, level), leaf, Tree!Above(level))
<1> DEFINE i == step.index
           proof == step.proof
           n == Len(proof)
           m == Len(level)
           up == Tree!Above(level)
           sib == Tree!Sibling(i)
           more == Append(proof, level[sib + 1])
           next == Tree!Climbed(step, level)
<1>1. /\ i \in 0..m - 1 /\ IsSequence(proof) /\ n \in Nat
      /\ \A h : Hashed(h, leaf, proof, n) => h[n] = level[i + 1]
  BY DEF Reaches, IsSequence
<1>2. next.index = i \div 2 /\ next.proof = IF sib < m THEN more ELSE proof
  BY DEF Tree!Climbed
<1>3. /\ i \div 2 \in 0..Len(up) - 1
      /\ sib < m => up[i \div 2 + 1] = Tree!Node(level[i + 1], level[sib + 1])
      /\ ~ (sib < m) => up[i \div 2 + 1] = level[i + 1]
  BY <1>1, AboveEach
<1> DEFINE to == i \div 2
<1>4. CASE ~ (sib < m)
  <2>1. next.index = to /\ next.proof = proof /\ up[to + 1] = level[i + 1] /\ to \in 0..Len(up) - 1
    BY <1>2, <1>3, <1>4
  <2> HIDE DEF i, proof, up, next, to, m
  <2>2. Reaches(next, leaf, up)
    BY <1>1, <2>1 DEF Reaches
  <2> QED
    BY <2>2 DEF next, up
<1>5. CASE sib < m
  <2> DEFINE side == level[sib + 1]
  <2>1. /\ next.index = to /\ next.proof = more /\ to \in 0..Len(up) - 1
        /\ up[to + 1] = Tree!Node(level[i + 1], side)
    BY <1>2, <1>3, <1>5
  <2>2. /\ IsSequence(more) /\ Len(more) = n + 1 /\ more[n + 1] = side
        /\ \A k \in 1..n : more[k] = proof[k]
    <3> DEFINE full == Append(proof, side)
    <3>1. more = full
      OBVIOUS
    <3> HIDE DEF side, proof
    <3>2. /\ IsSequence(full) /\ Len(full) = Len(proof) + 1 /\ full[Len(proof) + 1] = side
          /\ \A k \in 1..Len(proof) : full[k] = proof[k]
      BY <1>1, Appended
    <3> HIDE DEF full, more
    <3> QED
      BY <3>1, <3>2
  <2> HIDE DEF i, proof, n, up, next, to, m, side, more, sib
  <2>3. ASSUME NEW h, Hashed(h, leaf, more, n + 1)
        PROVE  h[n + 1] = up[to + 1]
    <3> DEFINE g == [k \in 0..n |-> h[k]]
    <3>1. /\ h[0] = Tree!Leaf(leaf)
          /\ \A k \in 1..n + 1 : h[k] = Tree!Node(h[k - 1], more[k])
      BY <1>1, <2>3 DEF Hashed
    <3>2. ASSUME NEW k \in 0..n, k # 0 PROVE g[k] = Tree!Node(g[k - 1], proof[k])
      <4>1. k \in 1..n /\ k \in 1..n + 1 /\ k - 1 \in 0..n
        BY <1>1, <3>2
      <4>2. g[k] = h[k] /\ g[k - 1] = h[k - 1]
        BY <4>1
      <4> HIDE DEF g
      <4> QED
        BY <2>2, <3>1, <4>1, <4>2
    <3>3. g[0] = Tree!Leaf(leaf) /\ g[n] = h[n]
      BY <1>1, <3>1
    <3>4. g = [k \in 0..n |-> g[k]]
      OBVIOUS
    <3> HIDE DEF g
    <3>5. Hashed(g, leaf, proof, n)
      BY <3>2, <3>3, <3>4 DEF Hashed
    <3>6. h[n] = level[i + 1]
      BY <1>1, <3>3, <3>5
    <3>7. h[n + 1] = Tree!Node(h[n], more[n + 1])
      <4>1. n + 1 \in 1..n + 1 /\ (n + 1) - 1 = n
        BY <1>1
      <4> QED
        BY <3>1, <4>1
    <3> QED
      BY <2>1, <2>2, <3>6, <3>7
  <2>4. Reaches(next, leaf, up)
    BY <2>1, <2>2, <2>3 DEF Reaches
  <2> QED
    BY <2>4 DEF next, up
<1> QED
  BY <1>4, <1>5

\* The proof of a leaf of a tree leads to its root.
LEMMA ProofsVerify ==
  ASSUME NEW given, IsSequence(given), NEW index \in 0..(Len(given) - 1)
  PROVE  /\ Len(Tree!InclusionProof(Tree!Levels(given), index)) \in Nat
         /\ Tree!Combined(given[index + 1], Tree!InclusionProof(Tree!Levels(given), index))
              = Tree!Root(given)
<1> DEFINE levels == Tree!Levels(given)
           n == Len(levels) - 1
           N == Len(given)
           leaf == given[index + 1]
<1>1. N \in Nat /\ N > 0 /\ index \in 0..N - 1 /\ given # <<>>
  <2>1. N \in Nat /\ N > 0 /\ index \in 0..N - 1
    BY DEF IsSequence
  <2>2. Len(<<>>) = 0
    OBVIOUS
  <2> QED
    BY <2>1, <2>2
<1>2. Stacked(levels, given) /\ Len(Top(levels)) = 1
  BY <1>1, LevelsAre
<1>3. Tree!Root(given) = levels[Len(levels)][1]
  BY <1>1 DEF Tree!Root
<1>4. Tree!InclusionProof(levels, index) = (CHOOSE walk : Climbs(walk, levels, index, n))[n].proof
  BY DEF Tree!InclusionProof, Climbs
<1> HIDE DEF levels
<1>5. Len(levels) \in Nat /\ Len(levels) >= 1 /\ n \in Nat
  BY <1>2 DEF Stacked, IsSequence
<1>6. PICK walk : /\ Climbs(walk, levels, index, n)
                  /\ Tree!InclusionProof(levels, index) = walk[n].proof
  <2> DEFINE most == n
  <2>1. \E walk : Climbs(walk, levels, index, most)
    <3>1. most \in Nat
      BY <1>5
    <3> HIDE DEF most
    <3> QED
      BY <3>1, ClimbsIs
  <2> HIDE DEF most
  <2>2. Tree!InclusionProof(levels, index) = (CHOOSE walk : Climbs(walk, levels, index, most))[most].proof
    BY <1>4 DEF most
  <2>3. PICK walk : /\ Climbs(walk, levels, index, most)
                    /\ Tree!InclusionProof(levels, index) = walk[most].proof
    BY <2>1, <2>2
  <2> QED
    BY <2>3 DEF most
<1> DEFINE Good(k) == Reaches(walk[k], leaf, levels[k + 1])
           Bad == {k \in 0..n : ~ Good(k)}
<1>7. ASSUME NEW k \in Bad, \A l \in Bad : k <= l
      PROVE  FALSE
  <2>1. CASE k = 0
    <3> DEFINE step == walk[0]
    <3>1. step = [index |-> index, proof |-> <<>>]
      BY <1>5, <1>6 DEF Climbs
    <3>2. step.index = index /\ step.proof = <<>> /\ Len(<<>>) = 0
      BY <3>1
    <3> HIDE DEF step
    <3>3. levels[0 + 1] = Hashes(given)
      BY <1>2 DEF Stacked
    <3>4. Len(Hashes(given)) = N
      <4>1. Hashes(given) = [l \in 1..N |-> Hashes(given)[l]]
        BY DEF Hashes
      <4> QED
        BY <1>1, <4>1, ASequence
    <3>5. Hashes(given)[index + 1] = Tree!Leaf(leaf)
      BY <1>1 DEF Hashes
    <3>6. IsSequence(<<>>)
      <4> DEFINE none == <<>>
      <4>1. none = [l \in 1..0 |-> none[l]] /\ Len(none) = 0
        OBVIOUS
      <4> HIDE DEF none
      <4>2. IsSequence(none)
        BY <4>1 DEF IsSequence
      <4> QED
        BY <4>2 DEF none
    <3>7. ASSUME NEW h, Hashed(h, leaf, <<>>, 0) PROVE h[0] = Tree!Leaf(leaf)
      BY <3>7 DEF Hashed
    <3> HIDE DEF leaf, N
    <3>8. Reaches(step, leaf, levels[0 + 1])
      BY <1>1, <3>2, <3>3, <3>4, <3>5, <3>6, <3>7 DEF Reaches
    <3> QED
      BY <2>1, <3>8 DEF step
  <2>2. CASE k # 0
    <3>0. k \in 0..n
      OBVIOUS
    <3>1. k - 1 \in 0..n /\ ~ (k <= k - 1)
      BY <1>5, <2>2, <3>0
    <3>2. k - 1 \notin Bad
      <4> DEFINE before == k - 1
      <4>1. ~ (k <= before)
        BY <3>1
      <4> HIDE DEF Bad, before
      <4>2. before \notin Bad
        BY <1>7, <4>1
      <4> QED
        BY <4>2 DEF before
    <3>3. Good(k - 1)
      <4> HIDE DEF Good
      <4> QED
        BY <3>1, <3>2
    <3>4. (k - 1) + 1 = k /\ k \in 1..Len(levels) /\ k + 1 \in 2..Len(levels) /\ (k + 1) - 1 = k
      BY <1>5, <2>2, <3>0
    <3>5. Reaches(walk[k - 1], leaf, levels[k])
      BY <3>3, <3>4
    <3>6. walk[k] = Tree!Climbed(walk[k - 1], levels[k])
      BY <1>6, <2>2, <3>0 DEF Climbs
    <3>7. IsSequence(levels[k]) /\ Len(levels[k]) > 1 /\ levels[k + 1] = Tree!Above(levels[k])
      BY <1>2, <3>4 DEF Stacked
    <3> DEFINE step == walk[k - 1]
               level == levels[k]
    <3>8. Reaches(Tree!Climbed(step, level), leaf, Tree!Above(level))
      <4>1. Reaches(step, leaf, level) /\ IsSequence(level) /\ Len(level) > 1
        BY <3>5, <3>7
      <4> HIDE DEF step, level, leaf
      <4> QED
        BY <4>1, ReachesOn
    <3> QED
      BY <3>6, <3>7, <3>8
  <2> QED
    BY <2>1, <2>2
<1>8. Bad = {}
  <2>1. Bad \subseteq Nat
    BY <1>5
  <2> HIDE DEF Bad
  <2> QED
    BY <1>7, <2>1, LeastNumber
<1>9. Good(n)
  <2>1. n \in 0..n
    BY <1>5
  <2> HIDE DEF Good
  <2> QED
    BY <1>8, <2>1
<1> DEFINE proof == walk[n].proof
<1>10. /\ Len(proof) \in Nat
       /\ \A h : Hashed(h, leaf, proof, Len(proof)) => h[Len(proof)] = levels[Len(levels)][1]
  <2>1. n + 1 = Len(levels) /\ Len(levels[n + 1]) = 1
    BY <1>2, <1>5 DEF Top
  <2>2. walk[n].index = 0
    BY <1>9, <2>1 DEF Reaches
  <2> QED
    BY <1>9, <2>1, <2>2 DEF Reaches, IsSequence
<1> HIDE DEF proof, leaf
<1>11. Tree!Combined(leaf, proof) = levels[Len(levels)][1]
  BY <1>10, CombinedIs
<1> QED
  BY <1>3, <1>6, <1>10, <1>11 DEF proof, leaf, levels

-----------------------------------------------------------------------------
(* The rows in order, and the log.                                          *)

Rank(R, e) == Tree!Cardinality({f \in R : f <= e})

LEMMA RanksAre ==
  ASSUME NEW R, NEW top \in Nat, R \subseteq 1..top
  PROVE  /\ Tree!Cardinality(R) \in Nat
         /\ \A e \in R : Rank(R, e) \in 1..Tree!Cardinality(R)
         /\ \A e, f \in R : Rank(R, e) = Rank(R, f) => e = f
<1> DEFINE upto(e) == {f \in R : f <= e}
           N == Tree!Cardinality(R)
<1>1. IsFiniteSet(R) /\ \A x \in R : x \in Nat
  <2> DEFINE all == 1..top
  <2>1. IsFiniteSet(all)
    BY FS_Interval
  <2>2. R \subseteq all /\ \A x \in R : x \in Nat
    OBVIOUS
  <2> HIDE DEF all
  <2> QED
    BY <2>1, <2>2, FS_Subset
<1>2. ASSUME NEW e \in R
      PROVE  upto(e) \subseteq R /\ IsFiniteSet(upto(e)) /\ e \in upto(e)
  <2>1. upto(e) \subseteq R /\ e \in upto(e)
    BY <1>1
  <2> QED
    BY <1>1, <2>1, FS_Subset
<1>3. /\ N = Cardinality(R)
      /\ \A e : Rank(R, e) = Cardinality(upto(e))
  BY DEF Rank, Tree!Cardinality, Cardinality
<1>4. N \in Nat
  BY <1>1, <1>3, FS_CardinalityType
<1>5. ASSUME NEW e \in R PROVE Rank(R, e) \in 1..N
  <2> DEFINE some == upto(e)
  <2>1. some \subseteq R /\ IsFiniteSet(some) /\ e \in some /\ Rank(R, e) = Cardinality(some)
    BY <1>2, <1>3
  <2> HIDE DEF some
  <2>2. Cardinality(some) \in Nat /\ Cardinality(some) <= Cardinality(R)
    BY <1>1, <2>1, FS_CardinalityType, FS_Subset
  <2>3. Cardinality(some) # 0
    BY <2>1, FS_EmptySet
  <2> QED
    BY <1>3, <1>4, <2>1, <2>2, <2>3
<1>6. ASSUME NEW e \in R, NEW f \in R, e < f PROVE Rank(R, e) # Rank(R, f)
  <2> DEFINE less == upto(e)
             more == upto(f)
  <2>1. /\ less \subseteq more /\ f \in more /\ f \notin less
        /\ IsFiniteSet(less) /\ IsFiniteSet(more)
    <3>1. e \in Nat /\ f \in Nat /\ e < f
      BY <1>1, <1>6
    <3>2. \A x \in R : x \in Nat /\ (x <= e => x <= f)
      BY <1>1, <3>1
    <3>3. less \subseteq more
      BY <3>2
    <3>4. f \in more /\ f \notin less
      BY <3>1
    <3>5. IsFiniteSet(less) /\ IsFiniteSet(more)
      BY <1>2, Zenon
    <3> QED
      BY <3>3, <3>4, <3>5
  <2>2. Rank(R, e) = Cardinality(less) /\ Rank(R, f) = Cardinality(more)
    BY <1>3
  <2> HIDE DEF less, more
  <2>3. Cardinality(less) \in Nat /\ Cardinality(more) \in Nat
    BY <2>1, FS_CardinalityType
  <2>4. Cardinality(less) # Cardinality(more)
    <3>1. less # more
      BY <2>1
    <3> QED
      BY <2>1, <2>3, <3>1, FS_Subset
  <2> QED
    BY <2>2, <2>4
<1> HIDE DEF N
<1>7. ASSUME NEW e \in R, NEW f \in R, Rank(R, e) = Rank(R, f) PROVE e = f
  <2>1. e \in Nat /\ f \in Nat
    BY <1>1
  <2>2. ~ (e < f) /\ ~ (f < e)
    BY <1>6, <1>7
  <2> QED
    BY <2>1, <2>2
<1> QED
  BY <1>4, <1>5, <1>7 DEF N

\* Each row has its place, and no other row has it.
LEMMA RowsHavePlaces ==
  ASSUME NEW top \in Nat, leaves \subseteq 1..top
  PROVE  /\ IsSequence(Tree!Ordered) /\ Len(Tree!Ordered) = Tree!Cardinality(leaves)
         /\ IsSequence(Tree!OrderedLeaves) /\ Len(Tree!OrderedLeaves) = Len(Tree!Ordered)
         /\ \A i \in 1..Len(Tree!Ordered) : Tree!OrderedLeaves[i] = Tree!RecordHash(Tree!Ordered[i])
         /\ \A e \in leaves : \E i \in 0..(Len(Tree!Ordered) - 1) : Tree!Ordered[i + 1] = e
<1> DEFINE N == Tree!Cardinality(leaves)
           rank(e) == Rank(leaves, e)
           seq == Tree!Ordered
           all == Tree!OrderedLeaves
<1>1. /\ N \in Nat
      /\ \A e \in leaves : rank(e) \in 1..N
      /\ \A e, f \in leaves : rank(e) = rank(f) => e = f
  BY RanksAre
<1>2. seq = [i \in 1..N |-> CHOOSE e \in leaves : rank(e) = i]
  BY DEF Tree!Ordered, Rank
<1>3. all = [i \in 1..Len(seq) |-> Tree!RecordHash(seq[i])]
  BY DEF Tree!OrderedLeaves
<1> HIDE DEF N, rank, seq, all
<1>4. IsSequence(seq) /\ Len(seq) = N
  <2>1. seq = [i \in 1..N |-> seq[i]]
    BY <1>2
  <2> QED
    BY <1>1, <2>1, ASequence
<1>5. IsSequence(all) /\ Len(all) = Len(seq)
  <2>1. all = [i \in 1..N |-> all[i]]
    BY <1>3, <1>4
  <2> QED
    BY <1>1, <1>4, <2>1, ASequence
<1>6. \A i \in 1..Len(seq) : all[i] = Tree!RecordHash(seq[i])
  BY <1>3
<1>7. ASSUME NEW e \in leaves PROVE \E i \in 0..(Len(seq) - 1) : seq[i + 1] = e
  <2> DEFINE i == rank(e) - 1
             place == rank(e)
  <2>1. place \in 1..N
    BY <1>1
  <2>2. i \in 0..(Len(seq) - 1) /\ i + 1 = place
    BY <1>1, <1>4, <2>1
  <2>3. \A f \in leaves : rank(f) = place => f = e
    BY <1>1
  <2>4. e \in leaves /\ rank(e) = place
    OBVIOUS
  <2> HIDE DEF place, i
  <2>5. seq[place] = CHOOSE f \in leaves : rank(f) = place
    BY <1>2, <2>1
  <2>6. seq[place] = e
    BY <2>3, <2>4, <2>5
  <2> QED
    BY <2>2, <2>6
<1> QED
  BY <1>4, <1>5, <1>6, <1>7 DEF seq, all, N

LogInv ==
  /\ leaves \subseteq 1..MaxRows /\ made \subseteq 1..MaxRows /\ IsSequence(anchors)
  /\ \A i \in 1..Len(anchors) :
       IsSequence(anchors[i].leaves) /\ anchors[i].root = Tree!Root(anchors[i].leaves)

LEMMA LogBegins ==
  ASSUME Tree!MerkleAssumption, Tree!Init
  PROVE  LogInv
<1>1. leaves = {} /\ made = {} /\ anchors = <<>> /\ Len(<<>>) = 0
  BY DEF Tree!Init
<1>2. IsSequence(anchors)
  <2>1. anchors = [i \in 1..0 |-> anchors[i]]
    BY <1>1
  <2> QED
    BY <2>1, ASequence
<1> QED
  BY <1>1, <1>2 DEF LogInv

LEMMA LogKept ==
  ASSUME Tree!MerkleAssumption, LogInv, [Tree!Next]_(Tree!vars)
  PROVE  LogInv'
<1>0. MaxRows \in Nat
  BY DEF Tree!MerkleAssumption
<1>1. CASE Tree!Make
  <2>1. UNCHANGED <<leaves, anchors>> /\ made' = made \cup {Tree!Cardinality(made) + 1}
        /\ Tree!Cardinality(made) < MaxRows
    BY <1>1 DEF Tree!Make
  <2>2. Tree!Cardinality(made) \in Nat
    BY <1>0, RanksAre DEF LogInv
  <2> DEFINE new == Tree!Cardinality(made) + 1
  <2>3. new \in 1..MaxRows /\ made' = made \cup {new}
    BY <1>0, <2>1, <2>2
  <2> HIDE DEF new
  <2> QED
    BY <2>1, <2>3 DEF LogInv
<1>2. CASE Tree!Anchor
  <2> DEFINE one == [root |-> Tree!Root(Tree!OrderedLeaves), leaves |-> Tree!OrderedLeaves]
  <2>1. UNCHANGED <<leaves, made>> /\ anchors' = Append(anchors, one)
    BY <1>2 DEF Tree!Anchor
  <2>2. IsSequence(one.leaves) /\ one.root = Tree!Root(one.leaves)
    <3>1. one.leaves = Tree!OrderedLeaves /\ one.root = Tree!Root(Tree!OrderedLeaves)
      OBVIOUS
    <3>2. IsSequence(Tree!OrderedLeaves)
      BY <1>0, RowsHavePlaces DEF LogInv
    <3> HIDE DEF one
    <3> QED
      BY <3>1, <3>2
  <2> HIDE DEF one
  <2> DEFINE more == Append(anchors, one)
             n == Len(anchors)
  <2>3. /\ IsSequence(more) /\ Len(more) = n + 1 /\ more[n + 1] = one
        /\ \A i \in 1..n : more[i] = anchors[i]
    BY Appended DEF LogInv
  <2>4. n \in Nat
    BY DEF LogInv, IsSequence
  <2>5. \A i \in 1..n + 1 : i = n + 1 \/ i \in 1..n
    BY <2>4
  <2>6. anchors' = more
    BY <2>1
  <2>7. \A i \in 1..n : IsSequence(anchors[i].leaves) /\ anchors[i].root = Tree!Root(anchors[i].leaves)
    BY DEF LogInv
  <2> HIDE DEF more, n
  <2>8. \A i \in 1..n + 1 : IsSequence(more[i].leaves) /\ more[i].root = Tree!Root(more[i].leaves)
    BY <2>2, <2>3, <2>5, <2>7
  <2>9. /\ leaves \subseteq 1..MaxRows /\ made \subseteq 1..MaxRows
    BY DEF LogInv
  <2> QED
    BY <2>1, <2>3, <2>6, <2>8, <2>9 DEF LogInv
<1>3. ASSUME NEW e \in 1..MaxRows, Tree!Commit(e) PROVE LogInv'
  <2>1. UNCHANGED <<made, anchors>> /\ leaves' = leaves \cup {e}
    BY <1>3 DEF Tree!Commit
  <2> QED
    BY <2>1 DEF LogInv
<1>4. ASSUME NEW e \in 1..MaxRows, Tree!Damage(e) PROVE LogInv'
  <2>1. UNCHANGED <<made, anchors>> /\ leaves' \subseteq leaves
    BY <1>4 DEF Tree!Damage
  <2> QED
    BY <2>1 DEF LogInv
<1>5. CASE UNCHANGED Tree!vars
  BY <1>5 DEF Tree!vars, LogInv
<1> QED
  BY <1>1, <1>2, <1>3, <1>4, <1>5 DEF Tree!Next, Tree!Quiet

LEMMA LogBinds ==
  ASSUME Tree!MerkleAssumption, LogInv
  PROVE  TreeIsBinding
<1> DEFINE all == Tree!OrderedLeaves
           seq == Tree!Ordered
           n == Len(seq)
<1>1. /\ IsSequence(seq) /\ IsSequence(all) /\ Len(all) = n
      /\ \A i \in 1..n : all[i] = Tree!RecordHash(seq[i])
      /\ \A e \in leaves : \E i \in 0..(n - 1) : seq[i + 1] = e
  <2>1. MaxRows \in Nat
    BY DEF Tree!MerkleAssumption
  <2> QED
    BY <2>1, RowsHavePlaces DEF LogInv
<1>2. ASSUME NEW i \in 1..Len(anchors), Tree!Root(all) = anchors[i].root, NEW x
      PROVE  Tree!Count(all, x) = Tree!Count(anchors[i].leaves, x)
  <2> DEFINE other == anchors[i].leaves
  <2>1. IsSequence(other) /\ Tree!Root(all) = Tree!Root(other)
    BY <1>2 DEF LogInv
  <2> HIDE DEF all, other
  <2>2. Tree!Count(all, x) = Tree!Count(other, x)
    BY <1>1, <2>1, RootBinds
  <2> QED
    BY <2>2 DEF other
<1>3. ASSUME NEW e \in leaves
      PROVE  /\ Tree!Proof(e).verified
             /\ \A x : x # Tree!RecordHash(e) =>
                  ~ Tree!VerifyProof(x, Tree!Proof(e).proof, Tree!Proof(e).root)
  <2> DEFINE index == CHOOSE i \in 0..(n - 1) : seq[i + 1] = e
             proof == Tree!InclusionProof(Tree!Levels(all), index)
             hash == Tree!RecordHash(e)
  <2>1. index \in 0..(n - 1) /\ seq[index + 1] = e
    BY <1>1
  <2>2. /\ Tree!Proof(e).proof = proof /\ Tree!Proof(e).root = Tree!Root(all)
        /\ Tree!Proof(e).verified = Tree!VerifyProof(hash, proof, Tree!Root(all))
    BY DEF Tree!Proof
  <2> HIDE DEF index, all, seq, n
  <2>3. all[index + 1] = hash
    <3>1. index + 1 \in 1..n
      BY <1>1, <2>1 DEF n, IsSequence
    <3> QED
      BY <1>1, <2>1, <3>1
  <2>4. Len(proof) \in Nat /\ Tree!Combined(all[index + 1], proof) = Tree!Root(all)
    BY <1>1, <2>1, ProofsVerify
  <2> HIDE DEF proof, hash
  <2>5. Tree!VerifyProof(hash, proof, Tree!Root(all))
    BY <2>3, <2>4 DEF Tree!VerifyProof
  <2>6. ASSUME NEW x, Tree!VerifyProof(x, proof, Tree!Root(all)) PROVE x = hash
    <3>1. Tree!Combined(x, proof) = Tree!Combined(hash, proof)
      BY <2>5, <2>6 DEF Tree!VerifyProof
    <3> QED
      BY <2>4, <3>1, CombinedBinds
  <2> QED
    BY <2>2, <2>5, <2>6 DEF hash
<1> HIDE DEF all
<1> QED
  BY <1>2, <1>3 DEF TreeIsBinding, Tree!TreeIsBinding, all

\* An anchor's root is the root of no other records, and each record has a
\* proof, which proves nothing else (merkle.py), whatever the number of rows
\* and of anchors, in whatever order rows commit, are altered and removed.
THEOREM RootsBind ==
  ASSUME Tree!MerkleAssumption
  PROVE  Tree!Spec => []TreeIsBinding
<1>1. Tree!Init => LogInv
  BY LogBegins
<1>2. LogInv /\ [Tree!Next]_(Tree!vars) => LogInv'
  BY LogKept
<1>3. LogInv => TreeIsBinding
  BY LogBinds
<1> QED
  BY <1>1, <1>2, <1>3, PTL DEF Tree!Spec

-----------------------------------------------------------------------------
(* Standards: what an item plans.                                           *)

Vulnerable(ne, f) ==
  Intake!Plan("NIST_800_53", "RA-5", ne, "fail", ne.severity, <<ne.source, Intake!FindingKey(f)>>)

Attested(ne, g) ==
  Intake!Plan("NIST_800_53", Intake!Attests[g][2], ne, "pass", "info",
              <<ne.source, Intake!Attests[g][1], ne.asset>>)

LEMMA FindingPlans ==
  ASSUME NEW ne, ne.controls = {}, "vulnerability_management" \in ne.concepts,
         NEW f, ne.findings = {f}
  PROVE  Intake!PlanForEvidence(ne) = {Vulnerable(ne, f)}
BY DEF Intake!PlanForEvidence, Vulnerable

LEMMA NoPlans ==
  ASSUME NEW ne, ne.controls = {}, ne.flags = {},
         ~ ("vulnerability_management" \in ne.concepts /\ ne.findings # {})
  PROVE  Intake!PlanForEvidence(ne) = {}
BY DEF Intake!PlanForEvidence

LEMMA AttestPlans ==
  ASSUME NEW ne, ne.controls = {}, ne.findings = {}, NEW g \in DOMAIN Intake!Attests,
         ne.flags = {g}, Intake!Attests[g][1] \in ne.concepts
  PROVE  Intake!PlanForEvidence(ne) = {Attested(ne, g)}
BY DEF Intake!PlanForEvidence, Attested

LEMMA EvidenceIs ==
  ASSUME NEW a, NEW b, NEW c, NEW d, NEW e, NEW f, NEW g, NEW ne,
         ne = Intake!Evidence(a, b, c, d, e, f, g)
  PROVE  /\ ne.source = a /\ ne.asset = b /\ ne.severity = c /\ ne.concepts = d
         /\ ne.flags = e /\ ne.controls = f /\ ne.findings = g
BY DEF Intake!Evidence

LEMMA PlanIs ==
  ASSUME NEW a, NEW b, NEW ne, NEW c, NEW d, NEW e, NEW p, p = Intake!Plan(a, b, ne, c, d, e)
  PROVE  /\ p.control = b /\ p.asset = ne.asset /\ p.status = c /\ p.severity = d /\ p.external = e
BY DEF Intake!Plan

\* Any plan says of its asset what it says, and no severity less.
Says(p, asset, status, severity) == p.asset = asset /\ p.status = status /\ p.severity = severity

LEMMA OpenPlans ==
  ASSUME NEW i, i.fmt \notin {"report", "asff"}
  PROVE  Intake!Plans(i) = UNION {Intake!PlanForEvidence(ne) : ne \in Intake!Normalize(i)}
BY DEF Intake!Plans

\* SARIF.
LEMMA SarifPlans ==
  ASSUME NEW i, i.fmt = "sarif", i.tags \subseteq DOMAIN Intake!TagConcepts
  PROVE  /\ i.kind \in Intake!NonFindingKinds \/ Intake!IsSuppressed(i) \/ "cve" \notin i.tags =>
              Intake!Plans(i) = {}
         /\ ~ (i.kind \in Intake!NonFindingKinds \/ Intake!IsSuppressed(i) \/ "cve" \notin i.tags) =>
              \E f \in Intake!Result(i).findings : Intake!Plans(i) = {Vulnerable(Intake!Result(i), f)}
<1> DEFINE ne == Intake!Result(i)
           quiet == i.kind \in Intake!NonFindingKinds \/ Intake!IsSuppressed(i)
<1>1. Intake!Normalize(i) = IF quiet THEN {} ELSE {ne}
  BY DEF Intake!Normalize, Intake!FromSarif
<1>2. Intake!Plans(i) = UNION {Intake!PlanForEvidence(x) : x \in Intake!Normalize(i)}
  BY OpenPlans
<1>3. /\ ne.controls = {} /\ ne.flags = {} /\ ne.uri = ne.uri
      /\ ne.concepts = {"security_testing"} \cup {Intake!TagConcepts[t] : t \in i.tags}
      /\ \E f : ne.findings = {f}
  BY DEF Intake!Result, Intake!Evidence
<1>4. "vulnerability_management" \in ne.concepts <=> "cve" \in i.tags
  <2>1. \A t \in DOMAIN Intake!TagConcepts :
          Intake!TagConcepts[t] = "vulnerability_management" <=> t = "cve"
    BY DEF Intake!TagConcepts
  <2> HIDE DEF ne
  <2> QED
    BY <1>3, <2>1
<1> HIDE DEF ne, quiet
<1>5. CASE quiet
  BY <1>1, <1>2, <1>5 DEF quiet
<1>6. CASE ~ quiet /\ "cve" \notin i.tags
  <2>1. Intake!PlanForEvidence(ne) = {}
    BY <1>3, <1>4, <1>6, NoPlans
  <2> QED
    BY <1>1, <1>2, <1>6, <2>1 DEF quiet
<1>7. CASE ~ quiet /\ "cve" \in i.tags
  <2>1. PICK f : ne.findings = {f}
    BY <1>3
  <2>2. Intake!PlanForEvidence(ne) = {Vulnerable(ne, f)}
    BY <1>3, <1>4, <1>7, <2>1, FindingPlans
  <2>3. Intake!Plans(i) = {Vulnerable(ne, f)} /\ f \in ne.findings
    BY <1>1, <1>2, <1>7, <2>1, <2>2
  <2> QED
    BY <1>7, <2>3 DEF quiet, ne
<1> QED
  BY <1>5, <1>6, <1>7

\* CycloneDX.
LEMMA CyclonedxPlans ==
  ASSUME NEW i, i.fmt = "cyclonedx"
  PROVE  /\ i.vex \in Intake!VexSuppressed => Intake!Plans(i) = {}
         /\ i.vex \notin Intake!VexSuppressed =>
              /\ \A p \in Intake!Plans(i) : \E ref \in Intake!Affected(i) :
                   /\ Says(p, ref, "fail", Intake!VulnSeverity(i))
                   /\ p.external = <<"TRIVY", Intake!FindingKey(Intake!Field("id", i.id))>>
              /\ \A ref \in Intake!Affected(i) : \E p \in Intake!Plans(i) : p.asset = ref
<1> DEFINE f == Intake!Field("id", i.id)
           concepts == {"vulnerability_management", "dependency_management"}
           told(ref) == Intake!Evidence("TRIVY", ref, Intake!VulnSeverity(i), concepts, {}, {}, {f})
<1>1. Intake!Normalize(i) = IF i.vex \in Intake!VexSuppressed THEN {}
                            ELSE {told(ref) : ref \in Intake!Affected(i)}
  BY DEF Intake!Normalize, Intake!FromCyclonedx
<1>2. Intake!Plans(i) = UNION {Intake!PlanForEvidence(x) : x \in Intake!Normalize(i)}
  BY OpenPlans
<1>3. ASSUME NEW ref
      PROVE  /\ Intake!PlanForEvidence(told(ref)) = {Vulnerable(told(ref), f)}
             /\ Says(Vulnerable(told(ref), f), ref, "fail", Intake!VulnSeverity(i))
             /\ Vulnerable(told(ref), f).external = <<"TRIVY", Intake!FindingKey(f)>>
  <2> DEFINE ne == told(ref)
             p == Vulnerable(ne, f)
  <2>1. /\ ne.source = "TRIVY" /\ ne.asset = ref /\ ne.severity = Intake!VulnSeverity(i)
        /\ ne.concepts = concepts /\ ne.flags = {} /\ ne.controls = {} /\ ne.findings = {f}
    BY DEF Intake!Evidence
  <2> HIDE DEF ne, f
  <2>2. Intake!PlanForEvidence(ne) = {p}
    BY <2>1, FindingPlans
  <2>3. p.asset = ne.asset /\ p.status = "fail" /\ p.severity = ne.severity
        /\ p.external = <<ne.source, Intake!FindingKey(f)>>
    BY DEF Vulnerable, Intake!Plan
  <2> HIDE DEF p
  <2>4. Says(p, ref, "fail", Intake!VulnSeverity(i)) /\ p.external = <<"TRIVY", Intake!FindingKey(f)>>
    BY <2>1, <2>3 DEF Says
  <2> QED
    BY <2>2, <2>4 DEF ne, p
<1> HIDE DEF told, f
<1>4. CASE i.vex \in Intake!VexSuppressed
  BY <1>1, <1>2, <1>4
<1>5. CASE i.vex \notin Intake!VexSuppressed
  <2>1. Intake!Plans(i) = {Vulnerable(told(ref), f) : ref \in Intake!Affected(i)}
    BY <1>1, <1>2, <1>3, <1>5
  <2> QED
    BY <1>3, <1>5, <2>1 DEF Says, f
<1> QED
  BY <1>4, <1>5

\* SPDX.
LEMMA SpdxPlans ==
  ASSUME NEW i, i.fmt = "spdx"
  PROVE  /\ i.advisories = {} => Intake!Plans(i) = {}
         /\ i.advisories # {} => \E p : /\ Intake!Plans(i) = {p}
                                        /\ Says(p, <<i.name, i.version>>, "fail", "unknown")
<1> DEFINE f == Intake!Field("package", i.name) \cup Intake!Field("version", i.version)
           ne == Intake!Evidence("SYFT", <<i.name, i.version>>, "unknown",
                   {"vulnerability_management", "dependency_management"}, {}, {}, {f})
           p == Vulnerable(ne, f)
<1>1. Intake!Normalize(i) = IF i.advisories = {} THEN {} ELSE {ne}
  BY DEF Intake!Normalize, Intake!FromSpdx
<1>2. Intake!Plans(i) = UNION {Intake!PlanForEvidence(x) : x \in Intake!Normalize(i)}
  BY OpenPlans
<1>3. /\ ne.asset = <<i.name, i.version>> /\ ne.severity = "unknown" /\ ne.controls = {}
      /\ "vulnerability_management" \in ne.concepts /\ ne.findings = {f}
  BY DEF Intake!Evidence
<1> HIDE DEF ne, f
<1>4. Intake!PlanForEvidence(ne) = {p}
  BY <1>3, FindingPlans
<1>5. Says(p, <<i.name, i.version>>, "fail", "unknown")
  BY <1>3 DEF Vulnerable, Intake!Plan, Says
<1> HIDE DEF p
<1> QED
  BY <1>1, <1>2, <1>4, <1>5

\* STIX.
LEMMA StixPlans ==
  ASSUME NEW i, i.fmt = "stix"
  PROVE  /\ i.type # "vulnerability" => Intake!Plans(i) = {}
         /\ i.type = "vulnerability" =>
              \E p : /\ Intake!Plans(i) = {p}
                     /\ Says(p, None, "fail", Intake!StixSeverity(i))
                     /\ p.external = <<"STIX", Intake!FindingKey(Intake!Field("cve", i.cve)
                                                                 \cup Intake!Field("stix_id", i.id))>>
<1> DEFINE f == Intake!Field("cve", i.cve) \cup Intake!Field("stix_id", i.id)
           ne == Intake!Evidence("STIX", None, Intake!StixSeverity(i), Intake!TypeConcepts[i.type],
                                 {}, {}, {f})
           p == Vulnerable(ne, f)
           known == i.type \in DOMAIN Intake!TypeConcepts
<1>1. Intake!Normalize(i) = IF known THEN {ne} ELSE {}
  BY DEF Intake!Normalize, Intake!FromStix
<1>2. Intake!Plans(i) = UNION {Intake!PlanForEvidence(x) : x \in Intake!Normalize(i)}
  BY OpenPlans
<1>3. /\ ne.source = "STIX" /\ ne.asset = None /\ ne.severity = Intake!StixSeverity(i) /\ ne.controls = {}
      /\ ne.flags = {} /\ ne.concepts = Intake!TypeConcepts[i.type] /\ ne.findings = {f}
  BY DEF Intake!Evidence
<1>4. /\ known => ("vulnerability_management" \in Intake!TypeConcepts[i.type] <=> i.type = "vulnerability")
      /\ i.type = "vulnerability" => known
  BY DEF Intake!TypeConcepts
<1> HIDE DEF ne, f, known
<1>5. CASE ~ known
  BY <1>1, <1>2, <1>4, <1>5
<1>6. CASE known /\ i.type # "vulnerability"
  <2>1. Intake!PlanForEvidence(ne) = {}
    BY <1>3, <1>4, <1>6, NoPlans
  <2> QED
    BY <1>1, <1>2, <1>6, <2>1
<1>7. CASE i.type = "vulnerability"
  <2>1. Intake!PlanForEvidence(ne) = {p}
    BY <1>3, <1>4, <1>7, FindingPlans
  <2>2. Says(p, None, "fail", Intake!StixSeverity(i)) /\ p.external = <<"STIX", Intake!FindingKey(f)>>
    BY <1>3 DEF Vulnerable, Intake!Plan, Says
  <2> HIDE DEF p
  <2>3. Intake!Plans(i) = {p}
    BY <1>1, <1>2, <1>4, <1>7, <2>1
  <2> QED
    BY <1>7, <2>2, <2>3 DEF f
<1> QED
  BY <1>5, <1>6, <1>7

\* in-toto and Sigstore.
LEMMA IntotoPlans ==
  ASSUME NEW i, i.fmt = "intoto"
  PROVE  /\ ~ (i.statement /\ Intake!IsSigned(i)) => Intake!Plans(i) = {}
         /\ i.statement /\ Intake!IsSigned(i) =>
              \E p : Intake!Plans(i) = {p} /\ Says(p, i.subject, "pass", "info")
<1> DEFINE concepts == {"supply_chain_security", "secure_development"}
           sealed == Intake!IsSigned(i)
           flags == IF sealed THEN {"build_provenance"} ELSE {}
           ne == Intake!Evidence(Intake!Builder(i), i.subject, "info", concepts, flags, {}, {})
           p == Attested(ne, "build_provenance")
<1>1. Intake!Normalize(i) = IF ~ i.statement THEN {} ELSE {ne}
  BY DEF Intake!Normalize, Intake!FromIntoto
<1>2. Intake!Plans(i) = UNION {Intake!PlanForEvidence(x) : x \in Intake!Normalize(i)}
  BY OpenPlans
<1>3. /\ ne.asset = i.subject /\ ne.controls = {} /\ ne.findings = {} /\ ne.flags = flags
      /\ ne.concepts = concepts
  BY DEF Intake!Evidence
<1>4. "build_provenance" \in DOMAIN Intake!Attests /\ Intake!Attests["build_provenance"][1] \in concepts
  BY DEF Intake!Attests
<1> HIDE DEF ne, concepts, sealed
<1>5. CASE ~ i.statement
  BY <1>1, <1>2, <1>5
<1>6. CASE i.statement /\ ~ sealed
  <2>1. Intake!PlanForEvidence(ne) = {}
    BY <1>3, <1>6, NoPlans
  <2> QED
    BY <1>1, <1>2, <1>6, <2>1 DEF sealed
<1>7. CASE i.statement /\ sealed
  <2>1. Intake!PlanForEvidence(ne) = {p}
    BY <1>3, <1>4, <1>7, AttestPlans
  <2>2. Says(p, i.subject, "pass", "info")
    BY <1>3 DEF Attested, Intake!Plan, Says
  <2> HIDE DEF p
  <2> QED
    BY <1>1, <1>2, <1>7, <2>1, <2>2 DEF sealed
<1> QED
  BY <1>5, <1>6, <1>7

LEMMA SigstorePlans ==
  ASSUME NEW i, i.fmt = "sigstore"
  PROVE  /\ ~ (i.enveloped /\ (i.signatures # {} \/ i.certificate)) => Intake!Plans(i) = {}
         /\ i.enveloped /\ (i.signatures # {} \/ i.certificate) =>
              \E p : Intake!Plans(i) = {p} /\ Says(p, i.subject, "pass", "info")
<1> DEFINE concepts == {"data_integrity", "audit_log_protection"}
           sealed == i.enveloped /\ (i.signatures # {} \/ i.certificate)
           flags == IF sealed THEN {"evidence_signed"} ELSE {}
           ne == Intake!Evidence("SIGSTORE", i.subject, "info", concepts, flags, {}, {})
           p == Attested(ne, "evidence_signed")
<1>1. Intake!Normalize(i) = {ne}
  BY DEF Intake!Normalize, Intake!FromSigstore
<1>2. Intake!Plans(i) = UNION {Intake!PlanForEvidence(x) : x \in Intake!Normalize(i)}
  BY OpenPlans
<1>3. /\ ne.asset = i.subject /\ ne.controls = {} /\ ne.findings = {} /\ ne.flags = flags
      /\ ne.concepts = concepts
  BY DEF Intake!Evidence
<1>4. "evidence_signed" \in DOMAIN Intake!Attests /\ Intake!Attests["evidence_signed"][1] \in concepts
  BY DEF Intake!Attests
<1> HIDE DEF ne, concepts, sealed
<1>5. CASE ~ sealed
  <2>1. Intake!PlanForEvidence(ne) = {}
    BY <1>3, <1>5, NoPlans
  <2> QED
    BY <1>1, <1>2, <1>5, <2>1 DEF sealed
<1>6. CASE sealed
  <2>1. Intake!PlanForEvidence(ne) = {p}
    BY <1>3, <1>4, <1>6, AttestPlans
  <2>2. Says(p, i.subject, "pass", "info")
    BY <1>3 DEF Attested, Intake!Plan, Says
  <2> HIDE DEF p
  <2> QED
    BY <1>1, <1>2, <1>6, <2>1, <2>2 DEF sealed
<1> QED
  BY <1>5, <1>6

\* OCSF: a compliance finding of a control, and nothing else.
LEMMA OcsfPlans ==
  ASSUME NEW i, i.fmt = "ocsf"
  PROVE  /\ i.class # "compliance" \/ i.control = None => Intake!Plans(i) = {}
         /\ i.class = "compliance" /\ i.control # None =>
              \E p : /\ Intake!Plans(i) = {p}
                     /\ Says(p, i.resource,
                             IF Intake!OcsfStatus(i.status) \in {"pass", "fail"}
                             THEN Intake!OcsfStatus(i.status) ELSE "error", i.severity)
                     /\ p.external = <<"SECURITY_LAKE", i.control, i.resource>>
<1> DEFINE concepts == IF i.class = "detection" THEN {"vulnerability_management"} ELSE {}
           verdict == Intake!OcsfStatus(i.status)
           c == [ref |-> i.control, status |-> verdict, standards |-> i.standards]
           stated == i.class = "compliance" /\ i.control # None
           controls == IF stated THEN {c} ELSE {}
           ne == Intake!Evidence("SECURITY_LAKE", i.resource, i.severity, concepts, {}, controls, {})
           p == Intake!ControlPlan(ne, c)
           word == IF verdict \in {"pass", "fail"} THEN verdict ELSE "error"
<1>1. Intake!Normalize(i) = {ne}
  BY DEF Intake!Normalize, Intake!FromOcsf
<1>2. Intake!Plans(i) = UNION {Intake!PlanForEvidence(x) : x \in Intake!Normalize(i)}
  BY OpenPlans
<1>3. /\ ne.source = "SECURITY_LAKE" /\ ne.asset = i.resource /\ ne.severity = i.severity
      /\ ne.controls = controls /\ ne.findings = {} /\ ne.flags = {}
  BY DEF Intake!Evidence
<1>4. c.ref = i.control /\ c.status = verdict
  OBVIOUS
<1> HIDE DEF ne, verdict, c, stated
<1>5. CASE ~ stated
  <2>1. Intake!PlanForEvidence(ne) = {}
    BY <1>3, <1>5, NoPlans
  <2> QED
    BY <1>1, <1>2, <1>5, <2>1 DEF stated
<1>6. CASE stated
  <2>1. Intake!PlanForEvidence(ne) = {p}
    BY <1>3, <1>6 DEF Intake!PlanForEvidence
  <2>2. /\ p.asset = ne.asset /\ p.severity = ne.severity /\ p.external = <<ne.source, c.ref, ne.asset>>
        /\ p.status = IF c.status \in {"pass", "fail"} THEN c.status ELSE "error"
    BY DEF Intake!ControlPlan, Intake!Plan
  <2> HIDE DEF p
  <2>3. Says(p, i.resource, word, i.severity) /\ p.external = <<"SECURITY_LAKE", i.control, i.resource>>
    BY <1>3, <1>4, <2>2 DEF Says
  <2>4. Intake!Plans(i) = {p}
    BY <1>1, <1>2, <2>1
  <2> QED
    BY <1>6, <2>3, <2>4 DEF stated, verdict
<1> QED
  BY <1>5, <1>6

\* A scanner's report, and Security Hub.
LEMMA ReportPlans ==
  ASSUME NEW i, i.fmt = "report"
  PROVE  \E p : /\ Intake!Plans(i) = {p}
                /\ Says(p, i.asset, Intake!Status(i.status), i.severity) /\ p.control = i.control
                /\ p.external = IF i.id # None THEN <<i.id>> ELSE <<i.control, i.asset, i.status>>
<1> DEFINE named == IF i.id # None THEN <<i.id>> ELSE <<i.control, i.asset, i.status>>
           p == [framework |-> "NIST", control |-> i.control, source |-> "PROWLER", asset |-> i.asset,
                 status |-> Intake!Status(i.status), severity |-> i.severity, external |-> named]
<1>1. Intake!Plans(i) = {p}
  BY DEF Intake!Plans, Intake!FromReport
<1>2. Says(p, i.asset, Intake!Status(i.status), i.severity) /\ p.control = i.control /\ p.external = named
  BY DEF Says
<1> HIDE DEF p
<1> QED
  BY <1>1, <1>2

LEMMA HubPlans ==
  ASSUME NEW i, i.fmt = "asff"
  PROVE  \E p : /\ Intake!Plans(i) = {p}
                /\ Says(p, i.asset, Intake!Status(i.status), i.severity) /\ p.control = i.control
                /\ p.external = <<i.id>>
<1> DEFINE p == [framework |-> "NIST", control |-> i.control, source |-> "SECURITYHUB", asset |-> i.asset,
                 status |-> Intake!Status(i.status), severity |-> i.severity, external |-> <<i.id>>]
<1>1. Intake!Plans(i) = {p}
  BY DEF Intake!Plans, Intake!FromSecurityHub
<1>2. Says(p, i.asset, Intake!Status(i.status), i.severity) /\ p.control = i.control /\ p.external = <<i.id>>
  BY DEF Says
<1> HIDE DEF p
<1> QED
  BY <1>1, <1>2

-----------------------------------------------------------------------------
(* Standards: severities.                                                   *)

LEMMA Ranked ==
  ASSUME NEW w
  PROVE  /\ Intake!Rank(w) \in 0..5
         /\ Intake!Rank(Intake!Severity(w)) >= Intake!Rank(w)
         /\ Intake!Rank(w) > 0 => Intake!Severities[Intake!Rank(w)] = w
<1> DEFINE list == Intake!Severities
<1>1. /\ list[1] = "info" /\ list[2] = "low" /\ list[3] = "medium" /\ list[4] = "high"
      /\ list[5] = "critical" /\ DOMAIN list = 1..5
  BY DEF Intake!Severities
<1> HIDE DEF list
<1>2. /\ Intake!Rank(w) \in 0..5 /\ (Intake!Rank(w) > 0 => list[Intake!Rank(w)] = w)
  BY <1>1 DEF Intake!Rank, list
<1>3. Intake!Rank("medium") = 3
  <2>1. PICK k \in 1..5 : k = Intake!Rank("medium") /\ list[k] = "medium"
    BY <1>1 DEF Intake!Rank, list
  <2> QED
    BY <1>1, <2>1
<1>4. Intake!Rank(Intake!Severity(w)) >= Intake!Rank(w)
  BY <1>2, <1>3 DEF Intake!Severity
<1> QED
  BY <1>2, <1>4 DEF list

LEMMA RankedNth ==
  ASSUME NEW n \in 1..5
  PROVE  Intake!Rank(Intake!Severities[n]) = n
<1> DEFINE list == Intake!Severities
<1>1. /\ list[1] = "info" /\ list[2] = "low" /\ list[3] = "medium" /\ list[4] = "high"
      /\ list[5] = "critical" /\ DOMAIN list = 1..5
  BY DEF Intake!Severities
<1> HIDE DEF list
<1>2. \A m \in 1..5 : list[m] = list[n] => m = n
  BY <1>1
<1>3. Intake!Rank(list[n]) \in 1..5 /\ list[Intake!Rank(list[n])] = list[n]
  BY <1>1 DEF Intake!Rank, list
<1> QED
  BY <1>2, <1>3 DEF list

\* The worst rating of a vulnerability.
LEMMA WorstRating ==
  ASSUME NEW i, NEW s \in i.ratings
  PROVE  Intake!Rank(Intake!VulnSeverity(i)) >= Intake!Rank(s)
<1> DEFINE ranks == {Intake!Rank(r) : r \in i.ratings} \ {0}
           top == CHOOSE n \in ranks : \A m \in ranks : m <= n
<1>1. Intake!VulnSeverity(i) = IF ranks = {} THEN "unknown" ELSE Intake!Severities[top]
  BY DEF Intake!VulnSeverity
<1>2. /\ ranks \subseteq 1..5 /\ Intake!Rank(s) \in 0..5
      /\ Intake!Rank(s) # 0 => Intake!Rank(s) \in ranks
  BY Ranked
<1> HIDE DEF ranks
<1>3. Intake!Rank(Intake!VulnSeverity(i)) \in 0..5
  BY Ranked
<1>4. CASE Intake!Rank(s) = 0
  BY <1>2, <1>3, <1>4
<1>5. CASE Intake!Rank(s) # 0
  <2>1. \E n \in ranks : \A m \in ranks : m <= n
    <3>1. 5 \in ranks \/ 4 \in ranks \/ 3 \in ranks \/ 2 \in ranks \/ 1 \in ranks
      BY <1>2, <1>5
    <3> QED
      BY <1>2, <3>1
  <2>2. top \in ranks /\ \A m \in ranks : m <= top
    BY <2>1
  <2> HIDE DEF top
  <2>3. Intake!Rank(s) <= top /\ top \in 1..5
    BY <1>2, <1>5, <2>2
  <2>4. Intake!VulnSeverity(i) = Intake!Severities[top]
    BY <1>1, <1>2, <1>5
  <2> QED
    BY <2>3, <2>4, RankedNth
<1> QED
  BY <1>4, <1>5

-----------------------------------------------------------------------------
(* Standards: a plan says what its item states, and every verdict an item   *)
(* states is planned.                                                       *)

\* What SARIF results and their plans come to.
Places(i) == Intake!Field("rule_id", i.rule) \cup Intake!Field("location", i.uri)
             \cup Intake!Field("line", i.line) \cup Intake!Field("fingerprint", i.fingerprint)

LEMMA SarifSays ==
  ASSUME NEW i, i.fmt = "sarif", Intake!WellFormed(i)
  PROVE  /\ ~ (Intake!Open(i) /\ "cve" \in i.tags) => Intake!Plans(i) = {}
         /\ Intake!Open(i) /\ "cve" \in i.tags =>
              \E p : /\ Intake!Plans(i) = {p}
                     /\ Says(p, i.uri, "fail", Intake!ResultSeverity(i))
                     /\ p.external = <<"CODEQL", Intake!FindingKey(Places(i))>>
<1> DEFINE ne == Intake!Result(i)
           p == Vulnerable(ne, Places(i))
           visible == i.kind \notin Intake!NonFindingKinds /\ ~ Intake!IsSuppressed(i)
<1>1. /\ i.kind \in Intake!NonFindingKinds \cup {"fail"} /\ i.tags \subseteq DOMAIN Intake!TagConcepts
      /\ Intake!Exported(i) => i.tags = {}
  BY DEF Intake!WellFormed
<1>2. "cve" \in i.tags => (Intake!Open(i) <=> visible)
  BY <1>1 DEF Intake!Open, Intake!IsSuppressed, Intake!NonFindingKinds
<1>3. /\ ne.source = "CODEQL" /\ ne.asset = i.uri /\ ne.severity = Intake!ResultSeverity(i)
      /\ ne.findings = {Places(i)}
  BY DEF Intake!Result, Intake!Evidence, Places
<1> HIDE DEF ne
<1>4. Says(p, i.uri, "fail", Intake!ResultSeverity(i))
      /\ p.external = <<"CODEQL", Intake!FindingKey(Places(i))>>
  BY <1>3 DEF Vulnerable, Intake!Plan, Says
<1>5. visible /\ "cve" \in i.tags => Intake!Plans(i) = {p}
  BY <1>1, <1>3, SarifPlans DEF ne
<1>6. ~ (visible /\ "cve" \in i.tags) => Intake!Plans(i) = {}
  BY <1>1, SarifPlans
<1> HIDE DEF p, visible
<1> QED
  BY <1>2, <1>4, <1>5, <1>6

LEMMA OcsfDecides ==
  ASSUME NEW i, i.fmt = "ocsf", Intake!WellFormed(i)
  PROVE  (IF Intake!Decision(i) \in {"pass", "fail"} THEN Intake!Decision(i) ELSE "error")
         = IF Intake!OcsfStatus(i.status) \in {"pass", "fail"} THEN Intake!OcsfStatus(i.status) ELSE "error"
<1>1. CASE ~ Intake!Exported(i)
  BY <1>1 DEF Intake!Decision
<1>2. CASE Intake!Exported(i)
  <2>1. i.status = CASE i.origin = "pass" -> "pass" [] i.origin = "fail" -> "fail" [] OTHER -> "other"
    BY <1>2 DEF Intake!WellFormed
  <2>2. Intake!Decision(i) = i.origin
    BY <1>2 DEF Intake!Decision
  <2> QED
    BY <2>1, <2>2 DEF Intake!OcsfStatus
<1> QED
  BY <1>1, <1>2

LEMMA PlansSay ==
  ASSUME NEW i, Intake!WellFormed(i), None \notin Intake!VexSuppressed, NEW p \in Intake!Plans(i)
  PROVE  /\ <<p.asset, p.status>> \in Intake!States(i) \/ Intake!Hollow(i)
         /\ \A s \in Intake!WorstOf(i) :
              Intake!Rank(Intake!Severity(p.severity)) >= Intake!Rank(s)
<1>1. CASE i.fmt = "sarif"
  <2>1. p.asset = i.uri /\ p.status = "fail" /\ Intake!Open(i) /\ "cve" \in i.tags
    BY <1>1, SarifSays DEF Says
  <2> QED
    BY <1>1, <2>1 DEF Intake!States, Intake!WorstOf
<1>2. CASE i.fmt = "cyclonedx"
  <2>1. Intake!Active(i) \/ i.vex \in Intake!VexSuppressed
    BY <1>2 DEF Intake!WellFormed
  <2>2. i.vex \notin Intake!VexSuppressed
    BY <1>2, CyclonedxPlans
  <2>3. PICK ref \in Intake!Affected(i) : Says(p, ref, "fail", Intake!VulnSeverity(i))
    BY <1>2, <2>2, CyclonedxPlans
  <2>4. <<p.asset, p.status>> \in Intake!States(i)
    BY <1>2, <2>1, <2>2, <2>3 DEF Intake!States, Says
  <2>5. Intake!WorstOf(i) = i.ratings
    BY <1>2 DEF Intake!WorstOf
  <2>6. \A s \in i.ratings : Intake!Rank(p.severity) >= Intake!Rank(s)
    BY <2>3, WorstRating DEF Says
  <2>7. /\ Intake!Rank(Intake!Severity(p.severity)) \in 0..5 /\ Intake!Rank(p.severity) \in 0..5
        /\ Intake!Rank(Intake!Severity(p.severity)) >= Intake!Rank(p.severity)
        /\ \A s \in i.ratings : Intake!Rank(s) \in 0..5
    BY Ranked
  <2> QED
    BY <2>4, <2>5, <2>6, <2>7
<1>3. CASE i.fmt = "spdx"
  <2>1. p.asset = <<i.name, i.version>> /\ p.status = "fail" /\ i.advisories # {}
    BY <1>3, SpdxPlans DEF Says
  <2> QED
    BY <1>3, <2>1 DEF Intake!States, Intake!WorstOf
<1>4. CASE i.fmt = "stix"
  <2>1. p.asset = None /\ p.status = "fail" /\ i.type = "vulnerability"
    BY <1>4, StixPlans DEF Says
  <2> QED
    BY <1>4, <2>1 DEF Intake!States, Intake!WorstOf
<1>5. CASE i.fmt = "intoto"
  <2>1. p.asset = i.subject /\ p.status = "pass" /\ i.statement /\ Intake!IsSigned(i)
    BY <1>5, IntotoPlans DEF Says
  <2> QED
    BY <1>5, <2>1 DEF Intake!States, Intake!WorstOf
<1>6. CASE i.fmt = "sigstore"
  <2>1. p.asset = i.subject /\ p.status = "pass" /\ i.enveloped
    BY <1>6, SigstorePlans DEF Says
  <2> QED
    BY <1>6, <2>1 DEF Intake!States, Intake!WorstOf, Intake!Hollow
<1>7. CASE i.fmt = "ocsf"
  <2>1. /\ p.asset = i.resource /\ p.severity = i.severity /\ i.class = "compliance" /\ i.control # None
        /\ p.status = IF Intake!OcsfStatus(i.status) \in {"pass", "fail"}
                      THEN Intake!OcsfStatus(i.status) ELSE "error"
    BY <1>7, OcsfPlans DEF Says
  <2>2. p.status = IF Intake!Decision(i) \in {"pass", "fail"} THEN Intake!Decision(i) ELSE "error"
    BY <1>7, <2>1, OcsfDecides
  <2>3. <<p.asset, p.status>> \in Intake!States(i)
    BY <1>7, <2>1, <2>2 DEF Intake!States
  <2>4. Intake!WorstOf(i) = {i.severity}
    BY <1>7 DEF Intake!WorstOf
  <2>5. Intake!Rank(Intake!Severity(i.severity)) >= Intake!Rank(i.severity)
    BY Ranked
  <2> QED
    BY <2>1, <2>3, <2>4, <2>5
<1>8. CASE i.fmt \in {"report", "asff"}
  <2>1. p.asset = i.asset /\ p.severity = i.severity /\ p.status = Intake!Status(i.status)
    BY <1>8, ReportPlans, HubPlans DEF Says
  <2>2. Intake!WorstOf(i) = {i.severity}
    BY <1>8 DEF Intake!WorstOf
  <2>3. Intake!Rank(Intake!Severity(i.severity)) >= Intake!Rank(i.severity)
    BY Ranked
  <2> QED
    BY <1>8, <2>1, <2>2, <2>3 DEF Intake!States
<1> QED
  BY <1>1, <1>2, <1>3, <1>4, <1>5, <1>6, <1>7, <1>8 DEF Intake!WellFormed

LEMMA StatesArePlanned ==
  ASSUME NEW i, Intake!WellFormed(i), None \notin Intake!VexSuppressed, NEW v \in Intake!States(i)
  PROVE  \E p \in Intake!Plans(i) : p.asset = v[1] /\ p.status = v[2]
<1>1. CASE i.fmt = "sarif"
  <2>1. v = <<i.uri, "fail">> /\ Intake!Open(i) /\ "cve" \in i.tags
    BY <1>1 DEF Intake!States
  <2> QED
    BY <1>1, <2>1, SarifSays DEF Says
<1>2. CASE i.fmt = "cyclonedx"
  <2>1. Intake!Active(i) /\ v \in Intake!Affected(i) \X {"fail"}
    BY <1>2 DEF Intake!States
  <2>2. i.vex \notin Intake!VexSuppressed
    BY <2>1 DEF Intake!Active, Intake!VexSuppressed
  <2>3. v[1] \in Intake!Affected(i) /\ v[2] = "fail"
    BY <2>1
  <2>4. PICK p \in Intake!Plans(i) : p.asset = v[1]
    BY <1>2, <2>2, <2>3, CyclonedxPlans
  <2>5. p.status = "fail"
    BY <1>2, <2>2, CyclonedxPlans DEF Says
  <2> QED
    BY <2>3, <2>4, <2>5
<1>3. CASE i.fmt = "spdx"
  <2>1. i.advisories # {} /\ v = <<<<i.name, i.version>>, "fail">>
    BY <1>3 DEF Intake!States
  <2> QED
    BY <1>3, <2>1, SpdxPlans DEF Says
<1>4. CASE i.fmt = "stix"
  <2>1. i.type = "vulnerability" /\ v = <<None, "fail">>
    BY <1>4 DEF Intake!States
  <2> QED
    BY <1>4, <2>1, StixPlans DEF Says
<1>5. CASE i.fmt = "intoto"
  <2>1. i.statement /\ Intake!IsSigned(i) /\ v = <<i.subject, "pass">>
    BY <1>5 DEF Intake!States
  <2> QED
    BY <1>5, <2>1, IntotoPlans DEF Says
<1>6. CASE i.fmt = "sigstore"
  <2>1. i.enveloped /\ i.signatures # {} /\ v = <<i.subject, "pass">>
    BY <1>6 DEF Intake!States
  <2> QED
    BY <1>6, <2>1, SigstorePlans DEF Says
<1>7. CASE i.fmt = "ocsf"
  <2> DEFINE word == IF Intake!Decision(i) \in {"pass", "fail"} THEN Intake!Decision(i) ELSE "error"
  <2>1. i.class = "compliance" /\ i.control # None /\ v = <<i.resource, word>>
    BY <1>7 DEF Intake!States
  <2>2. word = IF Intake!OcsfStatus(i.status) \in {"pass", "fail"}
               THEN Intake!OcsfStatus(i.status) ELSE "error"
    BY <1>7, OcsfDecides
  <2> HIDE DEF word
  <2>3. PICK p \in Intake!Plans(i) :
               p.asset = i.resource /\ p.status = IF Intake!OcsfStatus(i.status) \in {"pass", "fail"}
                                                  THEN Intake!OcsfStatus(i.status) ELSE "error"
    BY <1>7, <2>1, OcsfPlans DEF Says
  <2> QED
    BY <2>1, <2>2, <2>3
<1>8. CASE i.fmt \in {"report", "asff"}
  <2>1. v = <<i.asset, Intake!Status(i.status)>>
    BY <1>8 DEF Intake!States
  <2> QED
    BY <1>8, <2>1, ReportPlans, HubPlans DEF Says
<1> QED
  BY <1>1, <1>2, <1>3, <1>4, <1>5, <1>6, <1>7, <1>8 DEF Intake!WellFormed

-----------------------------------------------------------------------------
(* Standards: the key of a finding tells it from the others.                *)

\* The values a finding has under a name.
Under(f, name) == {x[2] : x \in {y \in f : y[1] = name}} \ {Intake!Blank}

LEMMA KeyOfNth ==
  ASSUME NEW f, NEW n \in 1..4, Under(f, Intake!Identifiers[n]) # {},
         \A m \in 1..4 : m < n => Under(f, Intake!Identifiers[m]) = {}
  PROVE  Intake!FindingKey(f) = Under(f, Intake!Identifiers[n])
<1> DEFINE ids == {k \in DOMAIN Intake!Identifiers : Under(f, Intake!Identifiers[k]) # {}}
           first == CHOOSE k \in ids : \A m \in ids : k <= m
<1>1. DOMAIN Intake!Identifiers = 1..4
  BY DEF Intake!Identifiers
<1>2. Intake!FindingKey(f) = IF ids # {} THEN Under(f, Intake!Identifiers[first])
                             ELSE {x \in f : x[1] \in Intake!Composite}
  BY DEF Intake!FindingKey, Under
<1>3. n \in ids /\ \A m \in ids : n <= m
  BY <1>1
<1>4. ids \subseteq 1..4
  BY <1>1
<1>5. first \in ids /\ \A m \in ids : first <= m
  BY <1>3
<1> HIDE DEF ids, first
<1>6. first = n
  BY <1>3, <1>4, <1>5
<1> QED
  BY <1>2, <1>3, <1>6

LEMMA KeyOfPlaces ==
  ASSUME NEW f, \A n \in 1..4 : Under(f, Intake!Identifiers[n]) = {}
  PROVE  Intake!FindingKey(f) = {x \in f : x[1] \in Intake!Composite}
<1> DEFINE ids == {k \in DOMAIN Intake!Identifiers : Under(f, Intake!Identifiers[k]) # {}}
           first == CHOOSE k \in ids : \A m \in ids : k <= m
<1>1. DOMAIN Intake!Identifiers = 1..4
  BY DEF Intake!Identifiers
<1>2. Intake!FindingKey(f) = IF ids # {} THEN Under(f, Intake!Identifiers[first])
                             ELSE {x \in f : x[1] \in Intake!Composite}
  BY DEF Intake!FindingKey, Under
<1>3. ids = {}
  BY <1>1
<1> HIDE DEF ids, first
<1> QED
  BY <1>2, <1>3

LEMMA TheIdentifiers ==
  /\ Intake!Identifiers[1] = "cve" /\ Intake!Identifiers[2] = "id"
  /\ Intake!Identifiers[3] = "stix_id" /\ Intake!Identifiers[4] = "fingerprint"
<1> DEFINE list == Intake!Identifiers
<1>1. list[1] = "cve" /\ list[2] = "id" /\ list[3] = "stix_id" /\ list[4] = "fingerprint"
  BY DEF Intake!Identifiers
<1> QED
  BY <1>1

LEMMA UnderField ==
  ASSUME NEW name, NEW value, NEW other
  PROVE  Under(Intake!Field(name, value), other) =
           IF other = name /\ value # None THEN {value} \ {Intake!Blank} ELSE {}
<1>1. CASE value = None
  BY <1>1 DEF Under, Intake!Field
<1>2. CASE value # None
  <2> DEFINE named == {y \in {<<name, value>>} : y[1] = other}
  <2>1. Under(Intake!Field(name, value), other) = {x[2] : x \in named} \ {Intake!Blank}
    BY <1>2 DEF Under, Intake!Field
  <2>2. named = IF other = name THEN {<<name, value>>} ELSE {}
    OBVIOUS
  <2>3. {x[2] : x \in {<<name, value>>}} = {value} /\ {x[2] : x \in {}} = {}
    OBVIOUS
  <2> HIDE DEF named
  <2>4. CASE other = name
    BY <1>2, <2>1, <2>2, <2>3, <2>4
  <2>5. CASE other # name
    BY <1>2, <2>1, <2>2, <2>3, <2>5
  <2> QED
    BY <2>4, <2>5
<1> QED
  BY <1>1, <1>2

LEMMA UnderBoth ==
  ASSUME NEW f, NEW g, NEW other
  PROVE  Under(f \cup g, other) = Under(f, other) \cup Under(g, other)
BY DEF Under

\* A vulnerability of a bill of materials.
LEMMA VulnerabilityKey ==
  ASSUME NEW name, name # None
  PROVE  Intake!FindingKey(Intake!Field("id", name)) = {name} \ {Intake!Blank}
<1> DEFINE f == Intake!Field("id", name)
<1>1. /\ Under(f, Intake!Identifiers[1]) = {} /\ Under(f, Intake!Identifiers[2]) = {name} \ {Intake!Blank}
      /\ Under(f, Intake!Identifiers[3]) = {} /\ Under(f, Intake!Identifiers[4]) = {}
  BY TheIdentifiers, UnderField
<1>2. {x \in f : x[1] \in Intake!Composite} = {}
  BY DEF Intake!Field, Intake!Composite
<1> HIDE DEF f
<1>3. CASE name = Intake!Blank
  <2>1. \A n \in 1..4 : Under(f, Intake!Identifiers[n]) = {}
    BY <1>1, <1>3
  <2>2. Intake!FindingKey(f) = {}
    BY <1>2, <2>1, KeyOfPlaces
  <2> QED
    BY <1>3, <2>2 DEF f
<1>4. CASE name # Intake!Blank
  <2>1. Under(f, Intake!Identifiers[2]) # {} /\ \A m \in 1..4 : m < 2 => Under(f, Intake!Identifiers[m]) = {}
    BY <1>1, <1>4
  <2>2. Intake!FindingKey(f) = Under(f, Intake!Identifiers[2])
    BY <2>1, KeyOfNth
  <2> QED
    BY <1>1, <2>2 DEF f
<1> QED
  BY <1>3, <1>4

\* An object of threat intelligence.
LEMMA ObjectKey ==
  ASSUME NEW cve, NEW name, name # Intake!Blank, name # None
  PROVE  Intake!FindingKey(Intake!Field("cve", cve) \cup Intake!Field("stix_id", name)) =
           IF cve \notin {None, Intake!Blank} THEN {cve} ELSE {name}
<1> DEFINE f == Intake!Field("cve", cve) \cup Intake!Field("stix_id", name)
           named == cve \notin {None, Intake!Blank}
<1>1. /\ Under(f, Intake!Identifiers[1]) = IF named THEN {cve} ELSE {}
      /\ Under(f, Intake!Identifiers[2]) = {} /\ Under(f, Intake!Identifiers[3]) = {name}
  <2>1. \A k : Under(f, k) = Under(Intake!Field("cve", cve), k) \cup Under(Intake!Field("stix_id", name), k)
    BY UnderBoth
  <2>2. /\ \A k : Under(Intake!Field("cve", cve), k) =
                    IF k = "cve" /\ cve # None THEN {cve} \ {Intake!Blank} ELSE {}
        /\ \A k : Under(Intake!Field("stix_id", name), k) =
                    IF k = "stix_id" /\ name # None THEN {name} \ {Intake!Blank} ELSE {}
    BY UnderField
  <2> HIDE DEF f
  <2>3. Under(f, "cve") = IF named THEN {cve} ELSE {}
    BY <2>1, <2>2
  <2>4. Under(f, "id") = {} /\ Under(f, "stix_id") = {name}
    BY <2>1, <2>2
  <2> QED
    BY <2>3, <2>4, TheIdentifiers
<1> HIDE DEF f, named
<1>2. CASE named
  <2>1. Under(f, Intake!Identifiers[1]) = {cve} /\ \A m \in 1..4 : m < 1 => Under(f, Intake!Identifiers[m]) = {}
    BY <1>1, <1>2
  <2>2. Intake!FindingKey(f) = {cve}
    BY <2>1, KeyOfNth
  <2> QED
    BY <1>2, <2>2 DEF f, named
<1>3. CASE ~ named
  <2>1. Under(f, Intake!Identifiers[3]) = {name} /\ \A m \in 1..4 : m < 3 => Under(f, Intake!Identifiers[m]) = {}
    BY <1>1, <1>3
  <2>2. Intake!FindingKey(f) = {name}
    BY <2>1, KeyOfNth
  <2> QED
    BY <1>3, <2>2 DEF f, named
<1> QED
  BY <1>2, <1>3

\* A result of a code scan.
LEMMA PlacesKey ==
  ASSUME NEW i
  PROVE  Intake!FindingKey(Places(i)) =
           IF i.fingerprint \notin {None, Intake!Blank} THEN {i.fingerprint}
           ELSE {x \in Places(i) : x[1] \in Intake!Composite}
<1> DEFINE f == Places(i)
<1>1. /\ Under(f, Intake!Identifiers[1]) = {} /\ Under(f, Intake!Identifiers[2]) = {}
      /\ Under(f, Intake!Identifiers[3]) = {}
      /\ Under(f, Intake!Identifiers[4]) = IF i.fingerprint # None THEN {i.fingerprint} \ {Intake!Blank} ELSE {}
  <2>1. \A name : Under(f, name) =
          ((Under(Intake!Field("rule_id", i.rule), name) \cup Under(Intake!Field("location", i.uri), name))
           \cup Under(Intake!Field("line", i.line), name))
          \cup Under(Intake!Field("fingerprint", i.fingerprint), name)
    <3> DEFINE two == Intake!Field("rule_id", i.rule) \cup Intake!Field("location", i.uri)
               three == two \cup Intake!Field("line", i.line)
    <3>1. \A name : Under(two, name) =
            Under(Intake!Field("rule_id", i.rule), name) \cup Under(Intake!Field("location", i.uri), name)
      BY UnderBoth
    <3>2. f = three \cup Intake!Field("fingerprint", i.fingerprint)
      BY DEF Places
    <3> HIDE DEF two, f
    <3>3. \A name : Under(three, name) = Under(two, name) \cup Under(Intake!Field("line", i.line), name)
      BY UnderBoth
    <3> HIDE DEF three
    <3>4. \A name : Under(f, name) = Under(three, name) \cup Under(Intake!Field("fingerprint", i.fingerprint), name)
      BY <3>2, UnderBoth
    <3> QED
      BY <3>1, <3>3, <3>4
  <2>2. \A other, value : Under(Intake!Field("rule_id", value), other) # {} => other = "rule_id"
    BY UnderField
  <2>3. \A other, value : Under(Intake!Field("location", value), other) # {} => other = "location"
    BY UnderField
  <2>4. \A other, value : Under(Intake!Field("line", value), other) # {} => other = "line"
    BY UnderField
  <2>5. \A other : Under(Intake!Field("fingerprint", i.fingerprint), other) =
          IF other = "fingerprint" /\ i.fingerprint # None THEN {i.fingerprint} \ {Intake!Blank} ELSE {}
    BY UnderField
  <2> HIDE DEF f
  <2>6. Under(f, "cve") = {} /\ Under(f, "id") = {} /\ Under(f, "stix_id") = {}
    BY <2>1, <2>2, <2>3, <2>4, <2>5
  <2>7. Under(f, "fingerprint") = IF i.fingerprint # None THEN {i.fingerprint} \ {Intake!Blank} ELSE {}
    BY <2>1, <2>2, <2>3, <2>4, <2>5
  <2> QED
    BY <2>6, <2>7, TheIdentifiers
<1> HIDE DEF f
<1>2. CASE i.fingerprint \notin {None, Intake!Blank}
  <2>1. Under(f, Intake!Identifiers[4]) = {i.fingerprint}
        /\ \A m \in 1..4 : m < 4 => Under(f, Intake!Identifiers[m]) = {}
    BY <1>1, <1>2
  <2>2. Intake!FindingKey(f) = {i.fingerprint}
    BY <2>1, KeyOfNth
  <2> QED
    BY <1>2, <2>2 DEF f
<1>3. CASE i.fingerprint \in {None, Intake!Blank}
  <2>1. \A n \in 1..4 : Under(f, Intake!Identifiers[n]) = {}
    BY <1>1, <1>3
  <2>2. Intake!FindingKey(f) = {x \in f : x[1] \in Intake!Composite}
    BY <2>1, KeyOfPlaces
  <2> QED
    BY <1>3, <2>2 DEF f
<1> QED
  BY <1>2, <1>3

LEMMA PlacesTell ==
  ASSUME NEW i, NEW j,
         {x \in Places(i) : x[1] \in Intake!Composite} = {x \in Places(j) : x[1] \in Intake!Composite}
  PROVE  i.rule = j.rule /\ i.line = j.line
<1>1. /\ \A v : <<"rule_id", v>> \in Places(i) <=> v = i.rule /\ v # None
      /\ \A v : <<"rule_id", v>> \in Places(j) <=> v = j.rule /\ v # None
      /\ \A v : <<"line", v>> \in Places(i) <=> v = i.line /\ v # None
      /\ \A v : <<"line", v>> \in Places(j) <=> v = j.line /\ v # None
  BY DEF Places, Intake!Field
<1>2. /\ \A v : <<"rule_id", v>>[1] \in Intake!Composite
      /\ \A v : <<"line", v>>[1] \in Intake!Composite
  BY DEF Intake!Composite
<1>3. /\ \A v : <<"rule_id", v>> \in Places(i) <=> <<"rule_id", v>> \in Places(j)
      /\ \A v : <<"line", v>> \in Places(i) <=> <<"line", v>> \in Places(j)
  BY <1>2
<1>4. i.rule = j.rule
  <2>1. CASE i.rule # None
    BY <1>1, <1>3, <2>1
  <2>2. CASE j.rule # None
    BY <1>1, <1>3, <2>2
  <2> QED
    BY <2>1, <2>2
<1>5. i.line = j.line
  <2>1. CASE i.line # None
    BY <1>1, <1>3, <2>1
  <2>2. CASE j.line # None
    BY <1>1, <1>3, <2>2
  <2> QED
    BY <2>1, <2>2
<1> QED
  BY <1>4, <1>5

LEMMA OneTold ==
  ASSUME NEW a, NEW b, <<a>> = <<b>>
  PROVE  a = b
<1>1. <<a>>[1] = a /\ <<b>>[1] = b
  OBVIOUS
<1> QED
  BY <1>1

LEMMA TwoTold ==
  ASSUME NEW a, NEW b, NEW c, NEW d, <<a, b>> = <<c, d>>
  PROVE  b = d
<1>1. <<a, b>>[2] = b /\ <<c, d>>[2] = d
  OBVIOUS
<1> QED
  BY <1>1

LEMMA ThreeTold ==
  ASSUME NEW a, NEW b, NEW c, NEW d, NEW e, NEW f, <<a, b, c>> = <<d, e, f>>
  PROVE  b = e /\ c = f
<1>1. <<a, b, c>>[2] = b /\ <<d, e, f>>[2] = e /\ <<a, b, c>>[3] = c /\ <<d, e, f>>[3] = f
  OBVIOUS
<1> QED
  BY <1>1

LEMMA OneIsNotThree ==
  ASSUME NEW a, NEW b, NEW c, NEW d
  PROVE  <<a>> # <<b, c, d>>
<1>1. Len(<<a>>) = 1 /\ Len(<<b, c, d>>) = 3
  OBVIOUS
<1> QED
  BY <1>1

\* Two plans of one key: one status or one that sticks, of the same thing or
\* of one whose identity is coarser.
LEMMA KeysTell ==
  ASSUME Intake!ItemsAssumption, NEW i \in Items, NEW j \in Items, i.fmt = j.fmt,
         NEW p \in Intake!Plans(i), NEW q \in Intake!Plans(j), Intake!Key(p) = Intake!Key(q)
  PROVE  /\ p.status = q.status \/ Intake!Sticks(i)
         /\ Intake!SameThing(i, j) \/ Intake!Coarse(i)
<1>1. p.external = q.external /\ p.control = q.control /\ p.asset = q.asset
  BY DEF Intake!Key
<1>2. Intake!WellFormed(i) /\ Intake!WellFormed(j) /\ None \notin Intake!VexSuppressed
  BY DEF Intake!ItemsAssumption
<1>3. CASE i.fmt = "sarif"
  <2>1. /\ p.status = "fail" /\ p.external = <<"CODEQL", Intake!FindingKey(Places(i))>>
        /\ q.status = "fail" /\ q.external = <<"CODEQL", Intake!FindingKey(Places(j))>>
        /\ "cve" \in i.tags /\ "cve" \in j.tags
    <3>1. ASSUME NEW k, NEW x \in Intake!Plans(k), k.fmt = "sarif", Intake!WellFormed(k)
          PROVE  /\ x.status = "fail" /\ x.external = <<"CODEQL", Intake!FindingKey(Places(k))>>
                 /\ "cve" \in k.tags
      BY <3>1, SarifSays DEF Says
    <3>2. j.fmt = "sarif"
      BY <1>3
    <3> QED
      BY <1>2, <1>3, <3>1, <3>2
  <2>2. ASSUME i.fingerprint = None
        PROVE  i.rule = j.rule /\ i.line = j.line
    <3>1. Intake!FindingKey(Places(i)) = Intake!FindingKey(Places(j))
      BY <1>1, <2>1, TwoTold, ZenonT(60)
    <3>2. Intake!FindingKey(Places(i)) = {x \in Places(i) : x[1] \in Intake!Composite}
      BY <2>2, PlacesKey
    <3>3. CASE j.fingerprint \notin {None, Intake!Blank}
      <4>1. Places(i) \in Intake!Result(i).findings
        BY DEF Intake!Result, Intake!Evidence, Places
      <4>2. {j.fingerprint} # {x \in Places(i) : x[1] \in Intake!Composite}
        BY <1>3, <2>1, <3>3, <4>1 DEF Intake!ItemsAssumption
      <4> QED
        BY <3>1, <3>2, <3>3, <4>2, PlacesKey
    <3>4. CASE j.fingerprint \in {None, Intake!Blank}
      BY <3>1, <3>2, <3>4, PlacesKey, PlacesTell
    <3> QED
      BY <3>3, <3>4
  <2> QED
    BY <1>3, <2>1, <2>2 DEF Intake!SameThing, Intake!Coarse
<1>4. CASE i.fmt = "cyclonedx"
  <2>1. i.id # None /\ j.id # None
    BY <1>2, <1>4 DEF Intake!WellFormed
  <2>2. /\ p.status = "fail" /\ p.external = <<"TRIVY", Intake!FindingKey(Intake!Field("id", i.id))>>
        /\ q.status = "fail" /\ q.external = <<"TRIVY", Intake!FindingKey(Intake!Field("id", j.id))>>
    BY <1>4, CyclonedxPlans DEF Says
  <2>3. Intake!FindingKey(Intake!Field("id", i.id)) = Intake!FindingKey(Intake!Field("id", j.id))
    <3> DEFINE ki == Intake!FindingKey(Intake!Field("id", i.id))
               kj == Intake!FindingKey(Intake!Field("id", j.id))
    <3>1. p.external = <<"TRIVY", ki>> /\ q.external = <<"TRIVY", kj>>
      BY <2>2
    <3> HIDE DEF ki, kj
    <3>2. <<"TRIVY", ki>> = <<"TRIVY", kj>>
      BY <1>1, <3>1
    <3>3. ki = kj
      BY <3>2, TwoTold
    <3> QED
      BY <3>3 DEF ki, kj
  <2>4. i.id = j.id \/ i.id = Intake!Blank
    BY <2>1, <2>3, VulnerabilityKey
  <2> QED
    BY <1>4, <2>2, <2>4 DEF Intake!SameThing, Intake!Coarse
<1>5. CASE i.fmt = "spdx"
  <2>1. p.status = "fail" /\ q.status = "fail"
    BY <1>5, SpdxPlans DEF Says
  <2> QED
    BY <1>5, <2>1 DEF Intake!Coarse
<1>6. CASE i.fmt = "stix"
  <2>1. i.id # Intake!Blank /\ i.id # None /\ j.id # Intake!Blank /\ j.id # None
    BY <1>2, <1>6 DEF Intake!WellFormed
  <2>2. i.cve # j.id /\ j.cve # i.id
    BY <1>6 DEF Intake!ItemsAssumption
  <2> DEFINE kept(k) == Intake!Field("cve", k.cve) \cup Intake!Field("stix_id", k.id)
  <2>3. /\ p.status = "fail" /\ p.external = <<"STIX", Intake!FindingKey(kept(i))>>
        /\ q.status = "fail" /\ q.external = <<"STIX", Intake!FindingKey(kept(j))>>
    <3>1. ASSUME NEW k, NEW x \in Intake!Plans(k), k.fmt = "stix"
          PROVE  x.status = "fail" /\ x.external = <<"STIX", Intake!FindingKey(kept(k))>>
      BY <3>1, StixPlans DEF Says
    <3>2. j.fmt = "stix"
      BY <1>6
    <3> QED
      BY <1>6, <3>1, <3>2
  <2>4. Intake!FindingKey(kept(i)) = IF i.cve \notin {None, Intake!Blank} THEN {i.cve} ELSE {i.id}
    BY <2>1, ObjectKey
  <2>5. Intake!FindingKey(kept(j)) = IF j.cve \notin {None, Intake!Blank} THEN {j.cve} ELSE {j.id}
    BY <2>1, ObjectKey
  <2> HIDE DEF kept
  <2>6. Intake!FindingKey(kept(i)) = Intake!FindingKey(kept(j))
    <3> DEFINE ki == Intake!FindingKey(kept(i))
               kj == Intake!FindingKey(kept(j))
    <3>1. p.external = <<"STIX", ki>> /\ q.external = <<"STIX", kj>>
      BY <2>3
    <3> HIDE DEF ki, kj
    <3>2. <<"STIX", ki>> = <<"STIX", kj>>
      BY <1>1, <3>1
    <3>3. ki = kj
      BY <3>2, TwoTold
    <3> QED
      BY <3>3 DEF ki, kj
  <2>7. IF i.cve \notin {None, Intake!Blank} THEN i.cve = j.cve ELSE i.id = j.id
    BY <2>2, <2>4, <2>5, <2>6
  <2> QED
    BY <1>6, <2>3, <2>7 DEF Intake!SameThing
<1>7. CASE i.fmt = "intoto"
  <2>1. p.status = "pass" /\ q.status = "pass"
    BY <1>7, IntotoPlans DEF Says
  <2> QED
    BY <1>7, <2>1 DEF Intake!SameThing
<1>8. CASE i.fmt = "sigstore"
  <2>1. p.status = "pass" /\ q.status = "pass"
    BY <1>8, SigstorePlans DEF Says
  <2> QED
    BY <1>8, <2>1 DEF Intake!SameThing
<1>9. CASE i.fmt = "ocsf"
  <2>1. /\ p.external = <<"SECURITY_LAKE", i.control, i.resource>>
        /\ q.external = <<"SECURITY_LAKE", j.control, j.resource>>
    BY <1>9, OcsfPlans
  <2>2. <<"SECURITY_LAKE", i.control, i.resource>> = <<"SECURITY_LAKE", j.control, j.resource>>
    BY <1>1, <2>1
  <2>3. i.control = j.control
    BY <2>2, ThreeTold
  <2> QED
    BY <1>9, <2>3 DEF Intake!SameThing, Intake!Sticks
<1>10. CASE i.fmt = "report"
  <2>1. /\ p.external = IF i.id # None THEN <<i.id>> ELSE <<i.control, i.asset, i.status>>
        /\ p.control = i.control /\ p.status = Intake!Status(i.status)
        /\ q.external = IF j.id # None THEN <<j.id>> ELSE <<j.control, j.asset, j.status>>
        /\ q.control = j.control /\ q.status = Intake!Status(j.status)
    BY <1>10, ReportPlans DEF Says
  <2>2. CASE i.id # None
    <3>1. p.external = <<i.id>>
      BY <2>1, <2>2
    <3>2. CASE j.id = None
      <4>1. q.external = <<j.control, j.asset, j.status>>
        BY <2>1, <3>2
      <4> QED
        BY <1>1, <3>1, <4>1, OneIsNotThree, Zenon
    <3>3. CASE j.id # None
      <4>1. q.external = <<j.id>>
        BY <2>1, <3>3
      <4>2. i.id = j.id
        BY <1>1, <3>1, <4>1, OneTold, ZenonT(60)
      <4> QED
        BY <1>1, <1>10, <2>1, <2>2, <4>2 DEF Intake!SameThing, Intake!Sticks
    <3> QED
      BY <3>2, <3>3
  <2>3. CASE i.id = None
    <3>1. p.external = <<i.control, i.asset, i.status>>
      BY <2>1, <2>3
    <3>2. CASE j.id # None
      <4>1. q.external = <<j.id>>
        BY <2>1, <3>2
      <4> QED
        BY <1>1, <3>1, <4>1, OneIsNotThree, Zenon
    <3>3. CASE j.id = None
      <4>1. q.external = <<j.control, j.asset, j.status>>
        BY <2>1, <3>3
      <4>2. <<i.control, i.asset, i.status>> = <<j.control, j.asset, j.status>>
        BY <1>1, <3>1, <4>1
      <4>3. i.status = j.status
        BY <4>2, ThreeTold
      <4> QED
        BY <1>1, <1>10, <2>1, <2>3, <3>3, <4>3 DEF Intake!SameThing
    <3> QED
      BY <3>2, <3>3
  <2> QED
    BY <2>2, <2>3
<1>11. CASE i.fmt = "asff"
  <2>1. /\ p.external = <<i.id>> /\ p.control = i.control
        /\ q.external = <<j.id>> /\ q.control = j.control
    BY <1>11, HubPlans
  <2>2. i.control = j.control
    BY <1>1, <2>1
  <2>3. i.id = j.id
    BY <1>1, <2>1, OneTold, ZenonT(60)
  <2> QED
    BY <1>11, <2>2, <2>3 DEF Intake!SameThing, Intake!Sticks
<1> QED
  BY <1>2, <1>3, <1>4, <1>5, <1>6, <1>7, <1>8, <1>9, <1>10, <1>11 DEF Intake!WellFormed

-----------------------------------------------------------------------------
(* Standards: what is on record is what arrived.                            *)

\* The items of one format; every finding is planned by an item, every plan
\* of an item is on record or was before; only a bill of materials was.
Arrivals == /\ arrived \in Seq(Items)
            /\ \A m, n \in DOMAIN arrived : arrived[m].fmt = arrived[n].fmt

IsPlanned(r) == \E n \in DOMAIN arrived : \E p \in Intake!Plans(arrived[n]) : r = Intake!Finding(p, arrived[n])

IsOnRecord(p) == p.external \in former \/ \E r \in findings : r.key = Intake!Key(p)

IntakeInv == /\ Arrivals
             /\ \A r \in findings : IsPlanned(r)
             /\ \A n \in DOMAIN arrived : \A p \in Intake!Plans(arrived[n]) : IsOnRecord(p)
             /\ former # {} => \A n \in DOMAIN arrived : arrived[n].fmt = "cyclonedx"

LEMMA FindingIs ==
  ASSUME NEW p, NEW i, NEW r, r = Intake!Finding(p, i)
  PROVE  /\ r.key = Intake!Key(p) /\ r.asset = p.asset /\ r.status = p.status
         /\ r.severity = Intake!Severity(p.severity) /\ r.item = i
BY DEF Intake!Finding

LEMMA IntakeInit == Intake!IntakeInit => IntakeInv
BY DEF Intake!IntakeInit, IntakeInv, Arrivals

LEMMA IntakeStep1 ==
  ASSUME IntakeInv, NEW i \in Items, Intake!Ingest(i)
  PROVE  IntakeInv'
<1> DEFINE latest == Len(arrived) + 1
<1>1. /\ arrived \in Seq(Items) /\ arrived' = Append(arrived, i) /\ former' = former
      /\ \A n \in DOMAIN arrived : arrived[n].fmt = i.fmt
      /\ former # {} => i.fmt = "cyclonedx"
      /\ findings' = findings \cup Intake!Recorded(i)
  BY DEF IntakeInv, Arrivals, Intake!Ingest
<1>2. /\ arrived' \in Seq(Items) /\ DOMAIN arrived' = DOMAIN arrived \cup {latest} /\ arrived'[latest] = i
      /\ \A n \in DOMAIN arrived : arrived'[n] = arrived[n]
  BY <1>1
<1> HIDE DEF latest
<1>3. Arrivals'
  <2>1. \A n \in DOMAIN arrived' : arrived'[n].fmt = i.fmt
    BY <1>1, <1>2
  <2> QED
    BY <1>2, <2>1 DEF Arrivals
<1>4. ASSUME NEW r \in findings'
      PROVE  \E n \in DOMAIN arrived' : \E p \in Intake!Plans(arrived'[n]) : r = Intake!Finding(p, arrived'[n])
  <2>1. CASE r \in findings
    <3>1. PICK n \in DOMAIN arrived : \E p \in Intake!Plans(arrived[n]) : r = Intake!Finding(p, arrived[n])
      BY <2>1 DEF IntakeInv, IsPlanned
    <3> QED
      BY <1>2, <3>1
  <2>2. CASE r \in Intake!Recorded(i)
    <3>1. PICK p \in Intake!Plans(i) : r = Intake!Finding(p, i)
      BY <2>2 DEF Intake!Recorded
    <3> QED
      BY <1>2, <3>1
  <2> QED
    BY <1>1, <2>1, <2>2
<1>5. ASSUME NEW n \in DOMAIN arrived', NEW p \in Intake!Plans(arrived'[n])
      PROVE  p.external \in former' \/ \E r \in findings' : r.key = Intake!Key(p)
  <2>1. CASE n \in DOMAIN arrived
    <3>1. IsOnRecord(p)
      BY <1>2, <2>1 DEF IntakeInv
    <3> QED
      BY <1>1, <3>1 DEF IsOnRecord
  <2>2. CASE n = latest
    <3>1. p \in Intake!Plans(i)
      BY <1>2, <2>2
    <3>2. CASE Intake!Known(p)
      BY <1>1, <3>2 DEF Intake!Known
    <3>3. CASE ~ Intake!Known(p)
      <4>1. Intake!Finding(p, i) \in Intake!Recorded(i)
        BY <3>1, <3>3 DEF Intake!Recorded
      <4>2. Intake!Finding(p, i).key = Intake!Key(p)
        BY FindingIs
      <4> QED
        BY <1>1, <4>1, <4>2
    <3> QED
      BY <3>2, <3>3
  <2> QED
    BY <1>2, <2>1, <2>2
<1>6. former' # {} => \A n \in DOMAIN arrived' : arrived'[n].fmt = "cyclonedx"
  BY <1>1, <1>2
<1> QED
  BY <1>3, <1>4, <1>5, <1>6 DEF IntakeInv, IsPlanned, IsOnRecord

LEMMA IntakeNext == ASSUME IntakeInv, [Intake!IntakeNext]_(Intake!intake) PROVE IntakeInv'
<1>1. CASE Intake!IntakeNext
  BY <1>1, IntakeStep1 DEF Intake!IntakeNext
<1>2. CASE UNCHANGED Intake!intake
  <2>1. arrived' = arrived /\ findings' = findings /\ former' = former
    BY <1>2 DEF Intake!intake
  <2> QED
    BY <2>1 DEF IntakeInv, Arrivals, IsPlanned, IsOnRecord
<1> QED
  BY <1>1, <1>2

LEMMA NothingInvented ==
  ASSUME Intake!ItemsAssumption, IntakeInv
  PROVE  Intake!NothingIsInvented
<1>1. ASSUME NEW r \in findings
      PROVE  /\ <<r.asset, r.status>> \in Intake!States(r.item) \/ Intake!Hollow(r.item)
             /\ \A s \in Intake!WorstOf(r.item) : Intake!Rank(r.severity) >= Intake!Rank(s)
  <2>1. PICK n \in DOMAIN arrived : \E p \in Intake!Plans(arrived[n]) : r = Intake!Finding(p, arrived[n])
    BY DEF IntakeInv, IsPlanned
  <2> DEFINE i == arrived[n]
  <2>2. i \in Items
    BY DEF IntakeInv, Arrivals
  <2>3. PICK p \in Intake!Plans(i) : r = Intake!Finding(p, i)
    BY <2>1
  <2> HIDE DEF i
  <2>4. r.item = i /\ r.asset = p.asset /\ r.status = p.status /\ r.severity = Intake!Severity(p.severity)
    BY <2>3, FindingIs
  <2>5. /\ <<p.asset, p.status>> \in Intake!States(i) \/ Intake!Hollow(i)
        /\ \A s \in Intake!WorstOf(i) : Intake!Rank(Intake!Severity(p.severity)) >= Intake!Rank(s)
    BY <2>2, PlansSay DEF Intake!ItemsAssumption
  <2> QED
    BY <2>4, <2>5
<1>2. \A r \in findings :
        /\ <<r.asset, r.status>> \in Intake!States(r.item) \/ Intake!Hollow(r.item)
        /\ \A s \in Intake!WorstOf(r.item) : Intake!Rank(r.severity) >= Intake!Rank(s)
  BY <1>1, Zenon
<1> QED
  BY <1>2, Zenon DEF Intake!NothingIsInvented

LEMMA NothingLost ==
  ASSUME Intake!ItemsAssumption, IntakeInv
  PROVE  Intake!NothingIsLost
<1>1. ASSUME NEW n \in DOMAIN arrived, NEW v \in Intake!States(arrived[n])
      PROVE  \/ \E r \in findings : /\ r.asset = v[1]
                                    /\ r.status = v[2] \/ Intake!Sticks(arrived[n])
                                    /\ Intake!SameThing(arrived[n], r.item) \/ Intake!Coarse(arrived[n])
             \/ Intake!Coarse(arrived[n]) /\ former # {}
  <2> DEFINE i == arrived[n]
  <2>1. i \in Items
    BY DEF IntakeInv, Arrivals
  <2>2. PICK p \in Intake!Plans(i) : p.asset = v[1] /\ p.status = v[2]
    BY <2>1, StatesArePlanned DEF Intake!ItemsAssumption
  <2>3. IsOnRecord(p)
    BY DEF IntakeInv
  <2>4. CASE p.external \in former
    <3>1. i.fmt = "cyclonedx"
      BY <2>4 DEF IntakeInv
    <3> QED
      BY <2>4, <3>1 DEF Intake!Coarse
  <2>5. CASE \E r \in findings : r.key = Intake!Key(p)
    <3>1. PICK r \in findings : r.key = Intake!Key(p)
      BY <2>5
    <3>2. PICK m \in DOMAIN arrived : \E q \in Intake!Plans(arrived[m]) : r = Intake!Finding(q, arrived[m])
      BY DEF IntakeInv, IsPlanned
    <3> DEFINE j == arrived[m]
    <3>3. j \in Items /\ i.fmt = j.fmt
      BY DEF IntakeInv, Arrivals
    <3>4. PICK q \in Intake!Plans(j) : r = Intake!Finding(q, j)
      BY <3>2
    <3> HIDE DEF i, j
    <3>5. r.key = Intake!Key(q) /\ r.asset = q.asset /\ r.status = q.status /\ r.item = j
      BY <3>4, FindingIs
    <3>6. Intake!Key(p) = Intake!Key(q)
      BY <3>1, <3>5
    <3>7. p.asset = q.asset
      BY <3>6 DEF Intake!Key
    <3>8. /\ p.status = q.status \/ Intake!Sticks(i)
          /\ Intake!SameThing(i, j) \/ Intake!Coarse(i)
      BY <2>1, <3>3, <3>6, KeysTell
    <3>9. /\ r.asset = v[1] /\ (r.status = v[2] \/ Intake!Sticks(i))
          /\ Intake!SameThing(i, r.item) \/ Intake!Coarse(i)
      BY <2>2, <3>5, <3>7, <3>8
    <3> QED
      BY <3>9 DEF i
  <2> QED
    BY <2>3, <2>4, <2>5 DEF IsOnRecord
<1> QED
  BY <1>1 DEF Intake!NothingIsLost

\* What is on record is what arrived, and all of it: a finding says what an
\* item stated of its asset, and a verdict an item states is on record, but
\* for the identities the code makes coarser (standards_ingest.py,
\* record_external_finding), for any items of the nine formats, in any order
\* and number.
THEOREM FindingsStayFaithful ==
  ASSUME Intake!ItemsAssumption
  PROVE  Intake!IntakeSpec => []FindingsAreFaithful
<1>1. IntakeInv => FindingsAreFaithful
  BY NothingInvented, NothingLost DEF FindingsAreFaithful, Intake!FindingsAreFaithful
<1> QED
  BY <1>1, IntakeInit, IntakeNext, PTL DEF Intake!IntakeSpec

-----------------------------------------------------------------------------
(* Standards: the summaries of a document count what is on record.          *)

\* At most one finding for every object that carries intelligence.
Rendered == {n \in DOMAIN arrived : arrived[n].type \in DOMAIN Intake!TypeConcepts}

IsCounted == (\A n \in DOMAIN arrived : arrived[n].fmt = "stix") =>
                IsFiniteSet(findings) /\ Cardinality(findings) <= Cardinality(Rendered)

LEMMA CountedInit == Intake!IntakeInit => IsCounted
<1> SUFFICES ASSUME Intake!IntakeInit PROVE IsCounted
  OBVIOUS
<1>1. findings = {} /\ Rendered = {}
  BY DEF Intake!IntakeInit, Rendered
<1>2. Cardinality({}) = 0 /\ IsFiniteSet({})
  BY FS_EmptySet
<1> QED
  BY <1>1, <1>2 DEF IsCounted

LEMMA IndicesFinite ==
  ASSUME IntakeInv, NEW S, S \subseteq DOMAIN arrived
  PROVE  IsFiniteSet(S)
<1>1. DOMAIN arrived = 1..Len(arrived) /\ Len(arrived) \in Nat
  BY DEF IntakeInv, Arrivals
<1>2. IsFiniteSet(1..Len(arrived))
  BY <1>1, FS_Interval
<1> QED
  BY <1>1, <1>2, FS_Subset

LEMMA ThreatCounted ==
  ASSUME Intake!ItemsAssumption, IntakeInv, IsCounted, NEW i \in Items, Intake!Ingest(i)
  PROVE  IsCounted'
<1> SUFFICES ASSUME \A n \in DOMAIN arrived' : arrived'[n].fmt = "stix"
             PROVE  IsFiniteSet(findings') /\ Cardinality(findings') <= Cardinality(Rendered')
  BY DEF IsCounted
<1> DEFINE latest == Len(arrived) + 1
           carries == i.type \in DOMAIN Intake!TypeConcepts
<1>1. /\ arrived \in Seq(Items) /\ arrived' = Append(arrived, i)
      /\ findings' = findings \cup Intake!Recorded(i)
  BY DEF IntakeInv, Arrivals, Intake!Ingest
<1>2. /\ DOMAIN arrived = 1..Len(arrived) /\ Len(arrived) \in Nat
      /\ DOMAIN arrived' = DOMAIN arrived \cup {latest} /\ arrived'[latest] = i
      /\ latest \notin DOMAIN arrived /\ \A n \in DOMAIN arrived : arrived'[n] = arrived[n]
  BY <1>1
<1> HIDE DEF latest
<1>3. IsFiniteSet(findings) /\ Cardinality(findings) <= Cardinality(Rendered)
  BY <1>2 DEF IsCounted
<1>4. IsFiniteSet(Rendered)
  <2>1. Rendered \subseteq DOMAIN arrived
    BY DEF Rendered
  <2> QED
    BY <2>1, IndicesFinite
<1>5. i.fmt = "stix"
  BY <1>2
<1>6. Rendered' = IF carries THEN Rendered \cup {latest} ELSE Rendered
  BY <1>2 DEF Rendered
<1>7. latest \notin Rendered
  BY <1>2 DEF Rendered
<1>8. Cardinality(findings) \in Nat /\ Cardinality(Rendered) \in Nat
  BY <1>3, <1>4, FS_CardinalityType
<1> HIDE DEF carries
<1>9. CASE Intake!Recorded(i) = {}
  <2>1. findings' = findings
    BY <1>1, <1>9
  <2>2. Cardinality(Rendered') \in {Cardinality(Rendered), Cardinality(Rendered) + 1}
    BY <1>4, <1>6, <1>7, FS_AddElement
  <2> QED
    BY <1>3, <1>8, <2>1, <2>2
<1>10. CASE Intake!Recorded(i) # {}
  <2>1. i.type = "vulnerability" /\ \E p : Intake!Plans(i) = {p}
    BY <1>5, <1>10, StixPlans DEF Intake!Recorded
  <2>2. carries
    BY <2>1 DEF carries, Intake!TypeConcepts
  <2>3. PICK r : Intake!Recorded(i) = {r}
    BY <1>10, <2>1 DEF Intake!Recorded
  <2>4. Cardinality(Rendered') = Cardinality(Rendered) + 1
    BY <1>4, <1>6, <1>7, <2>2, FS_AddElement
  <2>5. /\ IsFiniteSet(findings \cup {r})
        /\ Cardinality(findings \cup {r}) \in {Cardinality(findings), Cardinality(findings) + 1}
    BY <1>3, FS_AddElement
  <2> QED
    BY <1>1, <1>3, <1>8, <2>3, <2>4, <2>5
<1> QED
  BY <1>9, <1>10

LEMMA CountedNext ==
  ASSUME Intake!ItemsAssumption, IntakeInv, IsCounted, [Intake!IntakeNext]_(Intake!intake)
  PROVE  IsCounted'
<1>1. CASE Intake!IntakeNext
  BY <1>1, ThreatCounted DEF Intake!IntakeNext
<1>2. CASE UNCHANGED Intake!intake
  <2>1. arrived' = arrived /\ findings' = findings
    BY <1>2 DEF Intake!intake
  <2> QED
    BY <2>1 DEF IsCounted, Rendered
<1> QED
  BY <1>1, <1>2

LEMMA NoneCounted ==
  ASSUME NEW S, IsFiniteSet(S)
  PROVE  Cardinality(S) = 0 <=> S = {}
BY FS_EmptySet

LEMMA ThreatAgrees ==
  ASSUME IsCounted, \A n \in DOMAIN arrived : arrived[n].fmt = "stix"
  PROVE  Intake!Cardinality(findings) <= Intake!ThreatObjects
<1>1. Cardinality(findings) <= Cardinality(Rendered)
  BY DEF IsCounted
<1> QED
  BY <1>1 DEF Intake!ThreatObjects, Intake!Cardinality, Cardinality, Rendered

LEMMA SarifAgrees ==
  ASSUME Intake!ItemsAssumption, IntakeInv, \A n \in DOMAIN arrived : arrived[n].fmt = "sarif"
  PROVE  Intake!SarifRollup["critical"] = 0 <=>
           \A m \in DOMAIN arrived : Intake!Open(arrived[m]) => Intake!ResultSeverity(arrived[m]) # "critical"
<1> DEFINE worst == {n \in DOMAIN arrived : \E e \in Intake!FromSarif(arrived[n]) : e.severity = "critical"}
<1>1. Intake!SarifRollup["critical"] = Cardinality(worst)
  BY DEF Intake!SarifRollup, Intake!Cardinality, Cardinality
<1>2. IsFiniteSet(worst)
  <2>1. worst \subseteq DOMAIN arrived
    OBVIOUS
  <2> HIDE DEF worst
  <2> QED
    BY <2>1, IndicesFinite
<1>3. ASSUME NEW m \in DOMAIN arrived
      PROVE  m \in worst <=> Intake!Open(arrived[m]) /\ Intake!ResultSeverity(arrived[m]) = "critical"
  <2> DEFINE i == arrived[m]
  <2>1. i.fmt = "sarif" /\ Intake!WellFormed(i)
    BY DEF IntakeInv, Arrivals, Intake!ItemsAssumption
  <2> HIDE DEF i
  <2>2. /\ i.kind \in Intake!NonFindingKinds \cup {"fail"}
        /\ Intake!Exported(i) => ~ Intake!IsSuppressed(i) /\ (i.kind = "fail" <=> i.origin = "fail")
    BY <2>1 DEF Intake!WellFormed
  <2>3. Intake!Open(i) <=> i.kind \notin Intake!NonFindingKinds /\ ~ Intake!IsSuppressed(i)
    <3>1. "fail" \notin Intake!NonFindingKinds
      BY DEF Intake!NonFindingKinds
    <3>2. CASE Intake!Exported(i)
      BY <2>2, <3>1, <3>2 DEF Intake!Open
    <3>3. CASE ~ Intake!Exported(i)
      BY <2>2, <3>1, <3>3 DEF Intake!Open, Intake!IsSuppressed
    <3> QED
      BY <3>2, <3>3
  <2>4. Intake!Result(i).severity = Intake!ResultSeverity(i)
    BY DEF Intake!Result, Intake!Evidence
  <2>5. Intake!FromSarif(i) = IF Intake!Open(i) THEN {Intake!Result(i)} ELSE {}
    BY <2>3 DEF Intake!FromSarif
  <2>6. (\E e \in Intake!FromSarif(i) : e.severity = "critical") <=>
          Intake!Open(i) /\ Intake!ResultSeverity(i) = "critical"
    BY <2>4, <2>5
  <2> QED
    BY <2>6 DEF i
<1> HIDE DEF worst
<1>4. worst \subseteq DOMAIN arrived
  BY DEF worst
<1>5. Cardinality(worst) = 0 <=> worst = {}
  BY <1>2, NoneCounted
<1> QED
  BY <1>1, <1>3, <1>4, <1>5

LEMMA SpdxAgrees ==
  ASSUME Intake!ItemsAssumption, IntakeInv, NEW n \in DOMAIN arrived, arrived[n].fmt = "spdx"
  PROVE  Intake!WithAdvisories = 0 <=> findings = {}
<1> DEFINE risky == {m \in DOMAIN arrived : arrived[m].advisories # {}}
<1>1. Intake!WithAdvisories = Cardinality(risky)
  BY DEF Intake!WithAdvisories, Intake!Cardinality, Cardinality
<1>2. IsFiniteSet(risky)
  <2>1. risky \subseteq DOMAIN arrived
    OBVIOUS
  <2> HIDE DEF risky
  <2> QED
    BY <2>1, IndicesFinite
<1>3. former = {} /\ \A m \in DOMAIN arrived : arrived[m].fmt = "spdx"
  BY DEF IntakeInv, Arrivals
<1>4. ASSUME NEW m \in risky
      PROVE  findings # {}
  <2>1. PICK p : p \in Intake!Plans(arrived[m])
    BY <1>3, SpdxPlans
  <2>2. IsOnRecord(p)
    BY <2>1 DEF IntakeInv
  <2> QED
    BY <1>3, <2>2 DEF IsOnRecord
<1>5. ASSUME NEW r \in findings
      PROVE  risky # {}
  <2>1. PICK m \in DOMAIN arrived : \E p \in Intake!Plans(arrived[m]) : r = Intake!Finding(p, arrived[m])
    BY DEF IntakeInv, IsPlanned
  <2>2. arrived[m].advisories # {}
    BY <1>3, <2>1, SpdxPlans
  <2> QED
    BY <2>2
<1> HIDE DEF risky
<1>6. Cardinality(risky) = 0 <=> risky = {}
  BY <1>2, NoneCounted
<1> QED
  BY <1>1, <1>4, <1>5, <1>6

\* What the findings of a bill of materials say, and of which entry.
LEMMA BillOfMaterials ==
  ASSUME Intake!ItemsAssumption, IntakeInv, NEW n0 \in DOMAIN arrived, arrived[n0].fmt = "cyclonedx"
  PROVE  /\ \A n \in DOMAIN arrived :
              /\ Intake!FromCyclonedx(arrived[n]) # {} <=> arrived[n].vex \notin Intake!VexSuppressed
              /\ arrived[n].vex \notin Intake!VexSuppressed =>
                   {e.asset : e \in Intake!FromCyclonedx(arrived[n])} = Intake!Affected(arrived[n])
         /\ \A r \in findings : \E n \in DOMAIN arrived :
              /\ arrived[n].vex \notin Intake!VexSuppressed /\ r.item = arrived[n]
              /\ r.asset \in Intake!Affected(arrived[n])
              /\ r.severity = Intake!Severity(Intake!VulnSeverity(arrived[n]))
              /\ \E p \in Intake!Plans(arrived[n]) : r.key = Intake!Key(p)
         /\ former = {} =>
              \A n \in DOMAIN arrived : arrived[n].vex \notin Intake!VexSuppressed =>
                \A ref \in Intake!Affected(arrived[n]) : \E r \in findings :
                  /\ r.asset = ref
                  /\ \E p \in Intake!Plans(arrived[n]) : r.key = Intake!Key(p)
<1>1. \A n \in DOMAIN arrived : arrived[n].fmt = "cyclonedx"
  BY DEF IntakeInv, Arrivals
<1>2. ASSUME NEW i
      PROVE  /\ Intake!FromCyclonedx(i) # {} <=> i.vex \notin Intake!VexSuppressed
             /\ i.vex \notin Intake!VexSuppressed =>
                   {e.asset : e \in Intake!FromCyclonedx(i)} = Intake!Affected(i)
  <2> DEFINE told(ref) == Intake!Evidence("TRIVY", ref, Intake!VulnSeverity(i),
                            {"vulnerability_management", "dependency_management"}, {}, {},
                            {Intake!Field("id", i.id)})
  <2>1. \A ref : told(ref).asset = ref
    BY DEF Intake!Evidence
  <2>2. Intake!FromCyclonedx(i) = IF i.vex \in Intake!VexSuppressed THEN {}
                                  ELSE {told(ref) : ref \in Intake!Affected(i)}
    BY DEF Intake!FromCyclonedx
  <2>3. Intake!Affected(i) # {}
    BY DEF Intake!Affected
  <2> HIDE DEF told
  <2> QED
    BY <2>1, <2>2, <2>3
<1>3. ASSUME NEW r \in findings
      PROVE  \E n \in DOMAIN arrived :
               /\ arrived[n].vex \notin Intake!VexSuppressed /\ r.item = arrived[n]
               /\ r.asset \in Intake!Affected(arrived[n])
               /\ r.severity = Intake!Severity(Intake!VulnSeverity(arrived[n]))
               /\ \E p \in Intake!Plans(arrived[n]) : r.key = Intake!Key(p)
  <2>1. PICK n \in DOMAIN arrived : \E p \in Intake!Plans(arrived[n]) : r = Intake!Finding(p, arrived[n])
    BY DEF IntakeInv, IsPlanned
  <2> DEFINE i == arrived[n]
  <2>2. i.fmt = "cyclonedx"
    BY <1>1
  <2>3. PICK p \in Intake!Plans(i) : r = Intake!Finding(p, i)
    BY <2>1
  <2> HIDE DEF i
  <2>4. i.vex \notin Intake!VexSuppressed
    BY <2>2, <2>3, CyclonedxPlans
  <2>5. PICK ref \in Intake!Affected(i) : Says(p, ref, "fail", Intake!VulnSeverity(i))
    BY <2>2, <2>3, <2>4, CyclonedxPlans
  <2>6. /\ r.key = Intake!Key(p) /\ r.asset = p.asset /\ r.item = i
        /\ r.severity = Intake!Severity(p.severity)
    BY <2>3, FindingIs
  <2>7. /\ i.vex \notin Intake!VexSuppressed /\ r.item = i /\ r.asset \in Intake!Affected(i)
        /\ r.severity = Intake!Severity(Intake!VulnSeverity(i))
        /\ \E q \in Intake!Plans(i) : r.key = Intake!Key(q)
    BY <2>3, <2>4, <2>5, <2>6 DEF Says
  <2> QED
    BY <2>7 DEF i
<1>4. ASSUME former = {}, NEW n \in DOMAIN arrived, arrived[n].vex \notin Intake!VexSuppressed,
             NEW ref \in Intake!Affected(arrived[n])
      PROVE  \E r \in findings : r.asset = ref /\ \E p \in Intake!Plans(arrived[n]) : r.key = Intake!Key(p)
  <2>1. PICK p \in Intake!Plans(arrived[n]) : p.asset = ref
    BY <1>1, <1>4, CyclonedxPlans
  <2>2. IsOnRecord(p)
    BY DEF IntakeInv
  <2>3. PICK r \in findings : r.key = Intake!Key(p)
    BY <1>4, <2>2 DEF IsOnRecord
  <2>4. PICK m \in DOMAIN arrived : \E q \in Intake!Plans(arrived[m]) : r = Intake!Finding(q, arrived[m])
    BY DEF IntakeInv, IsPlanned
  <2>5. PICK q \in Intake!Plans(arrived[m]) : r = Intake!Finding(q, arrived[m])
    BY <2>4
  <2>6. r.key = Intake!Key(q) /\ r.asset = q.asset
    BY <2>5, FindingIs
  <2>7. q.asset = p.asset
    BY <2>3, <2>6 DEF Intake!Key
  <2> QED
    BY <2>1, <2>3, <2>6, <2>7
<1> QED
  BY <1>2, <1>3, <1>4

LEMMA CriticalKept ==
  ASSUME NEW w
  PROVE  Intake!Severity(w) = "critical" <=> w = "critical"
<1>1. Intake!Rank("critical") = 5
  <2>1. Intake!Severities[5] = "critical"
    BY DEF Intake!Severities
  <2> QED
    BY <2>1, RankedNth
<1> QED
  BY <1>1 DEF Intake!Severity

\* Entries of one key have one id.
LEMMA KeyedAlike ==
  ASSUME Intake!ItemsAssumption, NEW i \in Items, NEW j \in Items, i.fmt = "cyclonedx", j.fmt = "cyclonedx",
         NEW p \in Intake!Plans(i), NEW q \in Intake!Plans(j), Intake!Key(p) = Intake!Key(q)
  PROVE  i.id = j.id
<1>1. i.id # None /\ j.id # None
  BY DEF Intake!ItemsAssumption, Intake!WellFormed
<1> DEFINE ki == Intake!FindingKey(Intake!Field("id", i.id))
           kj == Intake!FindingKey(Intake!Field("id", j.id))
<1>2. p.external = <<"TRIVY", ki>> /\ q.external = <<"TRIVY", kj>>
  BY CyclonedxPlans
<1>3. ki = {i.id} \ {Intake!Blank} /\ kj = {j.id} \ {Intake!Blank}
  BY <1>1, VulnerabilityKey
<1> HIDE DEF ki, kj
<1>4. <<"TRIVY", ki>> = <<"TRIVY", kj>>
  BY <1>2 DEF Intake!Key
<1>5. ki = kj
  BY <1>4, TwoTold
<1> QED
  BY <1>3, <1>5

LEMMA SbomAgrees ==
  ASSUME Intake!ItemsAssumption, IntakeInv, NEW n0 \in DOMAIN arrived, arrived[n0].fmt = "cyclonedx",
         former = {}
  PROVE  /\ ~ Intake!Rerated =>
              (Intake!SbomSummary.critical = {} <=> \A r \in findings : r.severity # "critical")
         /\ Intake!SbomSummary.components = {r.asset : r \in findings} \ {None}
<1> DEFINE active == {n \in DOMAIN arrived : arrived[n].vex \notin Intake!VexSuppressed}
           worst == {n \in active : Intake!First(n) /\ Intake!VulnSeverity(arrived[n]) = "critical"}
           hit == UNION {Intake!Affected(arrived[n]) : n \in active}
<1>1. Intake!SbomSummary.critical = worst /\ Intake!SbomSummary.components = hit \ {None}
  <2> DEFINE busy == {n \in DOMAIN arrived : Intake!FromCyclonedx(arrived[n]) # {}}
             told(n) == {ne.asset : ne \in Intake!FromCyclonedx(arrived[n])}
  <2>1. busy = active /\ \A n \in active : told(n) = Intake!Affected(arrived[n])
    BY BillOfMaterials
  <2>2. /\ Intake!SbomSummary.critical =
             {n \in busy : Intake!First(n) /\ Intake!VulnSeverity(arrived[n]) = "critical"}
        /\ Intake!SbomSummary.components = (UNION {told(n) : n \in busy}) \ {None}
    BY DEF Intake!SbomSummary
  <2> HIDE DEF busy, told, active
  <2> QED
    BY <2>1, <2>2
<1>2. hit = {r.asset : r \in findings}
  <2>1. \A r \in findings : r.asset \in hit
    BY BillOfMaterials
  <2>2. \A n \in active : \A ref \in Intake!Affected(arrived[n]) : \E r \in findings : r.asset = ref
    BY BillOfMaterials
  <2> HIDE DEF active
  <2> QED
    BY <2>1, <2>2
<1>3. \A n \in DOMAIN arrived : arrived[n] \in Items /\ arrived[n].fmt = "cyclonedx"
  BY DEF IntakeInv, Arrivals
<1>4. ASSUME ~ Intake!Rerated, NEW n \in worst
      PROVE  \E r \in findings : r.severity = "critical"
  <2>1. PICK ref : ref \in Intake!Affected(arrived[n])
    BY DEF Intake!Affected
  <2>2. PICK r \in findings : \E p \in Intake!Plans(arrived[n]) : r.key = Intake!Key(p)
    BY <2>1, BillOfMaterials
  <2>3. PICK m \in DOMAIN arrived : /\ r.severity = Intake!Severity(Intake!VulnSeverity(arrived[m]))
                                    /\ \E p \in Intake!Plans(arrived[m]) : r.key = Intake!Key(p)
    BY BillOfMaterials
  <2>4. arrived[n].id = arrived[m].id
    <3>1. PICK p \in Intake!Plans(arrived[n]) : r.key = Intake!Key(p)
      BY <2>2
    <3>2. PICK q \in Intake!Plans(arrived[m]) : r.key = Intake!Key(q)
      BY <2>3
    <3>3. n \in DOMAIN arrived /\ Intake!Key(p) = Intake!Key(q)
      BY <3>1, <3>2
    <3> HIDE DEF worst, active
    <3>4. arrived[n] \in Items /\ arrived[m] \in Items
          /\ arrived[n].fmt = "cyclonedx" /\ arrived[m].fmt = "cyclonedx"
      BY <1>3, <3>3
    <3> QED
      BY <3>1, <3>2, <3>3, <3>4, KeyedAlike
  <2>5. arrived[n].ratings = arrived[m].ratings
    BY <1>4, <2>4 DEF Intake!Rerated
  <2>6. Intake!VulnSeverity(arrived[m]) = "critical"
    BY <2>5 DEF Intake!VulnSeverity
  <2> QED
    BY <2>3, <2>6, CriticalKept
<1>5. ASSUME ~ Intake!Rerated, NEW r \in findings, r.severity = "critical"
      PROVE  worst # {}
  <2>1. PICK m \in active : r.severity = Intake!Severity(Intake!VulnSeverity(arrived[m]))
    BY BillOfMaterials
  <2>2. Intake!VulnSeverity(arrived[m]) = "critical"
    BY <1>5, <2>1, CriticalKept
  <2> DEFINE same == {n \in active : arrived[n].id = arrived[m].id}
  <2>3. same \subseteq Nat /\ m \in same
    BY DEF IntakeInv, Arrivals
  <2>4. PICK n \in same : \A k \in same : n <= k
    BY <2>3, LeastNumber
  <2>5. Intake!First(n)
    <3>1. ASSUME NEW k \in 1..(n - 1), arrived[k].id = arrived[n].id
          PROVE  Intake!FromCyclonedx(arrived[k]) = {}
      <4>1. k \in DOMAIN arrived /\ ~ (n <= k)
        BY <2>3, <2>4 DEF IntakeInv, Arrivals
      <4>2. k \notin same
        BY <2>4, <4>1
      <4>3. arrived[k].vex \in Intake!VexSuppressed
        BY <2>4, <3>1, <4>1, <4>2
      <4> QED
        BY <4>1, <4>3, BillOfMaterials
    <3> QED
      BY <3>1 DEF Intake!First
  <2>6. arrived[n].ratings = arrived[m].ratings
    BY <1>5, <2>4 DEF Intake!Rerated
  <2>7. Intake!VulnSeverity(arrived[n]) = "critical"
    BY <2>2, <2>6 DEF Intake!VulnSeverity
  <2> QED
    BY <2>4, <2>5, <2>7
<1> HIDE DEF worst, hit
<1> QED
  BY <1>1, <1>2, <1>4, <1>5

\* The counts the policies read (sarif_rollup, sbom_summary, spdx_summary,
\* stix_summary) agree with the findings the same document leads to, for any
\* document.
THEOREM SummariesStayAgreed ==
  ASSUME Intake!ItemsAssumption
  PROVE  Intake!IntakeSpec => []SummariesAgree
<1> DEFINE Both == IntakeInv /\ IsCounted
<1>1. Intake!IntakeInit => Both
  BY IntakeInit, CountedInit
<1>2. Both /\ [Intake!IntakeNext]_(Intake!intake) => Both'
  BY IntakeNext, CountedNext
<1>3. Both => SummariesAgree
  <2> SUFFICES ASSUME IntakeInv, IsCounted
               PROVE  SummariesAgree
    OBVIOUS
  <2>1. \A m, n \in DOMAIN arrived : arrived[m].fmt = arrived[n].fmt
    BY DEF IntakeInv, Arrivals
  <2> QED
    BY <2>1, SarifAgrees, SbomAgrees, SpdxAgrees, ThreatAgrees
    DEF SummariesAgree, Intake!SummariesAgree
<1> HIDE DEF Both
<1> QED
  BY <1>1, <1>2, <1>3, PTL DEF Intake!IntakeSpec
=============================================================================

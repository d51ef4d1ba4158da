---------------------------- MODULE Audit_proofs ----------------------------
(***************************************************************************)
(* Proofs about what an auditor works with: the agents' decision log       *)
(* (AgentAudit), for any number of transactions, any clock skew and any    *)
(* chain that was there before, and the audit engagements (Audits), for    *)
(* any catalogue, any number of audits and any number of requests.         *)
(***************************************************************************)
EXTENDS MCAudit, Sequences, FiniteSetTheorems, FunctionTheorems, TLAPS

-----------------------------------------------------------------------------
(* AgentAudit: the decision log.                                            *)

InHand(w) == pc[w] \in {"head", "flush", "commit"}

\* Every stamped record has a name of its own, committed or not.
NamesInv ==
  /\ IsFiniteSet(actions)
  /\ \A r \in actions : r.hash <= clock
  /\ \A w \in Workers : InHand(w) => rec[w].hash <= clock /\ rec[w].hash \notin Hashes
  /\ \A v, w \in Workers : v # w /\ InHand(v) /\ InHand(w) => rec[v].hash # rec[w].hash

\* A transaction in progress chains to a committed record, and loaded a head
\* that did not overcount.
LinksInv ==
  damaged = {} =>
    /\ \A w \in Workers : InHand(w) /\ rec[w].prev # None => rec[w].prev \in Hashes
    /\ \A w \in Workers : seen[w] # None => seen[w].count <= Cardinality(actions)

\* The inductive invariant behind both theorems.
AuditInv == TypeOK /\ NamesInv /\ LinksInv /\ ChainResolves /\ OvercountMeansLoss

\* An empty log is in order.
LEMMA InitAudit == Init => AuditInv
<1> SUFFICES ASSUME Init PROVE AuditInv
  OBVIOUS
<1> USE AuditAssumption
<1>1. TypeOK
  <2>1. actions \subseteq Rows
    <3>1. ASSUME NEW n \in 1..Legacy
          PROVE  [hash |-> n, prev |-> IF n = 1 THEN None ELSE n - 1, at |-> n] \in Rows
      BY DEF Rows
    <3> QED
      BY <3>1 DEF Init
  <2>2. rec \in [Workers -> Rows]
    BY DEF Init, Rows, Blank
  <2>3. head \in HeadRows /\ seen \in [Workers -> HeadRows]
    BY DEF Init, HeadRows
  <2>4. agent \in BOOLEAN /\ clock \in Nat /\ damaged \subseteq Int /\ altered \subseteq damaged
    BY DEF Init
  <2> QED
    BY <2>1, <2>2, <2>3, <2>4 DEF Init, TypeOK
<1>2. NamesInv
  <2>1. IsFiniteSet(1..Legacy)
    BY FS_Interval
  <2>2. actions = {[hash |-> n, prev |-> IF n = 1 THEN None ELSE n - 1, at |-> n] : n \in 1..Legacy}
    BY DEF Init
  <2> DEFINE f == [n \in 1..Legacy |-> [hash |-> n, prev |-> IF n = 1 THEN None ELSE n - 1, at |-> n]]
  <2>3. f \in Surjection(1..Legacy, actions)
    BY <2>2 DEF Surjection
  <2>4. IsFiniteSet(actions)
    BY <2>1, <2>3, FS_Surjection
  <2> QED
    BY <2>4 DEF Init, NamesInv, InHand
<1>3. LinksInv /\ OvercountMeansLoss
  BY DEF Init, LinksInv, OvercountMeansLoss, InHand
<1>4. ChainResolves
  <2>1. ASSUME NEW r \in actions, r.prev # None PROVE r.prev \in Hashes
    <3>1. PICK n \in 1..Legacy : r = [hash |-> n, prev |-> IF n = 1 THEN None ELSE n - 1, at |-> n]
      BY DEF Init
    <3>2. n # 1 /\ r.prev = n - 1
      BY <2>1, <3>1
    <3> DEFINE q == [hash |-> n - 1, prev |-> IF n - 1 = 1 THEN None ELSE n - 1 - 1, at |-> n - 1]
    <3>3. q \in actions
      BY <3>1, <3>2 DEF Init
    <3> QED
      BY <3>2, <3>3 DEF Hashes
  <2> QED
    BY <2>1 DEF Init, ChainResolves
<1> QED
  BY <1>1, <1>2, <1>3, <1>4 DEF AuditInv

\* Steps that leave the tables and the damage alone and only start, roll back
\* or look up: nothing new is in hand.
LEMMA LocalStep ==
  ASSUME AuditInv, NEW w \in Workers, UNCHANGED <<table, clock, damaged, altered>>,
         pc' \in [Workers -> {"idle", "register", "prev", "head", "flush", "commit"}],
         rec' \in [Workers -> Rows], seen' \in [Workers -> HeadRows], newAgent' \in [Workers -> BOOLEAN],
         \A v \in Workers : v # w => pc'[v] = pc[v] /\ rec'[v] = rec[v] /\ seen'[v] = seen[v],
         InHand(w)' => InHand(w) /\ rec'[w] = rec[w],
         seen'[w] \in {seen[w], None, head}
  PROVE  AuditInv'
<1> USE AuditAssumption DEF table
<1>1. TypeOK'
  BY DEF AuditInv, TypeOK
<1>2. Hashes' = Hashes /\ Cardinality(actions)' = Cardinality(actions)
  BY DEF Hashes
<1>3. NamesInv'
  BY <1>2 DEF AuditInv, NamesInv, InHand
<1>4. LinksInv'
  BY <1>2 DEF AuditInv, LinksInv, InHand, OvercountMeansLoss
<1>5. ChainResolves' /\ OvercountMeansLoss'
  BY <1>2 DEF AuditInv, ChainResolves, OvercountMeansLoss
<1> QED
  BY <1>1, <1>3, <1>4, <1>5 DEF AuditInv

\* A decision reads the latest action and is to be chained to it.
LEMMA ReadPrevStep ==
  ASSUME AuditInv, NEW w \in Workers, ReadPrev(w) PROVE AuditInv'
<1> USE AuditAssumption
<1>1. PICK d \in 0..Skew, prev \in IF actions = {} THEN {None} ELSE {r.hash : r \in Latest(actions)} :
        rec' = [rec EXCEPT ![w] = [hash |-> clock + 1, prev |-> prev, at |-> clock + 1 + d]]
  BY DEF ReadPrev
<1>2. prev = None \/ prev \in Hashes
  BY <1>1 DEF Latest, Hashes
<1>3. prev \in Int \cup {None}
  BY <1>2 DEF AuditInv, TypeOK, Rows, Hashes
<1>4. UNCHANGED <<actions, head, agent, damaged, altered, seen, newAgent>> /\ clock' = clock + 1
  BY DEF ReadPrev, table
<1>5. TypeOK'
  <2>1. [hash |-> clock + 1, prev |-> prev, at |-> clock + 1 + d] \in Rows
    BY <1>3 DEF AuditInv, TypeOK, Rows
  <2> QED
    BY <1>1, <1>4, <2>1 DEF AuditInv, TypeOK, ReadPrev
<1>6. rec'[w].hash = clock + 1 /\ rec'[w].prev = prev /\ (\A v \in Workers : v # w => rec'[v] = rec[v])
  BY <1>1 DEF AuditInv, TypeOK
<1>7. \A v \in Workers : v # w => (InHand(v)' <=> InHand(v))
  BY DEF ReadPrev, InHand, AuditInv, TypeOK
<1>8. \A h \in Hashes : h <= clock
  BY DEF AuditInv, NamesInv, Hashes
<1>9. Hashes' = Hashes /\ clock \in Nat /\ Hashes \subseteq Int
  BY <1>4 DEF Hashes, AuditInv, TypeOK, Rows
<1>10. \A v \in Workers : rec[v].hash \in Int
  BY DEF AuditInv, TypeOK, Rows
<1>11. NamesInv'
  <2>1. IsFiniteSet(actions') /\ \A r \in actions' : r.hash <= clock'
    BY <1>4, <1>9 DEF AuditInv, NamesInv, TypeOK, Rows
  <2>2. ASSUME NEW v \in Workers, InHand(v)'
        PROVE  rec'[v].hash <= clock' /\ rec'[v].hash \notin Hashes'
    BY <1>4, <1>6, <1>7, <1>8, <1>9, <1>10, <2>2 DEF AuditInv, NamesInv
  <2>3. ASSUME NEW u \in Workers, NEW v \in Workers, u # v, InHand(u)', InHand(v)'
        PROVE  rec'[u].hash # rec'[v].hash
    BY <1>6, <1>7, <1>9, <1>10, <2>3 DEF AuditInv, NamesInv
  <2> QED
    BY <2>1, <2>2, <2>3 DEF NamesInv
<1>12. LinksInv'
  BY <1>2, <1>4, <1>6, <1>7, <1>9 DEF AuditInv, LinksInv
<1>13. ChainResolves' /\ OvercountMeansLoss'
  BY <1>4, <1>9 DEF AuditInv, ChainResolves, OvercountMeansLoss
<1> QED
  BY <1>5, <1>11, <1>12, <1>13 DEF AuditInv

\* The action and the head that counts it go in together.
LEMMA CommitStep ==
  ASSUME AuditInv, NEW w \in Workers, Commit(w) PROVE AuditInv'
<1> USE AuditAssumption
<1> DEFINE row == rec[w]
<1>1. /\ pc[w] = "commit" /\ actions' = actions \cup {row} /\ head' = NewHead(w)
      /\ UNCHANGED <<clock, damaged, altered>>
      /\ \A v \in Workers : v # w => pc'[v] = pc[v] /\ rec'[v] = rec[v] /\ seen'[v] = seen[v]
      /\ pc'[w] = "idle" /\ seen'[w] = None
  BY DEF Commit, Finish, fault, AuditInv, TypeOK
<1>2. row \in Rows /\ actions \subseteq Rows /\ seen[w] \in HeadRows /\ clock \in Nat
  BY DEF AuditInv, TypeOK
<1>3. TypeOK'
  <2>1. NewHead(w) \in HeadRows
    BY <1>2 DEF NewHead, HeadRows, Rows
  <2>2. Blank \in Rows
    BY DEF Blank, Rows
  <2> QED
    BY <1>1, <1>2, <2>1, <2>2 DEF Commit, Finish, AuditInv, TypeOK, HeadRows
<1>4. Hashes' = Hashes \cup {row.hash} /\ row.hash \notin Hashes /\ row \notin actions
  BY <1>1 DEF Hashes, AuditInv, NamesInv, InHand
<1>5. IsFiniteSet(actions') /\ Cardinality(actions') = Cardinality(actions) + 1
      /\ Cardinality(actions) \in Nat
  BY <1>1, <1>4, FS_AddElement, FS_CardinalityType DEF AuditInv, NamesInv
<1>6. \A v \in Workers : InHand(v)' => v # w /\ InHand(v) /\ rec'[v] = rec[v]
  BY <1>1 DEF InHand
<1>7. NamesInv'
  <2>1. \A r \in actions' : r.hash <= clock'
    BY <1>1, <1>2 DEF AuditInv, NamesInv, InHand
  <2>2. ASSUME NEW v \in Workers, InHand(v)'
        PROVE  rec'[v].hash <= clock' /\ rec'[v].hash \notin Hashes'
    BY <1>1, <1>4, <1>6, <2>2 DEF AuditInv, NamesInv, InHand
  <2>3. ASSUME NEW u \in Workers, NEW v \in Workers, u # v, InHand(u)', InHand(v)'
        PROVE  rec'[u].hash # rec'[v].hash
    BY <1>6, <2>3 DEF AuditInv, NamesInv
  <2> QED
    BY <1>5, <2>1, <2>2, <2>3 DEF NamesInv
<1>8. LinksInv'
  <2>1. ASSUME NEW v \in Workers, seen'[v] # None, damaged = {}
        PROVE  seen'[v].count <= Cardinality(actions')
    <3>1. v # w /\ seen'[v] = seen[v] /\ seen[v].count <= Cardinality(actions)
      BY <1>1, <2>1 DEF AuditInv, LinksInv
    <3>2. seen[v] \in HeadRows /\ seen[v] # None
      BY <2>1, <3>1 DEF AuditInv, TypeOK
    <3> QED
      BY <1>5, <3>1, <3>2 DEF HeadRows
  <2> QED
    BY <1>1, <1>4, <1>6, <2>1 DEF AuditInv, LinksInv
<1>9. ChainResolves'
  <2>1. damaged = {} /\ row.prev # None => row.prev \in Hashes
    BY <1>1 DEF AuditInv, LinksInv, InHand
  <2>2. head'.hash = row.hash
    BY <1>1 DEF NewHead
  <2> QED
    BY <1>1, <1>4, <2>1, <2>2 DEF AuditInv, ChainResolves
<1>10. OvercountMeansLoss'
  <2>1. CASE seen[w] = None
    BY <1>1, <1>5, <2>1 DEF NewHead, OvercountMeansLoss
  <2>2. CASE seen[w] # None
    <3>1. head'.count = seen[w].count + 1 /\ seen[w].count \in Int
      BY <1>1, <1>2, <2>2 DEF NewHead, HeadRows
    <3>2. damaged = {} => seen[w].count <= Cardinality(actions)
      BY <2>2 DEF AuditInv, LinksInv
    <3> QED
      BY <1>1, <1>5, <3>1, <3>2 DEF OvercountMeansLoss
  <2> QED
    BY <2>1, <2>2
<1> QED
  BY <1>3, <1>7, <1>8, <1>9, <1>10 DEF AuditInv

\* What is lost or altered is known to be damaged.
LEMMA DamageStep ==
  ASSUME AuditInv, NEW r \in actions, Lose(r) \/ Alter(r) PROVE AuditInv'
<1> USE AuditAssumption
<1>1. /\ actions' \subseteq actions /\ damaged' = damaged \cup {r.hash}
      /\ UNCHANGED <<head, agent, clock, pc, rec, seen, newAgent>>
      /\ altered' \subseteq damaged'
  BY DEF Lose, Alter, table, AuditInv, TypeOK
<1>2. r.hash \in Int
  BY DEF AuditInv, TypeOK, Rows
<1>3. TypeOK'
  BY <1>1, <1>2 DEF AuditInv, TypeOK
<1>4. Hashes' \subseteq Hashes
  BY <1>1 DEF Hashes
<1>5. IsFiniteSet(actions')
  BY <1>1, FS_Subset DEF AuditInv, NamesInv
<1>6. NamesInv'
  BY <1>1, <1>4, <1>5 DEF AuditInv, NamesInv, InHand
<1>7. damaged' # {}
  BY <1>1
<1> QED
  BY <1>3, <1>6, <1>7 DEF AuditInv, LinksInv, ChainResolves, OvercountMeansLoss

\* Every step keeps the log in order.
LEMMA AuditStep == AuditInv /\ [Next]_vars => AuditInv'
<1> SUFFICES ASSUME AuditInv, [Next]_vars PROVE AuditInv'
  OBVIOUS
<1> USE AuditAssumption
<1>1. TypeOK
  BY DEF AuditInv
<1>2. ASSUME NEW w \in Workers, Begin(w) PROVE AuditInv'
  <2>1. pc' = [pc EXCEPT ![w] = "prev"] \/ pc' = [pc EXCEPT ![w] = "register"]
    BY <1>2 DEF Begin
  <2> QED
    BY <1>1, <1>2, <2>1, LocalStep DEF Begin, TypeOK, InHand
<1>3. ASSUME NEW w \in Workers, Finish(w), UNCHANGED <<table, clock, fault>> PROVE AuditInv'
  <2>1. Blank \in Rows /\ None \in HeadRows
    BY DEF Blank, Rows, HeadRows
  <2> QED
    BY <1>1, <1>3, <2>1, LocalStep DEF Finish, TypeOK, InHand, fault
<1>4. ASSUME NEW w \in Workers, InsertAgent(w) PROVE AuditInv'
  <2>1. CASE Finish(w)
    BY <1>3, <1>4, <2>1 DEF InsertAgent
  <2>2. CASE pc' = [pc EXCEPT ![w] = "prev"] /\ newAgent' = [newAgent EXCEPT ![w] = TRUE]
             /\ UNCHANGED <<rec, seen>>
    BY <1>1, <1>4, <2>2, LocalStep DEF InsertAgent, TypeOK, InHand, fault
  <2> QED
    BY <1>4, <2>1, <2>2 DEF InsertAgent
<1>5. ASSUME NEW w \in Workers, ReadHead(w) PROVE AuditInv'
  BY <1>1, <1>5, LocalStep DEF ReadHead, TypeOK, InHand, fault
<1>6. ASSUME NEW w \in Workers, Flush(w) PROVE AuditInv'
  <2>1. CASE Finish(w)
    BY <1>3, <1>6, <2>1 DEF Flush
  <2>2. CASE pc' = [pc EXCEPT ![w] = "commit"] /\ UNCHANGED <<rec, seen, newAgent>>
    BY <1>1, <1>6, <2>2, LocalStep DEF Flush, TypeOK, InHand, fault
  <2> QED
    BY <1>6, <2>1, <2>2 DEF Flush
<1>7. ASSUME NEW w \in Workers, Abort(w) PROVE AuditInv'
  BY <1>3, <1>7 DEF Abort
<1>8. ASSUME UNCHANGED vars PROVE AuditInv'
  <2>1. Hashes' = Hashes
    BY <1>8 DEF vars, Hashes
  <2> QED
    BY <1>8, <2>1 DEF vars, AuditInv, TypeOK, NamesInv, LinksInv, ChainResolves,
                      OvercountMeansLoss, InHand
<1> QED
  BY <1>2, <1>4, <1>5, <1>6, <1>7, <1>8, ReadPrevStep, CommitStep, DamageStep
  DEF Next, WorkerStep, Quiet

-----------------------------------------------------------------------------
\* However many appends interleave, abort or read skewed clocks, a chain that
\* nobody damaged has no dangling link and its head is one of its records.
THEOREM LinksResolve == Spec => []ChainResolves
<1>1. AuditInv => ChainResolves
  BY DEF AuditInv
<1> QED
  BY <1>1, InitAudit, AuditStep, PTL DEF Spec

\* The head never counts more actions than the log has, unless some were lost.
THEOREM NoOvercount == Spec => []OvercountMeansLoss
<1>1. AuditInv => OvercountMeansLoss
  BY DEF AuditInv
<1> QED
  BY <1>1, InitAudit, AuditStep, PTL DEF Spec

-----------------------------------------------------------------------------
(* One append after another: what the verdict of verify_chain is worth.     *)

\* The records there ever were, as far as the log or the damage tells.
Known == Hashes \cup damaged

\* Names are never reused, and a record that is damaged and still there is an
\* altered one.
FreshInv ==
  /\ IsFiniteSet(Known)
  /\ \A h \in Known : h \in Int /\ h <= clock
  /\ damaged \cap Hashes \subseteq altered
  /\ \A q, r \in actions : q.hash = r.hash => q = r
  /\ \A w \in Workers : InHand(w) => rec[w].hash \notin Known

\* One transaction at a time, whose rows and whose head are the latest ones;
\* the head counts every record there ever was.
CountInv ==
  /\ \A v, w \in Workers : v \in Started /\ w \in Started => v = w
  /\ \A r \in actions : r.at = r.hash
  /\ \A w \in Workers : InHand(w) => rec[w].at = rec[w].hash /\ \A h \in Known : h < rec[w].hash
  /\ \A w \in Workers : pc[w] \in {"flush", "commit"} => seen[w] = head
  /\ head = None => Known = {}
  /\ head # None => head.count = Cardinality(Known)

\* The last of the records.
Tip(prev) == IF actions = {} THEN prev = None
             ELSE prev \in Hashes /\ \A h \in Hashes : h <= prev

\* A record is chained to the one before it.
ChainInv ==
  /\ \A r \in actions : r.prev # None =>
       r.prev < r.hash /\ \A q \in actions : ~(r.prev < q.hash /\ q.hash < r.hash)
  /\ \A w \in Workers : InHand(w) => Tip(rec[w].prev)

\* The inductive invariant behind the verdict.
JudgedInv ==
  AuditInv /\ FreshInv /\ (~contended => CountInv /\ (damaged = {} => ChainInv))

\* A chain with no history before its head starts in order.
LEMMA InitJudged == ASSUME Legacy = 0, Init PROVE JudgedInv
<1> USE AuditAssumption
<1>1. actions = {} /\ damaged = {} /\ Known = {}
  BY DEF Init, Known, Hashes
<1>2. \A w \in Workers : ~InHand(w) /\ pc[w] = "idle"
  BY DEF Init, InHand
<1>3. Started = {}
  BY <1>2 DEF Started
<1>4. FreshInv
  BY <1>1, <1>2, FS_EmptySet DEF FreshInv
<1>5. CountInv /\ ChainInv
  BY <1>1, <1>2, <1>3 DEF CountInv, ChainInv, Init
<1> QED
  BY <1>4, <1>5, InitAudit DEF JudgedInv

\* Steps that write nothing and at most begin, load the head, or let go of
\* what they had in hand.
LEMMA LocalJudged ==
  ASSUME JudgedInv, AuditInv', NEW w \in Workers, UNCHANGED <<table, clock, damaged, altered>>,
         \A v \in Workers : v # w => pc'[v] = pc[v] /\ rec'[v] = rec[v] /\ seen'[v] = seen[v],
         InHand(w)' => InHand(w) /\ rec'[w] = rec[w],
         pc'[w] \in {"flush", "commit"} => seen'[w] = head \/ (pc[w] = "flush" /\ seen'[w] = seen[w]),
         ~contended' => ~contended /\ (pc[w] # "idle" \/ Started = {})
  PROVE  JudgedInv'
<1> USE AuditAssumption DEF table
<1>1. Hashes' = Hashes /\ Known' = Known /\ Cardinality(Known)' = Cardinality(Known)
  BY DEF Hashes, Known
<1>2. FreshInv'
  BY <1>1 DEF JudgedInv, FreshInv, InHand
<1>3. ASSUME ~contended' PROVE CountInv'
  <2>1. \A u, v \in Workers : u \in Started' /\ v \in Started' => u = v
    BY <1>3 DEF JudgedInv, CountInv, Started
  <2>2. \A v \in Workers : InHand(v)' => rec'[v].at = rec'[v].hash /\ \A h \in Known' : h < rec'[v].hash
    BY <1>1, <1>3 DEF JudgedInv, CountInv, InHand
  <2>3. \A v \in Workers : pc'[v] \in {"flush", "commit"} => seen'[v] = head'
    BY <1>3 DEF JudgedInv, CountInv
  <2> QED
    BY <1>1, <1>3, <2>1, <2>2, <2>3 DEF JudgedInv, CountInv
<1>4. ASSUME ~contended', damaged' = {} PROVE ChainInv'
  <2>1. \A v \in Workers : InHand(v)' => InHand(v) /\ rec'[v] = rec[v]
    BY DEF InHand
  <2> QED
    BY <1>1, <1>4, <2>1 DEF JudgedInv, ChainInv, Tip
<1> QED
  BY <1>2, <1>3, <1>4 DEF JudgedInv

\* The record that is stamped is the latest, and chained to the latest one.
LEMMA ReadPrevJudged ==
  ASSUME JudgedInv, AuditInv', NEW w \in Workers, ReadPrev(w) PROVE JudgedInv'
<1> USE AuditAssumption
<1>1. PICK d \in 0..Skew, prev \in IF actions = {} THEN {None} ELSE {r.hash : r \in Latest(actions)} :
        /\ rec' = [rec EXCEPT ![w] = [hash |-> clock + 1, prev |-> prev, at |-> clock + 1 + d]]
        /\ contended' = (contended \/ d > 0)
  BY DEF ReadPrev
<1>2. UNCHANGED <<actions, head, agent, damaged, altered, seen, newAgent>> /\ clock' = clock + 1
  BY DEF ReadPrev, table
<1>3. /\ pc[w] = "prev" /\ pc'[w] = "head" /\ \A v \in Workers : v # w => pc'[v] = pc[v]
      /\ rec'[w] = [hash |-> clock + 1, prev |-> prev, at |-> clock + 1 + d]
      /\ \A v \in Workers : v # w => rec'[v] = rec[v]
  BY <1>1 DEF ReadPrev, JudgedInv, AuditInv, TypeOK
<1>4. Hashes' = Hashes /\ Known' = Known /\ Cardinality(Known)' = Cardinality(Known) /\ clock \in Nat
  BY <1>2 DEF Hashes, Known, JudgedInv, AuditInv, TypeOK
<1>5. \A h \in Known : h \in Int /\ h <= clock
  BY DEF JudgedInv, FreshInv
<1>6. FreshInv'
  <2>1. \A h \in Known' : h \in Int /\ h <= clock'
    BY <1>2, <1>4, <1>5
  <2>2. ASSUME NEW v \in Workers, InHand(v)' PROVE rec'[v].hash \notin Known'
    BY <1>3, <1>4, <1>5, <2>2 DEF JudgedInv, FreshInv, InHand
  <2> QED
    BY <1>2, <1>4, <2>1, <2>2 DEF JudgedInv, FreshInv
<1>7. ASSUME ~contended' PROVE CountInv' /\ (damaged' = {} => ChainInv')
  <2>1. ~contended /\ d = 0 /\ CountInv
    <3>1. ~contended /\ ~(d > 0)
      BY <1>1, <1>7, Zenon
    <3> QED
      BY <3>1 DEF JudgedInv
  <2>2. \A v \in Workers : v # w => ~InHand(v)' /\ pc'[v] = "idle"
    BY <1>3, <2>1 DEF CountInv, Started, InHand
  <2>3. CountInv'
    <3>1. rec'[w].at = rec'[w].hash /\ \A h \in Known' : h < rec'[w].hash
      BY <1>3, <1>4, <1>5, <2>1
    <3>2. \A u, v \in Workers : u \in Started' /\ v \in Started' => u = v
      BY <2>2 DEF Started
    <3> QED
      BY <1>2, <1>3, <1>4, <2>1, <2>2, <3>1, <3>2 DEF CountInv
  <2>4. Tip(prev)
    <3>1. CASE actions = {}
      BY <1>1, <3>1 DEF Tip
    <3>2. CASE actions # {}
      <4>1. PICK r \in Latest(actions) : prev = r.hash
        BY <1>1, <3>2
      <4>2. \A q \in actions : q.hash <= r.hash
        BY <2>1, <4>1 DEF Latest, CountInv
      <4> QED
        BY <3>2, <4>1, <4>2 DEF Tip, Hashes, Latest
    <3> QED
      BY <3>1, <3>2
  <2>5. ASSUME damaged' = {} PROVE ChainInv'
    BY <1>2, <1>3, <1>4, <2>1, <2>2, <2>4, <2>5 DEF JudgedInv, ChainInv, Tip
  <2> QED
    BY <2>3, <2>5
<1> QED
  BY <1>6, <1>7 DEF JudgedInv

\* The commit adds one record to what is known and one to the head's count.
LEMMA CommitJudged ==
  ASSUME JudgedInv, AuditInv', NEW w \in Workers, Commit(w) PROVE JudgedInv'
<1> USE AuditAssumption
<1> DEFINE row == rec[w]
<1>1. /\ pc[w] = "commit" /\ InHand(w) /\ actions' = actions \cup {row} /\ head' = NewHead(w)
      /\ UNCHANGED <<clock, damaged, altered, contended>>
      /\ \A v \in Workers : v # w => pc'[v] = pc[v] /\ rec'[v] = rec[v] /\ seen'[v] = seen[v]
      /\ pc'[w] = "idle"
  BY DEF Commit, Finish, fault, JudgedInv, AuditInv, TypeOK, InHand
<1>2. row \in Rows /\ actions \subseteq Rows /\ head \in HeadRows /\ clock \in Nat
  BY DEF JudgedInv, AuditInv, TypeOK
<1>3. Hashes' = Hashes \cup {row.hash} /\ Known' = Known \cup {row.hash} /\ row.hash \notin Known
      /\ row.hash \in Int /\ row.hash <= clock
  BY <1>1, <1>2 DEF Hashes, Known, JudgedInv, FreshInv, AuditInv, NamesInv, Rows
<1>4. \A v \in Workers : InHand(v)' => v # w /\ InHand(v) /\ rec'[v] = rec[v]
  BY <1>1 DEF InHand
<1>5. IsFiniteSet(Known') /\ Cardinality(Known') = Cardinality(Known) + 1 /\ Cardinality(Known) \in Nat
  BY <1>3, FS_AddElement, FS_CardinalityType DEF JudgedInv, FreshInv
<1>6. FreshInv'
  <2>1. \A h \in Known' : h \in Int /\ h <= clock'
    BY <1>1, <1>3 DEF JudgedInv, FreshInv
  <2>2. damaged' \cap Hashes' \subseteq altered'
    BY <1>1, <1>3 DEF JudgedInv, FreshInv, Known
  <2>3. \A q, r \in actions' : q.hash = r.hash => q = r
    BY <1>1, <1>3 DEF JudgedInv, FreshInv, Known, Hashes
  <2>4. ASSUME NEW v \in Workers, InHand(v)' PROVE rec'[v].hash \notin Known'
    BY <1>1, <1>3, <1>4, <2>4 DEF JudgedInv, FreshInv, AuditInv, NamesInv
  <2> QED
    BY <1>5, <2>1, <2>2, <2>3, <2>4 DEF FreshInv
<1>7. ASSUME ~contended' PROVE CountInv'
  <2>1. CountInv
    BY <1>1, <1>7 DEF JudgedInv
  <2>2. \A v \in Workers : pc'[v] = "idle"
    BY <1>1, <2>1 DEF CountInv, Started
  <2>3. row.at = row.hash /\ seen[w] = head
    BY <1>1, <2>1 DEF CountInv
  <2>4. head' # None /\ head'.count = Cardinality(Known')
    <3>1. CASE head = None
      <4>1. Cardinality(Known) = 0
        BY <2>1, <3>1, FS_EmptySet DEF CountInv
      <4>2. head' = [hash |-> row.hash, count |-> 1] /\ head' # None
        BY <1>1, <1>3, <2>3, <3>1 DEF NewHead
      <4> QED
        BY <1>5, <4>1, <4>2
    <3>2. CASE head # None
      <4>1. head' = [hash |-> row.hash, count |-> head.count + 1] /\ head.count = Cardinality(Known)
        BY <1>1, <2>1, <2>3, <3>2 DEF NewHead, CountInv
      <4>2. head' # None
        BY <1>3, <1>5, <4>1
      <4> QED
        BY <1>5, <4>1, <4>2
    <3> QED
      BY <3>1, <3>2
  <2>5. \A r \in actions' : r.at = r.hash
    BY <1>1, <2>1, <2>3 DEF CountInv
  <2> QED
    BY <2>2, <2>4, <2>5 DEF CountInv, Started, InHand
<1>8. ASSUME ~contended', damaged' = {} PROVE ChainInv'
  <2>1. CountInv /\ ChainInv
    BY <1>1, <1>8 DEF JudgedInv
  <2>2. \A v \in Workers : ~InHand(v)'
    BY <1>1, <2>1 DEF CountInv, Started, InHand
  <2>3. \A q \in actions : q.hash \in Int /\ q.hash < row.hash
    BY <1>1, <1>2, <2>1 DEF CountInv, Known, Hashes, Rows
  <2>4. Tip(row.prev)
    BY <1>1, <2>1 DEF ChainInv
  <2>5. ASSUME NEW r \in actions', r.prev # None
        PROVE  r.prev < r.hash /\ \A q \in actions' : ~(r.prev < q.hash /\ q.hash < r.hash)
    <3>1. CASE r \in actions
      <4>1. r.prev < r.hash /\ \A q \in actions : ~(r.prev < q.hash /\ q.hash < r.hash)
        BY <2>1, <2>5, <3>1 DEF ChainInv
      <4>2. ~(row.hash < r.hash)
        BY <1>3, <2>3, <3>1
      <4> QED
        BY <1>1, <4>1, <4>2
    <3>2. CASE r = row
      <4>1. row.prev \in Hashes /\ \A h \in Hashes : h <= row.prev
        BY <2>4, <2>5, <3>2 DEF Tip
      <4>2. row.prev \in Int /\ row.prev < row.hash
        BY <2>3, <4>1 DEF Hashes
      <4>3. \A q \in actions : q.hash <= row.prev
        BY <4>1 DEF Hashes
      <4> QED
        BY <1>1, <1>3, <2>3, <3>2, <4>2, <4>3
    <3> QED
      BY <1>1, <3>1, <3>2
  <2> QED
    BY <2>2, <2>5 DEF ChainInv
<1> QED
  BY <1>6, <1>7, <1>8 DEF JudgedInv

\* What is lost or altered is on the list of the damage, and known for ever.
LEMMA DamageJudged ==
  ASSUME JudgedInv, AuditInv', NEW r \in actions, Lose(r) \/ Alter(r) PROVE JudgedInv'
<1> USE AuditAssumption
<1>1. /\ actions' \subseteq actions /\ damaged' = damaged \cup {r.hash}
      /\ UNCHANGED <<head, clock, contended, pc, rec, seen>>
      /\ \/ actions' = actions /\ altered' = altered \cup {r.hash}
         \/ actions' = actions \ {r} /\ altered' = altered
  BY DEF Lose, Alter, table
<1>2. Hashes' \subseteq Hashes /\ Hashes \subseteq Hashes' \cup {r.hash} /\ r.hash \in Hashes
  BY <1>1 DEF Hashes
<1>3. Known' = Known /\ Cardinality(Known)' = Cardinality(Known)
  BY <1>1, <1>2 DEF Known
<1>4. damaged' \cap Hashes' \subseteq altered'
  <2>1. CASE actions' = actions /\ altered' = altered \cup {r.hash}
    BY <1>1, <2>1 DEF JudgedInv, FreshInv, Hashes
  <2>2. CASE actions' = actions \ {r} /\ altered' = altered
    <3>1. r.hash \notin Hashes'
      BY <2>2 DEF JudgedInv, FreshInv, Hashes
    <3> QED
      BY <1>1, <1>2, <2>2, <3>1 DEF JudgedInv, FreshInv
  <2> QED
    BY <1>1, <2>1, <2>2
<1>5. FreshInv'
  BY <1>1, <1>3, <1>4 DEF JudgedInv, FreshInv, InHand
<1>6. ~contended' => CountInv'
  BY <1>1, <1>3 DEF JudgedInv, CountInv, InHand, Started
<1>7. damaged' # {}
  BY <1>1
<1> QED
  BY <1>5, <1>6, <1>7 DEF JudgedInv

\* Every step keeps the invariant.
LEMMA JudgedStep == JudgedInv /\ [Next]_vars => JudgedInv'
<1> SUFFICES ASSUME JudgedInv, [Next]_vars PROVE JudgedInv'
  OBVIOUS
<1> USE AuditAssumption
<1>1. TypeOK /\ AuditInv'
  BY AuditStep DEF JudgedInv, AuditInv
<1>2. ASSUME NEW w \in Workers, Begin(w) PROVE JudgedInv'
  <2>1. pc' = [pc EXCEPT ![w] = "prev"] \/ pc' = [pc EXCEPT ![w] = "register"]
    BY <1>2 DEF Begin
  <2>2. ~contended' => ~contended /\ Started = {}
    BY <1>2, Zenon DEF Begin
  <2> QED
    BY <1>1, <1>2, <2>1, <2>2, LocalJudged DEF Begin, TypeOK, InHand
<1>3. ASSUME NEW w \in Workers, pc[w] # "idle", Finish(w), UNCHANGED <<table, clock, fault>>
      PROVE  JudgedInv'
  BY <1>1, <1>3, LocalJudged DEF Finish, TypeOK, InHand, fault
<1>4. ASSUME NEW w \in Workers, InsertAgent(w) PROVE JudgedInv'
  <2>1. CASE Finish(w)
    BY <1>3, <1>4, <2>1 DEF InsertAgent
  <2>2. CASE pc' = [pc EXCEPT ![w] = "prev"] /\ UNCHANGED <<rec, seen>>
    BY <1>1, <1>4, <2>2, LocalJudged DEF InsertAgent, TypeOK, InHand, fault
  <2> QED
    BY <1>4, <2>1, <2>2 DEF InsertAgent
<1>5. ASSUME NEW w \in Workers, ReadHead(w) PROVE JudgedInv'
  BY <1>1, <1>5, LocalJudged DEF ReadHead, TypeOK, InHand, fault
<1>6. ASSUME NEW w \in Workers, Flush(w) PROVE JudgedInv'
  <2>1. CASE Finish(w)
    BY <1>3, <1>6, <2>1 DEF Flush
  <2>2. CASE pc' = [pc EXCEPT ![w] = "commit"] /\ UNCHANGED <<rec, seen, newAgent>>
    BY <1>1, <1>6, <2>2, LocalJudged DEF Flush, TypeOK, InHand, fault
  <2> QED
    BY <1>6, <2>1, <2>2 DEF Flush
<1>7. ASSUME NEW w \in Workers, Abort(w) PROVE JudgedInv'
  BY <1>3, <1>7 DEF Abort
<1>8. ASSUME UNCHANGED vars PROVE JudgedInv'
  <2>1. Known' = Known /\ Hashes' = Hashes /\ Started' = Started
    BY <1>8 DEF vars, Known, Hashes, Started
  <2>2. FreshInv' /\ (CountInv => CountInv') /\ (ChainInv => ChainInv')
    BY <1>8, <2>1 DEF vars, JudgedInv, FreshInv, CountInv, ChainInv, Tip, InHand
  <2> QED
    BY <1>1, <1>8, <2>2 DEF vars, JudgedInv
<1> QED
  BY <1>1, <1>2, <1>4, <1>5, <1>6, <1>7, <1>8, ReadPrevJudged, CommitJudged, DamageJudged
  DEF Next, WorkerStep, Quiet

\* The verdict, read off the invariant: intact means verified, and any damage
\* shows as a broken record or as a head that counts more than there is.
LEMMA JudgedVerdict == JudgedInv => OrderlyChainIsJudged
<1> SUFFICES ASSUME JudgedInv, ~contended PROVE VerifyOk <=> damaged = {}
  BY DEF OrderlyChainIsJudged
<1> USE AuditAssumption
<1>1. CountInv /\ FreshInv /\ TypeOK /\ ChainResolves /\ IsFiniteSet(actions)
  BY DEF JudgedInv, AuditInv, NamesInv
<1>2. IsFiniteSet(Hashes) /\ Cardinality(actions) = Cardinality(Hashes)
  <2> DEFINE f == [r \in actions |-> r.hash]
  <2>1. f \in Bijection(actions, Hashes)
    <3>1. \A r \in actions : f[r] \in Hashes
      BY DEF Hashes
    <3>2. \A q, r \in actions : f[q] = f[r] => q = r
      BY <1>1 DEF FreshInv
    <3>3. \A h \in Hashes : \E r \in actions : f[r] = h
      BY DEF Hashes
    <3> QED
      BY <3>1, <3>2, <3>3, Fun_IsBij
  <2>2. ExistsBijection(actions, Hashes)
    BY <2>1 DEF ExistsBijection
  <2> QED
    BY <1>1, <2>2, FS_Bijection
<1>3. ASSUME damaged = {} PROVE VerifyOk
  <2>1. ChainInv /\ Known = Hashes /\ altered = {}
    BY <1>1, <1>3 DEF JudgedInv, Known, TypeOK
  <2>2. Broken = {}
    BY <1>1, <1>3, <2>1 DEF Broken, ChainResolves
  <2>3. ASSUME NEW q \in actions, NEW r \in actions, q # r, q.prev = r.prev, q.prev # None
        PROVE  FALSE
    <3>1. q.hash # r.hash /\ q.hash \in Int /\ r.hash \in Int
      BY <1>1, <2>3 DEF FreshInv, TypeOK, Rows
    <3>2. q.prev < q.hash /\ r.prev < r.hash
          /\ ~(q.prev < r.hash /\ r.hash < q.hash) /\ ~(r.prev < q.hash /\ q.hash < r.hash)
      BY <2>1, <2>3 DEF ChainInv
    <3> QED
      BY <2>3, <3>1, <3>2
  <2>4. HeadVerified
    <3>1. CASE head = None
      BY <1>1, <2>1, <3>1 DEF CountInv, HeadVerified, Hashes
    <3>2. CASE head # None
      BY <1>1, <1>2, <1>3, <2>1, <3>2 DEF CountInv, HeadVerified, ChainResolves
    <3> QED
      BY <3>1, <3>2
  <2> QED
    BY <2>2, <2>3, <2>4 DEF VerifyOk, Forked
<1>4. ASSUME NEW h \in damaged PROVE ~VerifyOk
  <2>1. CASE h \in Hashes
    <3>1. PICK r \in actions : r.hash = h
      BY <2>1 DEF Hashes
    <3>2. r \in Broken
      BY <1>1, <1>4, <2>1, <3>1 DEF Broken, FreshInv
    <3> QED
      BY <3>2 DEF VerifyOk
  <2>2. CASE h \notin Hashes
    <3>1. h \in Known /\ Hashes \subseteq Known /\ Hashes # Known
      BY <1>4, <2>2 DEF Known
    <3>2. /\ IsFiniteSet(Known) /\ Cardinality(Hashes) <= Cardinality(Known)
          /\ Cardinality(Hashes) # Cardinality(Known)
      <4>1. IsFiniteSet(Known) /\ Hashes \in SUBSET Known
        BY <1>1, <3>1 DEF FreshInv
      <4> QED
        BY <3>1, <4>1, FS_Subset
    <3>3. head # None /\ head.count = Cardinality(Known)
      BY <1>1, <3>1 DEF CountInv
    <3>4. ~HeadVerified
      BY <1>2, <3>2, <3>3 DEF HeadVerified
    <3> QED
      BY <3>4 DEF VerifyOk
  <2> QED
    BY <2>1, <2>2
<1> QED
  BY <1>3, <1>4

\* A log whose head was there from its first record: after appends one at a
\* time on one clock, verify_chain accepts it exactly when nothing was lost or
\* altered, whatever was appended before and after.
THEOREM OrderlyChainsAreJudged == ASSUME Legacy = 0 PROVE Spec => []OrderlyChainIsJudged
  BY InitJudged, JudgedStep, JudgedVerdict, PTL DEF Spec

-----------------------------------------------------------------------------
(* Audits: the checklists.                                                  *)

\* A request that is at one of some steps.
Doing(k, steps) == call[k].todo \in steps

RowsOK ==
  /\ audits \in Seq([framework : Frameworks, status : Stages] \cup {None})
  /\ assessed \in [Controls \X Assets -> Engagements!Statuses \cup {None}]
  /\ DOMAIN lines \subseteq (DOMAIN audits) \X Controls
  /\ \A l \in DOMAIN lines : lines[l] = [review |-> lines[l].review, auto |-> lines[l].auto]
  /\ lines = [l \in DOMAIN lines |-> lines[l]]
  /\ call = [k \in Clerks |-> call[k]]

CallsOK ==
  \A k \in Clerks :
    /\ Doing(k, {"reload", "seed", "load", "write"}) => call[k].audit \in DOMAIN audits
    /\ Doing(k, {"seed"}) => call[k].scope \subseteq Controls
    /\ Doing(k, {"write"}) => DOMAIN call[k].seen \subseteq {call[k].audit} \X Controls

\* An audit is seeded once, and nothing is known of its checklist before.
SeedInv ==
  \A k \in Clerks : Doing(k, {"reload", "seed"}) =>
    /\ \A l \in DOMAIN lines : l[1] # call[k].audit
    /\ \A j \in Clerks : Doing(j, {"write"}) /\ call[j].audit = call[k].audit => call[j].seen = <<>>
    /\ \A j \in Clerks \ {k} : Doing(j, {"reload", "seed"}) => call[j].audit # call[k].audit

\* A clean refresh has the posture as it is, and so has every refresh of the
\* same audit; what it saw of a line is still there, or is the posture.
CleanInv ==
  /\ clean \subseteq Clerks
  /\ \A k \in clean : /\ Doing(k, {"load", "write"})
                      /\ \A c \in Controls : call[k].latest[c] = Engagements!PostureByControl(c)
  /\ \A j, k \in Clerks :
       Doing(j, {"load", "write"}) /\ Doing(k, {"load", "write"}) /\ call[j].audit = call[k].audit
       => (j \in clean <=> k \in clean)
  /\ \A k \in clean : Doing(k, {"write"}) =>
       \A l \in DOMAIN lines : l \in DOMAIN call[k].seen =>
         \/ lines[l].auto = call[k].seen[l].auto
         \/ lines[l].auto = Engagements!PostureByControl(l[2])

\* The lines of a refreshed audit say the posture, and no refresh will undo it.
CurrentInv ==
  \A a \in fresh :
    /\ \A l \in DOMAIN lines : l[1] = a => lines[l].auto = Engagements!PostureByControl(l[2])
    /\ \A k \in Clerks : Doing(k, {"load", "write"}) /\ call[k].audit = a => k \in clean

EngagementInv == RowsOK /\ CallsOK /\ SeedInv /\ CleanInv /\ CurrentInv

\* Where the assessments have not moved, neither has the posture.
LEMMA PostureStays ==
  ASSUME assessed' = assessed, NEW c
  PROVE  Engagements!PostureByControl(c)' = Engagements!PostureByControl(c)
BY DEF Engagements!PostureByControl, Engagements!Rank, Engagements!Statuses

\* What the posture of a control is: the worst over its assets.
LEMMA PostureIsWorst ==
  ASSUME Engagements!AuditAssumption, RowsOK, NEW c \in Controls
  PROVE  LET p == Engagements!PostureByControl(c)
             found == {assessed[<<c, x>>] : x \in Assets}
         IN  /\ (p = "fail") = ("fail" \in found)
             /\ (p = "error") = ("error" \in found /\ "fail" \notin found)
             /\ (p = "pass") => found \subseteq {"pass", "not_applicable", None}
             /\ (p = None) = (found = {None})
<1> DEFINE S == Engagements!Statuses \cup {None}
           p == Engagements!PostureByControl(c)
           found == {assessed[<<c, x>>] : x \in Assets}
           R == Engagements!Rank
           P(s) == /\ \E x \in Assets : s = assessed[<<c, x>>]
                   /\ \A x \in Assets : R[assessed[<<c, x>>]] <= R[s]
<1>1. None \notin Engagements!Statuses /\ Assets # {}
  BY DEF Engagements!AuditAssumption
<1>2. /\ S = {"fail", "error", "pass", "not_applicable", None}
      /\ None \notin {"fail", "error", "pass", "not_applicable"}
  BY <1>1 DEF Engagements!Statuses
<1>3. R["fail"] = 4 /\ R["error"] = 3 /\ R["pass"] = 2 /\ R["not_applicable"] = 1 /\ R[None] = 0
  <2>1. \A s \in S : R[s] = CASE s = "fail" -> 4 [] s = "error" -> 3 [] s = "pass" -> 2
                             [] s = "not_applicable" -> 1 [] s = None -> 0
    BY DEF Engagements!Rank
  <2>2. R["fail"] = 4 /\ R["error"] = 3
    BY <1>2, <2>1
  <2>3. R["pass"] = 2 /\ R["not_applicable"] = 1
    BY <1>2, <2>1
  <2>4. R[None] = 0
    <3>1. /\ None # "fail" /\ None # "error" /\ None # "pass" /\ None # "not_applicable"
          /\ None \in S
      BY <1>2
    <3> HIDE DEF S, R
    <3> QED
      BY <2>1, <3>1
  <2> QED
    BY <2>2, <2>3, <2>4
<1>4. found \subseteq S /\ found # {}
  BY ZenonT(60), <1>1 DEF RowsOK
<1>5. \A s : P(s) <=> (s \in found /\ \A t \in found : R[t] <= R[s])
  OBVIOUS
<1> HIDE DEF S, found, R
<1>6. \E s \in S : s \in found /\ \A t \in found : R[t] <= R[s]
  <2>1. CASE "fail" \in found
    BY <1>2, <1>3, <1>4, <2>1
  <2>2. CASE "fail" \notin found /\ "error" \in found
    BY <1>2, <1>3, <1>4, <2>2
  <2>3. CASE "fail" \notin found /\ "error" \notin found /\ "pass" \in found
    BY <1>2, <1>3, <1>4, <2>3
  <2>4. CASE /\ "fail" \notin found /\ "error" \notin found /\ "pass" \notin found
             /\ "not_applicable" \in found
    BY <1>2, <1>3, <1>4, <2>4
  <2>5. CASE /\ "fail" \notin found /\ "error" \notin found /\ "pass" \notin found
             /\ "not_applicable" \notin found
    <3>1. \A t \in found : t = None
      BY <1>2, <1>4, <2>5
    <3>2. None \in found /\ None \in S
      BY <1>2, <1>4, <3>1
    <3> QED
      BY <1>3, <3>1, <3>2
  <2> QED
    BY <2>1, <2>2, <2>3, <2>4, <2>5
<1>7. \E s \in S : P(s)
  BY <1>5, <1>6
<1>8. p = CHOOSE s \in S : P(s)
  BY DEF Engagements!PostureByControl, S, R
<1>9. p \in S /\ P(p)
  <2> HIDE DEF P, p
  <2> QED
    BY <1>7, <1>8
<1>10. p \in S /\ p \in found /\ \A t \in found : R[t] <= R[p]
  BY <1>5, <1>9
<1> HIDE DEF P, p
<1>11. (p = "fail") = ("fail" \in found)
  BY <1>2, <1>3, <1>4, <1>10
<1>12. (p = "error") = ("error" \in found /\ "fail" \notin found)
  BY <1>2, <1>3, <1>4, <1>10
<1>13. p = "pass" => found \subseteq {"pass", "not_applicable", None}
  BY <1>2, <1>3, <1>4, <1>10
<1>14. (p = None) = (found = {None})
  <2>1. ASSUME p = None, NEW t \in found PROVE t = None
    <3>1. R[t] <= 0 /\ t \in S
      BY <1>3, <1>4, <1>10, <2>1
    <3> QED
      BY <1>2, <1>3, <3>1
  <2>2. p = None => found = {None}
    BY <1>10, <2>1
  <2>3. found = {None} => p = None
    BY <1>10
  <2> QED
    BY <2>2, <2>3
<1> QED
  BY <1>11, <1>12, <1>13, <1>14 DEF p, found

\* The request of k is v from here on, and not a clean refresh.
Turns(k, v) == call' = [call EXCEPT ![k] = v] /\ clean' = clean \ {k}

\* Nothing but reviews is written.
OnlyReviews ==
  /\ UNCHANGED <<audits, assessed, fresh>>
  /\ DOMAIN lines' = DOMAIN lines
  /\ lines' = [l \in DOMAIN lines |-> lines'[l]]
  /\ \A l \in DOMAIN lines :
       /\ lines'[l] = [review |-> lines'[l].review, auto |-> lines'[l].auto]
       /\ lines'[l].auto = lines[l].auto

\* A step that writes nothing writes no more than reviews.
LEMMA NothingIsReview ==
  ASSUME EngagementInv, UNCHANGED <<audits, lines, assessed, fresh>>
  PROVE  OnlyReviews
BY DEF EngagementInv, RowsOK, OnlyReviews

\* A request ends, or turns to something that leaves the checklists alone.
LEMMA RequestEnds ==
  ASSUME EngagementInv, NEW k \in Clerks, NEW v, v.todo \in {"idle", "look", "decide"},
         Turns(k, v), OnlyReviews
  PROVE  EngagementInv'
<1> USE DEF EngagementInv, Turns, OnlyReviews
<1>1. \A j \in Clerks : call'[j] = IF j = k THEN v ELSE call[j]
  BY DEF RowsOK
<1>2. RowsOK'
  <2>1. call' = [j \in Clerks |-> call'[j]]
    BY DEF RowsOK
  <2> QED
    BY <2>1 DEF RowsOK
<1>3. \A j \in Clerks : Doing(j, {"reload", "seed", "load", "write"})' => j # k /\ call'[j] = call[j]
  BY <1>1 DEF Doing
<1>4. CallsOK'
  BY <1>1, <1>3 DEF CallsOK, Doing
<1>5. SeedInv'
  BY <1>1, <1>3 DEF SeedInv, Doing
<1>6. \A c : Engagements!PostureByControl(c)' = Engagements!PostureByControl(c)
  BY PostureStays
<1>7. CleanInv'
  BY <1>1, <1>3, <1>6 DEF CleanInv, Doing
<1>8. CurrentInv'
  BY <1>1, <1>3, <1>6 DEF CurrentInv, Doing
<1> QED
  BY <1>2, <1>4, <1>5, <1>7, <1>8

\* A request ends and writes nothing.
LEMMA RequestDone ==
  ASSUME EngagementInv, NEW k \in Clerks, Turns(k, Engagements!Idle),
         UNCHANGED <<audits, lines, assessed, fresh>>
  PROVE  EngagementInv'
<1>1. Engagements!Idle.todo \in {"idle", "look", "decide"}
  BY DEF Engagements!Idle
<1>2. OnlyReviews
  BY NothingIsReview
<1> QED
  BY <1>1, <1>2, RequestEnds

\* What a request's step does to the others.
LEMMA CallFacts ==
  ASSUME EngagementInv, NEW k \in Clerks, NEW v, call' = [call EXCEPT ![k] = v]
  PROVE  /\ \A j \in Clerks : call'[j] = IF j = k THEN v ELSE call[j]
         /\ call' = [j \in Clerks |-> call'[j]]
BY DEF EngagementInv, RowsOK

\* A new audit has a number of its own.
LEMMA CreateKeeps ==
  ASSUME Engagements!AuditAssumption, EngagementInv, NEW k \in Clerks, NEW f \in Frameworks, Engagements!Create(k, f)
  PROVE  EngagementInv'
<1> USE DEF EngagementInv
<1> DEFINE a == Len(audits) + 1
           v == [todo |-> "reload", audit |-> a]
           row == [framework |-> f, status |-> "planning"]
<1>1. /\ call[k] = Engagements!Idle /\ call' = [call EXCEPT ![k] = v]
      /\ audits' = Append(audits, row)
      /\ UNCHANGED <<lines, assessed, clean, fresh>>
  BY DEF Engagements!Create, Engagements!Begin
<1>2. /\ \A j \in Clerks : call'[j] = IF j = k THEN v ELSE call[j]
      /\ call' = [j \in Clerks |-> call'[j]]
  BY <1>1, CallFacts
<1>3. /\ audits \in Seq([framework : Frameworks, status : Stages] \cup {None})
      /\ row \in [framework : Frameworks, status : Stages] \cup {None}
  BY DEF RowsOK, Engagements!AuditAssumption
<1>4. /\ audits' \in Seq([framework : Frameworks, status : Stages] \cup {None})
      /\ DOMAIN audits \subseteq DOMAIN audits' /\ a \in DOMAIN audits' /\ a \notin DOMAIN audits
  <2> HIDE DEF row
  <2> QED
    BY <1>1, <1>3
<1>5. v.todo = "reload" /\ v.audit = a
  OBVIOUS
<1> HIDE DEF v, a, row
<1>6. RowsOK'
  <2>1. (DOMAIN audits) \X Controls \subseteq (DOMAIN audits') \X Controls
    BY <1>4
  <2> QED
    BY <1>1, <1>2, <1>4, <2>1 DEF RowsOK
<1>7. CallsOK'
  BY <1>2, <1>4, <1>5 DEF CallsOK, Doing
<1>8. \A l \in DOMAIN lines : l[1] # a
  BY <1>4 DEF RowsOK
<1>9. \A j \in Clerks : Doing(j, {"reload", "seed", "load", "write"}) => call[j].audit # a
  BY <1>4 DEF CallsOK
<1>10. SeedInv'
  <2>1. ASSUME NEW i \in Clerks, Doing(i, {"reload", "seed"})'
        PROVE  /\ \A l \in DOMAIN lines : l[1] # call'[i].audit
               /\ \A j \in Clerks : Doing(j, {"write"})' /\ call'[j].audit = call'[i].audit
                                      => call'[j].seen = <<>>
               /\ \A j \in Clerks \ {i} : Doing(j, {"reload", "seed"})' => call'[j].audit # call'[i].audit
    <3>1. CASE i = k
      BY <1>2, <1>5, <1>8, <1>9, <2>1, <3>1 DEF Doing
    <3>2. CASE i # k
      BY <1>2, <1>5, <1>9, <2>1, <3>2 DEF Doing, SeedInv
    <3> QED
      BY <3>1, <3>2
  <2> QED
    BY <1>1, <2>1 DEF SeedInv
<1>11. \A j \in Clerks : Doing(j, {"load", "write"})' => j # k /\ call'[j] = call[j]
  BY <1>2, <1>5 DEF Doing
<1>12. \A c : Engagements!PostureByControl(c)' = Engagements!PostureByControl(c)
  BY <1>1, PostureStays
<1>13. k \notin clean
  BY <1>1 DEF CleanInv, Doing, Engagements!Idle
<1>14. CleanInv'
  BY <1>1, <1>2, <1>11, <1>12, <1>13 DEF CleanInv, Doing
<1>15. CurrentInv'
  BY <1>1, <1>2, <1>11, <1>12 DEF CurrentInv, Doing
<1> QED
  BY <1>6, <1>7, <1>10, <1>14, <1>15

\* The audit is read again before its checklist is made.
LEMMA ReloadKeeps ==
  ASSUME Engagements!AuditAssumption, EngagementInv, NEW k \in Clerks, Engagements!Reload(k)
  PROVE  EngagementInv'
<1> USE DEF EngagementInv
<1>1. /\ Doing(k, {"reload"})
      /\ UNCHANGED <<audits, lines, assessed, fresh>>
  BY DEF Engagements!Reload, Engagements!At, Doing
<1>2. CASE Turns(k, Engagements!Idle)
  BY <1>1, <1>2, RequestDone
<1>3. CASE /\ call[k].audit \in Engagements!Audits
           /\ call' = [call EXCEPT ![k] =
                         [todo |-> "seed", audit |-> @.audit,
                          scope |-> Engagements!ControlsForFramework(audits[@.audit].framework)]]
           /\ clean' = clean
  <2> DEFINE f == audits[call[k].audit].framework
             scope == Engagements!ControlsForFramework(f)
             v == [todo |-> "seed", audit |-> call[k].audit, scope |-> scope]
  <2>1. call' = [call EXCEPT ![k] = v]
    BY <1>3
  <2>2. f \in Frameworks
    BY <1>3 DEF RowsOK, Engagements!Audits
  <2>3. scope \subseteq Controls
    BY <2>2 DEF Engagements!ControlsForFramework, Engagements!AuditAssumption
  <2>4. v.todo = "seed" /\ v.audit = call[k].audit /\ v.scope \subseteq Controls
    BY <2>3
  <2> HIDE DEF v
  <2>5. /\ \A j \in Clerks : call'[j] = IF j = k THEN v ELSE call[j]
        /\ call' = [j \in Clerks |-> call'[j]]
    BY <2>1, CallFacts
  <2>6. RowsOK'
    BY <1>1, <2>5 DEF RowsOK
  <2>7. CallsOK'
    BY <1>1, <2>4, <2>5 DEF CallsOK, Doing
  <2>8. SeedInv'
    BY <1>1, <2>4, <2>5 DEF SeedInv, Doing
  <2>9. \A j \in Clerks : Doing(j, {"load", "write"})' => j # k /\ call'[j] = call[j]
    BY <2>4, <2>5 DEF Doing
  <2>10. \A c : Engagements!PostureByControl(c)' = Engagements!PostureByControl(c)
    BY <1>1, PostureStays
  <2>11. k \notin clean
    BY <1>1 DEF CleanInv, Doing
  <2>12. CleanInv'
    BY <1>1, <1>3, <2>5, <2>9, <2>10, <2>11 DEF CleanInv, Doing
  <2>13. CurrentInv'
    BY <1>1, <1>3, <2>5, <2>9, <2>10 DEF CurrentInv, Doing
  <2> QED
    BY <2>6, <2>7, <2>8, <2>12, <2>13
<1> QED
  BY <1>2, <1>3 DEF Engagements!Reload, Engagements!Done, Turns

\* The lines of a new checklist are its own.
LEMMA SeedKeeps ==
  ASSUME EngagementInv, NEW k \in Clerks, Engagements!Seed(k)
  PROVE  EngagementInv'
<1> USE DEF EngagementInv
<1> DEFINE a == call[k].audit
           new == Engagements!Seeded(k)
           v == [todo |-> "look", audit |-> a]
<1>1. /\ Doing(k, {"seed"})
      /\ lines' = [l \in DOMAIN lines \cup new |->
                     IF l \in new THEN [review |-> "not_started", auto |-> None] ELSE lines[l]]
      /\ call' = [call EXCEPT ![k] = v]
      /\ fresh' = fresh \ {a}
      /\ UNCHANGED <<audits, assessed, clean>>
  BY DEF Engagements!Seed, Engagements!At, Doing
<1>2. /\ \A j \in Clerks : call'[j] = IF j = k THEN v ELSE call[j]
      /\ call' = [j \in Clerks |-> call'[j]]
  BY <1>1, CallFacts
<1>3. v.todo = "look"
  OBVIOUS
<1>4. a \in DOMAIN audits /\ new \subseteq {a} \X Controls /\ \A l \in new : l[1] = a
  BY <1>1 DEF CallsOK, Doing, Engagements!Seeded
<1> HIDE DEF v, new
<1>5. RowsOK'
  <2>1. new \subseteq (DOMAIN audits) \X Controls
    BY <1>4
  <2> QED
    BY <1>1, <1>2, <2>1 DEF RowsOK
<1>6. \A j \in Clerks : Doing(j, {"reload", "seed", "load", "write"})' => j # k /\ call'[j] = call[j]
  BY <1>2, <1>3 DEF Doing
<1>7. CallsOK'
  BY <1>1, <1>2, <1>6 DEF CallsOK, Doing
<1>8. \A j \in Clerks \ {k} : Doing(j, {"reload", "seed"}) => call[j].audit # a
  BY <1>1 DEF SeedInv, Doing
<1>9. SeedInv'
  BY <1>1, <1>2, <1>4, <1>6, <1>8 DEF SeedInv, Doing
<1>10. \A c : Engagements!PostureByControl(c)' = Engagements!PostureByControl(c)
  BY <1>1, PostureStays
<1>11. k \notin clean
  BY <1>1 DEF CleanInv, Doing
<1>12. \A j \in Clerks : Doing(j, {"write"}) /\ call[j].audit = a => call[j].seen = <<>>
  BY <1>1 DEF SeedInv, Doing
<1>13. ASSUME NEW j \in clean, Doing(j, {"write"})', NEW l \in DOMAIN lines', l \in DOMAIN call'[j].seen
       PROVE  \/ lines'[l].auto = call'[j].seen[l].auto
              \/ lines'[l].auto = Engagements!PostureByControl(l[2])
  <2>1. j \in Clerks /\ j # k /\ call'[j] = call[j] /\ Doing(j, {"write"})
    BY <1>2, <1>11, <1>13 DEF CleanInv, Doing
  <2>2. l \notin new
    BY <1>4, <1>12, <1>13, <2>1 DEF CallsOK
  <2> QED
    BY <1>1, <1>13, <2>1, <2>2 DEF CleanInv
<1>14. CleanInv'
  <2>1. ASSUME NEW j \in clean'
        PROVE  /\ Doing(j, {"load", "write"})'
               /\ \A c \in Controls : call'[j].latest[c] = Engagements!PostureByControl(c)'
    BY <1>1, <1>2, <1>10, <1>11, <2>1 DEF CleanInv, Doing
  <2>2. \A i, j \in Clerks :
          Doing(i, {"load", "write"})' /\ Doing(j, {"load", "write"})' /\ call'[i].audit = call'[j].audit
          => (i \in clean' <=> j \in clean')
    BY <1>1, <1>6 DEF CleanInv, Doing
  <2>3. \A j \in clean' : Doing(j, {"write"})' =>
          \A l \in DOMAIN lines' : l \in DOMAIN call'[j].seen =>
             \/ lines'[l].auto = call'[j].seen[l].auto
             \/ lines'[l].auto = Engagements!PostureByControl(l[2])'
    BY <1>1, <1>10, <1>13
  <2> QED
    BY <1>1, <2>1, <2>2, <2>3 DEF CleanInv
<1>15. CurrentInv'
  BY <1>1, <1>2, <1>4, <1>6, <1>10 DEF CurrentInv, Doing
<1> QED
  BY <1>5, <1>7, <1>9, <1>14, <1>15

\* A refresh reads the posture.
LEMMA LookKeeps ==
  ASSUME EngagementInv, NEW k \in Clerks, Engagements!Look(k)
  PROVE  EngagementInv'
<1> USE DEF EngagementInv
<1> DEFINE a == call[k].audit
           v == [todo |-> "load", audit |-> a,
                 latest |-> [c \in Controls |-> Engagements!PostureByControl(c)]]
<1>1. /\ Doing(k, {"look"})
      /\ UNCHANGED <<audits, lines, assessed, fresh>>
  BY DEF Engagements!Look, Engagements!At, Doing
<1>2. CASE Turns(k, Engagements!Idle)
  BY <1>1, <1>2, RequestDone
<1>3. CASE /\ a \in Engagements!Audits
           /\ call' = [call EXCEPT ![k] = v]
           /\ clean' = IF Engagements!Refreshing(a) \subseteq clean THEN clean \cup {k} ELSE clean
  <2>1. /\ \A j \in Clerks : call'[j] = IF j = k THEN v ELSE call[j]
        /\ call' = [j \in Clerks |-> call'[j]]
    BY <1>3, CallFacts
  <2>2. /\ v.todo = "load" /\ v.audit = a
        /\ \A c \in Controls : v.latest[c] = Engagements!PostureByControl(c)
    OBVIOUS
  <2>3. a \in DOMAIN audits
    BY <1>3 DEF Engagements!Audits
  <2>4. \A j \in Clerks : j \in Engagements!Refreshing(a)
                            <=> Doing(j, {"load", "write"}) /\ call[j].audit = a
    BY DEF Engagements!Refreshing, Doing
  <2> HIDE DEF v
  <2>5. RowsOK'
    BY <1>1, <2>1 DEF RowsOK
  <2>6. CallsOK'
    BY <1>1, <2>1, <2>2, <2>3 DEF CallsOK, Doing
  <2>7. SeedInv'
    BY <1>1, <2>1, <2>2 DEF SeedInv, Doing
  <2>8. \A c : Engagements!PostureByControl(c)' = Engagements!PostureByControl(c)
    BY <1>1, PostureStays
  <2>9. k \notin clean
    BY <1>1 DEF CleanInv, Doing
  <2>10. k \in clean' <=> \A j \in Clerks : Doing(j, {"load", "write"}) /\ call[j].audit = a => j \in clean
    <3>1. Engagements!Refreshing(a) \subseteq Clerks
      BY DEF Engagements!Refreshing
    <3> QED
      BY <1>3, <2>4, <2>9, <3>1
  <2>11. \A j \in Clerks : j # k => (j \in clean' <=> j \in clean)
    BY <1>3
  <2>12. \A i, j \in Clerks :
           Doing(i, {"load", "write"})' /\ Doing(j, {"load", "write"})' /\ call'[i].audit = call'[j].audit
           => (i \in clean' <=> j \in clean')
    <3>1. ASSUME NEW j \in Clerks, j # k, Doing(j, {"load", "write"})', call'[j].audit = a
          PROVE  j \in clean' <=> k \in clean'
      <4>1. Doing(j, {"load", "write"}) /\ call[j].audit = a
        BY <2>1, <3>1 DEF Doing
      <4>2. \A i \in Clerks : Doing(i, {"load", "write"}) /\ call[i].audit = a => (i \in clean <=> j \in clean)
        BY <4>1 DEF CleanInv
      <4> QED
        BY <2>10, <2>11, <3>1, <4>1, <4>2
    <3>2. ASSUME NEW i \in Clerks, NEW j \in Clerks, i # k, j # k,
                 Doing(i, {"load", "write"})', Doing(j, {"load", "write"})', call'[i].audit = call'[j].audit
          PROVE  i \in clean' <=> j \in clean'
      <4>1. /\ Doing(i, {"load", "write"}) /\ Doing(j, {"load", "write"})
            /\ call[i].audit = call[j].audit
        BY <2>1, <3>2 DEF Doing
      <4> QED
        BY <2>11, <3>2, <4>1 DEF CleanInv
    <3>3. call'[k].audit = a
      BY <2>1, <2>2
    <3> QED
      BY <3>1, <3>2, <3>3
  <2>13. CleanInv'
    <3>1. clean' \subseteq Clerks
      BY <1>3 DEF CleanInv
    <3>2. ASSUME NEW j \in clean'
          PROVE  /\ Doing(j, {"load", "write"})'
                 /\ \A c \in Controls : call'[j].latest[c] = Engagements!PostureByControl(c)'
      <4>1. CASE j = k
        BY <2>1, <2>2, <2>8, <3>1, <4>1 DEF Doing
      <4>2. CASE j # k
        BY <2>1, <2>8, <2>11, <3>1, <4>2 DEF CleanInv, Doing
      <4> QED
        BY <4>1, <4>2
    <3>3. ASSUME NEW j \in clean', Doing(j, {"write"})'
          PROVE  \A l \in DOMAIN lines : l \in DOMAIN call'[j].seen =>
                    \/ lines[l].auto = call'[j].seen[l].auto
                    \/ lines[l].auto = Engagements!PostureByControl(l[2])'
      <4>1. j # k /\ j \in clean /\ Doing(j, {"write"}) /\ call'[j] = call[j]
        BY <2>1, <2>2, <2>11, <3>1, <3>3 DEF Doing
      <4> QED
        BY <2>8, <4>1 DEF CleanInv
    <3> QED
      BY <1>1, <2>12, <3>1, <3>2, <3>3 DEF CleanInv
  <2>14. CurrentInv'
    <3>1. ASSUME NEW b \in fresh, NEW j \in Clerks, Doing(j, {"load", "write"})', call'[j].audit = b
          PROVE  j \in clean'
      <4>1. CASE j = k
        BY <2>1, <2>2, <2>10, <3>1, <4>1 DEF CurrentInv
      <4>2. CASE j # k
        BY <2>1, <2>11, <3>1, <4>2 DEF CurrentInv, Doing
      <4> QED
        BY <4>1, <4>2
    <3> QED
      BY <1>1, <2>8, <3>1 DEF CurrentInv
  <2> QED
    BY <2>5, <2>6, <2>7, <2>13, <2>14
<1> QED
  BY <1>2, <1>3 DEF Engagements!Look, Engagements!Done, Turns

\* And then the lines.
LEMMA LoadKeeps ==
  ASSUME EngagementInv, NEW k \in Clerks, Engagements!Load(k)
  PROVE  EngagementInv'
<1> USE DEF EngagementInv
<1> DEFINE a == call[k].audit
           known == [l \in Engagements!LinesOf(a) |-> lines[l]]
           v == [todo |-> "write", audit |-> a, latest |-> call[k].latest, seen |-> known]
<1>1. /\ Doing(k, {"load"})
      /\ call' = [call EXCEPT ![k] = v]
      /\ UNCHANGED <<audits, lines, assessed, clean, fresh>>
  BY DEF Engagements!Load, Engagements!At, Doing
<1>2. /\ \A j \in Clerks : call'[j] = IF j = k THEN v ELSE call[j]
      /\ call' = [j \in Clerks |-> call'[j]]
  BY <1>1, CallFacts
<1>3. v.todo = "write" /\ v.audit = a /\ v.latest = call[k].latest /\ v.seen = known
  OBVIOUS
<1>4. /\ DOMAIN known \subseteq DOMAIN lines /\ \A l \in DOMAIN known : known[l] = lines[l] /\ l[1] = a
      /\ (\A l \in DOMAIN lines : l[1] # a) => known = <<>>
  BY DEF Engagements!LinesOf
<1>5. DOMAIN known \subseteq {a} \X Controls
  BY <1>4 DEF RowsOK
<1> HIDE DEF v, known
<1>6. RowsOK'
  BY <1>1, <1>2 DEF RowsOK
<1>7. CallsOK'
  BY <1>1, <1>2, <1>3, <1>5 DEF CallsOK, Doing
<1>8. SeedInv'
  <2>1. ASSUME NEW i \in Clerks, Doing(i, {"reload", "seed"})'
        PROVE  /\ \A l \in DOMAIN lines : l[1] # call'[i].audit
               /\ \A j \in Clerks : Doing(j, {"write"})' /\ call'[j].audit = call'[i].audit
                                      => call'[j].seen = <<>>
               /\ \A j \in Clerks \ {i} : Doing(j, {"reload", "seed"})' => call'[j].audit # call'[i].audit
    <3>1. i # k /\ Doing(i, {"reload", "seed"}) /\ call'[i] = call[i]
      BY <1>2, <1>3, <2>1 DEF Doing
    <3>2. \A l \in DOMAIN lines : l[1] # call[i].audit
      BY <3>1 DEF SeedInv
    <3>3. ASSUME NEW j \in Clerks, Doing(j, {"write"})', call'[j].audit = call'[i].audit
          PROVE  call'[j].seen = <<>>
      <4>1. CASE j = k
        BY <1>2, <1>3, <1>4, <3>1, <3>2, <3>3, <4>1
      <4>2. CASE j # k
        BY <1>2, <3>1, <3>3, <4>2 DEF SeedInv, Doing
      <4> QED
        BY <4>1, <4>2
    <3>4. ASSUME NEW j \in Clerks \ {i}, Doing(j, {"reload", "seed"})'
          PROVE  call'[j].audit # call'[i].audit
      BY <1>2, <1>3, <3>1, <3>4 DEF SeedInv, Doing
    <3> QED
      BY <3>1, <3>2, <3>3, <3>4
  <2> QED
    BY <1>1, <2>1 DEF SeedInv
<1>9. \A c : Engagements!PostureByControl(c)' = Engagements!PostureByControl(c)
  BY <1>1, PostureStays
<1>10. \A j \in Clerks : /\ Doing(j, {"load", "write"})' <=> Doing(j, {"load", "write"})
                         /\ Doing(j, {"load", "write"}) =>
                              call'[j].audit = call[j].audit /\ call'[j].latest = call[j].latest
  BY <1>1, <1>2, <1>3 DEF Doing
<1>11. ASSUME NEW j \in clean, Doing(j, {"write"})', NEW l \in DOMAIN lines, l \in DOMAIN call'[j].seen
       PROVE  \/ lines[l].auto = call'[j].seen[l].auto
              \/ lines[l].auto = Engagements!PostureByControl(l[2])
  <2>1. CASE j = k
    BY <1>2, <1>3, <1>4, <1>11, <2>1 DEF CleanInv
  <2>2. CASE j # k
    BY <1>2, <1>11, <2>2 DEF CleanInv, Doing
  <2> QED
    BY <2>1, <2>2
<1>12. CleanInv'
  BY <1>1, <1>9, <1>10, <1>11 DEF CleanInv
<1>13. CurrentInv'
  BY <1>1, <1>9, <1>10 DEF CurrentInv
<1> QED
  BY <1>6, <1>7, <1>8, <1>12, <1>13

\* What differs from the posture as it was read is written.
LEMMA WriteKeeps ==
  ASSUME EngagementInv, NEW k \in Clerks, Engagements!Write(k)
  PROVE  EngagementInv'
<1> USE DEF EngagementInv
<1> DEFINE a == call[k].audit
           known == call[k].seen
           latest == call[k].latest
           out == Engagements!Outdated(k)
           v == Engagements!Idle
           P(c) == Engagements!PostureByControl(c)
<1>1. /\ Doing(k, {"write"})
      /\ call' = [call EXCEPT ![k] = v] /\ clean' = clean \ {k}
      /\ UNCHANGED <<audits, assessed>>
  BY DEF Engagements!Write, Engagements!Done, Engagements!At, Doing
<1>2. v.todo = "idle"
  BY DEF Engagements!Idle
<1>3. CASE UNCHANGED <<lines, fresh>>
  BY <1>1, <1>3, RequestDone DEF Turns
<1>4. CASE /\ out \subseteq DOMAIN lines
           /\ lines' = [l \in DOMAIN lines |->
                          IF l \in out THEN Engagements!Refreshed(k, l) ELSE lines[l]]
           /\ fresh' = IF k \in clean /\ Engagements!LinesOf(a) = DOMAIN known
                       THEN fresh \cup ({a} \cap Engagements!Audits) ELSE fresh
  <2>1. /\ \A j \in Clerks : call'[j] = IF j = k THEN v ELSE call[j]
        /\ call' = [j \in Clerks |-> call'[j]]
    BY <1>1, CallFacts
  <2>2. \A j \in Clerks : Doing(j, {"reload", "seed", "load", "write"})' => j # k /\ call'[j] = call[j]
    BY <1>2, <2>1 DEF Doing
  <2>3. /\ DOMAIN known \subseteq {a} \X Controls
        /\ \A l : l \in out <=> l \in DOMAIN known /\ known[l].auto # latest[l[2]]
    BY <1>1 DEF CallsOK, Doing, Engagements!Outdated
  <2>4. \A l \in out : l[1] = a /\ l[2] \in Controls
    BY <2>3
  <2>5. /\ DOMAIN lines' = DOMAIN lines
        /\ lines' = [l \in DOMAIN lines |-> lines'[l]]
    BY <1>4
  <2>6. \A l \in DOMAIN lines :
          /\ lines'[l] = [review |-> lines'[l].review, auto |-> lines'[l].auto]
          /\ lines'[l].auto = IF l \in out THEN latest[l[2]] ELSE lines[l].auto
    <3>1. ASSUME NEW l \in DOMAIN lines, l \in out
          PROVE  lines'[l] = [review |-> lines[l].review, auto |-> latest[l[2]]]
      <4>1. lines'[l] = [lines[l] EXCEPT !.auto = latest[l[2]]]
        BY <1>4, <3>1 DEF Engagements!Refreshed
      <4>2. lines[l] = [review |-> lines[l].review, auto |-> lines[l].auto]
        BY DEF RowsOK
      <4> QED
        BY <4>1, <4>2
    <3>2. ASSUME NEW l \in DOMAIN lines, l \notin out
          PROVE  lines'[l] = lines[l]
      BY <1>4, <3>2
    <3>3. \A l \in DOMAIN lines : lines[l] = [review |-> lines[l].review, auto |-> lines[l].auto]
      BY DEF RowsOK
    <3>4. ASSUME NEW l \in DOMAIN lines
          PROVE  /\ lines'[l] = [review |-> lines'[l].review, auto |-> lines'[l].auto]
                 /\ lines'[l].auto = IF l \in out THEN latest[l[2]] ELSE lines[l].auto
      <4> HIDE DEF out, latest
      <4>1. CASE l \in out
        <5> DEFINE word == latest[l[2]]
                   said == lines[l].review
        <5>1. lines'[l] = [review |-> said, auto |-> word]
          BY <3>1, <4>1
        <5> HIDE DEF word, said
        <5>2. lines'[l].review = said /\ lines'[l].auto = word
          BY <5>1
        <5>3. lines'[l].auto = latest[l[2]]
          BY <5>2 DEF word
        <5> QED
          BY <4>1, <5>1, <5>2, <5>3
      <4>2. CASE l \notin out
        BY <3>2, <3>3, <4>2
      <4> QED
        BY <4>1, <4>2
    <3> QED
      BY <3>4
  <2> HIDE DEF v, out
  <2>7. RowsOK'
    BY <1>1, <2>1, <2>5, <2>6 DEF RowsOK
  <2>8. CallsOK'
    BY <1>1, <2>1, <2>2 DEF CallsOK, Doing
  <2>9. SeedInv'
    BY <2>2, <2>5 DEF SeedInv, Doing
  <2>10. \A c : P(c)' = P(c)
    BY <1>1, PostureStays
  <2>11. k \in clean => \A c \in Controls : latest[c] = P(c)
    BY DEF CleanInv
  <2>12. k \in clean => \A l \in DOMAIN lines : l \in DOMAIN known => lines'[l].auto = P(l[2])
    <3>1. SUFFICES ASSUME k \in clean, NEW l \in DOMAIN lines, l \in DOMAIN known
                   PROVE  lines'[l].auto = P(l[2])
      OBVIOUS
    <3>2. l[2] \in Controls
      BY <2>3, <3>1
    <3>3. CASE l \in out
      BY <2>6, <2>11, <3>1, <3>2, <3>3
    <3>4. CASE l \notin out
      <4>1. known[l].auto = P(l[2])
        BY <2>3, <2>11, <3>1, <3>2, <3>4
      <4>2. lines[l].auto = known[l].auto \/ lines[l].auto = P(l[2])
        BY <1>1, <3>1 DEF CleanInv
      <4> QED
        BY <2>6, <3>4, <4>1, <4>2
    <3> QED
      BY <3>3, <3>4
  <2>13. \A j \in Clerks : Doing(j, {"load", "write"}) /\ call[j].audit = a => (j \in clean <=> k \in clean)
    BY <1>1 DEF CleanInv, Doing
  <2>14. CleanInv'
    <3>1. ASSUME NEW j \in clean'
          PROVE  /\ Doing(j, {"load", "write"})'
                 /\ \A c \in Controls : call'[j].latest[c] = P(c)'
      BY <1>1, <2>1, <2>10, <3>1 DEF CleanInv, Doing
    <3>2. \A i, j \in Clerks :
            Doing(i, {"load", "write"})' /\ Doing(j, {"load", "write"})' /\ call'[i].audit = call'[j].audit
            => (i \in clean' <=> j \in clean')
      BY <1>1, <2>2 DEF CleanInv, Doing
    <3>3. ASSUME NEW j \in clean', Doing(j, {"write"})', NEW l \in DOMAIN lines, l \in DOMAIN call'[j].seen
          PROVE  \/ lines'[l].auto = call'[j].seen[l].auto
                 \/ lines'[l].auto = P(l[2])'
      <4>1. j \in Clerks /\ j # k /\ j \in clean /\ Doing(j, {"write"}) /\ call'[j] = call[j]
        BY <1>1, <2>2, <3>3 DEF CleanInv, Doing
      <4>2. CASE l \notin out
        <5>1. \/ lines[l].auto = call[j].seen[l].auto
              \/ lines[l].auto = P(l[2])
          BY <3>3, <4>1 DEF CleanInv
        <5>2. lines'[l].auto = lines[l].auto
          BY <2>6, <3>3, <4>2
        <5> QED
          BY <2>10, <4>1, <5>1, <5>2
      <4>3. CASE l \in out
        <5>1. l[1] = a /\ l \in DOMAIN known /\ l[1] = call[j].audit
          BY <2>3, <3>3, <4>1, <4>3 DEF CallsOK
        <5>2. k \in clean
          BY <2>13, <4>1, <5>1 DEF Doing
        <5> QED
          BY <2>10, <2>12, <5>1, <5>2
      <4> QED
        BY <4>2, <4>3
    <3>4. clean' \subseteq Clerks
      BY <1>1 DEF CleanInv
    <3> QED
      BY <2>5, <3>1, <3>2, <3>3, <3>4 DEF CleanInv
  <2>15. CurrentInv'
    <3>1. ASSUME NEW b \in fresh', NEW l \in DOMAIN lines, l[1] = b
          PROVE  lines'[l].auto = P(l[2])'
      <4>1. CASE b \in fresh /\ l \notin out
        BY <2>6, <2>10, <3>1, <4>1 DEF CurrentInv
      <4>2. CASE b \in fresh /\ l \in out
        <5>1. b = a /\ l \in DOMAIN known
          BY <2>3, <2>4, <3>1, <4>2
        <5>2. k \in clean
          BY <1>1, <4>2, <5>1 DEF CurrentInv, Doing
        <5> QED
          BY <2>10, <2>12, <5>1, <5>2
      <4>3. CASE b \notin fresh
        <5>1. b = a /\ k \in clean /\ Engagements!LinesOf(a) = DOMAIN known
          BY <1>4, <3>1, <4>3
        <5>2. l \in DOMAIN known
          BY <3>1, <5>1 DEF Engagements!LinesOf
        <5> QED
          BY <2>10, <2>12, <5>1, <5>2
      <4> QED
        BY <4>1, <4>2, <4>3
    <3>2. ASSUME NEW b \in fresh', NEW j \in Clerks, Doing(j, {"load", "write"})', call'[j].audit = b
          PROVE  j \in clean'
      <4>1. j # k /\ Doing(j, {"load", "write"}) /\ call[j].audit = b
        BY <2>2, <3>2 DEF Doing
      <4>2. CASE b \in fresh
        BY <1>1, <4>1, <4>2 DEF CurrentInv
      <4>3. CASE b \notin fresh
        BY <1>1, <1>4, <2>13, <3>2, <4>1, <4>3
      <4> QED
        BY <4>2, <4>3
    <3> QED
      BY <2>5, <3>1, <3>2 DEF CurrentInv
  <2> QED
    BY <2>7, <2>8, <2>9, <2>14, <2>15
<1> QED
  BY <1>3, <1>4 DEF Engagements!Write

\* A decision leaves the posture column alone.
LEMMA DecideKeeps ==
  ASSUME EngagementInv, NEW k \in Clerks, Engagements!Decide(k)
  PROVE  EngagementInv'
<1> DEFINE d == call[k]
<1>1. Turns(k, Engagements!Idle) /\ UNCHANGED <<audits, assessed, fresh>>
  BY DEF Engagements!Decide, Engagements!Done, Turns
<1>2. Engagements!Idle.todo \in {"idle", "look", "decide"}
  BY DEF Engagements!Idle
<1>3. \A l \in DOMAIN lines : lines[l] = [review |-> lines[l].review, auto |-> lines[l].auto]
  BY DEF EngagementInv, RowsOK
<1>4. OnlyReviews
  <2>1. CASE UNCHANGED lines
    BY <1>1, <2>1, NothingIsReview
  <2>2. CASE d.line \in DOMAIN lines /\ lines' = [lines EXCEPT ![d.line].review = d.review]
    <3>1. \A l \in DOMAIN lines :
            lines'[l] = IF l = d.line THEN [lines[l] EXCEPT !.review = d.review] ELSE lines[l]
      BY <2>2
    <3>2. \A l \in DOMAIN lines :
            [lines[l] EXCEPT !.review = d.review] = [review |-> d.review, auto |-> lines[l].auto]
      BY <1>3
    <3> QED
      BY <1>1, <1>3, <2>2, <3>1, <3>2 DEF OnlyReviews
  <2> QED
    BY <2>1, <2>2 DEF Engagements!Decide
<1> QED
  BY <1>1, <1>2, <1>4, RequestEnds

Begins(k, v) ==
  /\ call[k] = Engagements!Idle /\ call' = [call EXCEPT ![k] = v]
  /\ UNCHANGED clean

\* A request begins.
LEMMA TurnKeeps ==
  ASSUME EngagementInv, NEW k \in Clerks, NEW v, v.todo \in {"idle", "look", "decide"},
         Begins(k, v),
         UNCHANGED <<audits, lines, assessed, fresh>>
  PROVE  EngagementInv'
<1>1. clean' = clean \ {k}
  BY DEF EngagementInv, CleanInv, Doing, Engagements!Idle, Begins
<1>2. Turns(k, v) /\ OnlyReviews
  BY <1>1, NothingIsReview DEF Turns, Begins
<1> QED
  BY <1>2, RequestEnds

\* A step that leaves requests and posture alone, and only takes lines away.
LEMMA RowsGo ==
  ASSUME EngagementInv,
         audits' \in Seq([framework : Frameworks, status : Stages] \cup {None}),
         DOMAIN audits' = DOMAIN audits,
         DOMAIN lines' \subseteq DOMAIN lines,
         lines' = [l \in DOMAIN lines' |-> lines[l]],
         fresh' \subseteq fresh, UNCHANGED <<assessed, call, clean>>
  PROVE  EngagementInv'
<1> USE DEF EngagementInv
<1>1. \A l \in DOMAIN lines' : l \in DOMAIN lines /\ lines'[l] = lines[l]
  OBVIOUS
<1>2. RowsOK'
  BY <1>1 DEF RowsOK
<1>3. CallsOK'
  BY DEF CallsOK, Doing
<1>4. SeedInv'
  BY <1>1 DEF SeedInv, Doing
<1>5. \A c : Engagements!PostureByControl(c)' = Engagements!PostureByControl(c)
  BY PostureStays
<1>6. CleanInv'
  BY <1>1, <1>5 DEF CleanInv, Doing
<1>7. CurrentInv'
  BY <1>1, <1>5 DEF CurrentInv, Doing
<1> QED
  BY <1>2, <1>3, <1>4, <1>6, <1>7

\* An audit is changed, or goes with its checklist.
LEMMA AuditKeeps ==
  ASSUME Engagements!AuditAssumption, EngagementInv, NEW a \in Engagements!Audits,
         Engagements!Update(a) \/ Engagements!Delete(a)
  PROVE  EngagementInv'
<1> DEFINE AuditRows == [framework : Frameworks, status : Stages]
<1>1. audits \in Seq(AuditRows \cup {None}) /\ a \in DOMAIN audits /\ audits[a] \in AuditRows
  BY DEF EngagementInv, RowsOK, Engagements!Audits
<1>2. lines = [l \in DOMAIN lines |-> lines[l]]
  BY DEF EngagementInv, RowsOK
<1>3. CASE Engagements!Update(a)
  <2>1. PICK s \in Stages : audits' = [audits EXCEPT ![a].status = s]
    BY <1>3 DEF Engagements!Update
  <2>2. [audits[a] EXCEPT !.status = s] \in AuditRows
    BY <1>1
  <2>3. audits' = [audits EXCEPT ![a] = [audits[a] EXCEPT !.status = s]]
    BY <2>1
  <2>4. audits' \in Seq(AuditRows \cup {None}) /\ DOMAIN audits' = DOMAIN audits
    <3> HIDE DEF AuditRows
    <3> QED
      BY <1>1, <2>2, <2>3
  <2> QED
    BY <1>2, <1>3, <2>4, RowsGo DEF Engagements!Update
<1>4. CASE Engagements!Delete(a)
  <2>1. audits' \in Seq(AuditRows \cup {None}) /\ DOMAIN audits' = DOMAIN audits
    <3> HIDE DEF AuditRows
    <3> QED
      BY <1>1, <1>4 DEF Engagements!Delete
  <2>2. /\ DOMAIN lines' \subseteq DOMAIN lines
        /\ lines' = [l \in DOMAIN lines' |-> lines[l]]
    BY <1>4 DEF Engagements!Delete
  <2>3. fresh' \subseteq fresh /\ UNCHANGED <<assessed, call, clean>>
    BY <1>4 DEF Engagements!Delete
  <2> QED
    BY <2>1, <2>2, <2>3, RowsGo
<1> QED
  BY <1>3, <1>4

\* Once the posture moves no refresh is clean and no checklist fresh.
LEMMA AssessKeeps ==
  ASSUME EngagementInv, NEW c \in Controls, NEW x \in Assets, Engagements!Assess(c, x)
  PROVE  EngagementInv'
<1> USE DEF EngagementInv
<1>1. clean' = {} /\ fresh' = {} /\ UNCHANGED <<audits, lines, call>>
  BY DEF Engagements!Assess
<1>2. PICK s \in Engagements!Statuses : assessed' = [assessed EXCEPT ![<<c, x>>] = s]
  BY DEF Engagements!Assess
<1>3. assessed' \in [Controls \X Assets -> Engagements!Statuses \cup {None}]
  BY <1>2 DEF RowsOK
<1>4. RowsOK'
  BY <1>1, <1>3 DEF RowsOK
<1>5. CallsOK'
  BY <1>1 DEF CallsOK, Doing
<1>6. SeedInv'
  BY <1>1 DEF SeedInv, Doing
<1>7. CleanInv' /\ CurrentInv'
  BY <1>1 DEF CleanInv, CurrentInv
<1> QED
  BY <1>4, <1>5, <1>6, <1>7

\* Without audits there is nothing to keep.
LEMMA EngagementsBegin ==
  ASSUME Engagements!AuditAssumption, Engagements!Init
  PROVE  EngagementInv
<1>1. \A k \in Clerks : call[k].todo = "idle"
  BY DEF Engagements!Init, Engagements!Idle
<1>2. audits = <<>> /\ lines = [l \in {} |-> None] /\ DOMAIN lines = {} /\ clean = {} /\ fresh = {}
  BY DEF Engagements!Init
<1>3. assessed \in [Controls \X Assets -> Engagements!Statuses \cup {None}]
  BY DEF Engagements!Init, Engagements!Statuses
<1>4. call = [k \in Clerks |-> call[k]]
  BY DEF Engagements!Init
<1>5. audits \in Seq([framework : Frameworks, status : Stages] \cup {None})
  BY <1>2
<1>6. RowsOK
  BY <1>2, <1>3, <1>4, <1>5 DEF RowsOK
<1>7. CallsOK /\ SeedInv
  BY <1>1 DEF CallsOK, SeedInv, Doing
<1>8. CleanInv /\ CurrentInv
  BY <1>1, <1>2 DEF CleanInv, CurrentInv, Doing
<1> QED
  BY <1>6, <1>7, <1>8 DEF EngagementInv

\* Every step keeps the checklists in order.
LEMMA EngagementsKeep ==
  ASSUME Engagements!AuditAssumption, EngagementInv, [Engagements!Next]_Engagements!vars
  PROVE  EngagementInv'
<1>1. CASE UNCHANGED <<audits, lines, assessed, call, clean, fresh>>
  <2>1. lines' = [l \in DOMAIN lines' |-> lines[l]]
    BY <1>1 DEF EngagementInv, RowsOK
  <2> QED
    BY <1>1, <2>1, RowsGo DEF EngagementInv, RowsOK
<1>2. CASE \E k \in Clerks, f \in Frameworks : Engagements!Create(k, f)
  BY <1>2, CreateKeeps
<1>3. ASSUME NEW k \in Clerks,
             \/ Engagements!Reload(k) \/ Engagements!Seed(k) \/ Engagements!Look(k)
             \/ Engagements!Load(k) \/ Engagements!Write(k) \/ Engagements!Decide(k)
      PROVE  EngagementInv'
  BY <1>3, ReloadKeeps, SeedKeeps, LookKeeps, LoadKeeps, WriteKeeps, DecideKeeps
<1>4. ASSUME NEW k \in Clerks, Engagements!Die(k)
      PROVE  EngagementInv'
  BY <1>4, RequestDone DEF Engagements!Die, Engagements!Done, Turns
<1>5. ASSUME NEW k \in Clerks, NEW a \in 1..MaxAudits, Engagements!Refresh(k, a)
      PROVE  EngagementInv'
  <2> DEFINE v == [todo |-> "look", audit |-> a]
  <2>1. v.todo \in {"idle", "look", "decide"}
    OBVIOUS
  <2>2. /\ Begins(k, v)
        /\ UNCHANGED <<audits, lines, assessed, fresh>>
    BY <1>5 DEF Engagements!Refresh, Engagements!Begin, Begins
  <2> HIDE DEF v
  <2> QED
    BY <2>1, <2>2, TurnKeeps
<1>6. ASSUME NEW k \in Clerks, NEW l \in DOMAIN lines, Engagements!Review(k, l)
      PROVE  EngagementInv'
  <2>1. PICK r \in Reviews :
          Engagements!Begin(k, [todo |-> "decide", line |-> l, had |-> lines[l].review, review |-> r])
    BY <1>6 DEF Engagements!Review
  <2> DEFINE v == [todo |-> "decide", line |-> l, had |-> lines[l].review, review |-> r]
  <2>2. v.todo \in {"idle", "look", "decide"}
    OBVIOUS
  <2>3. /\ Begins(k, v)
        /\ UNCHANGED <<audits, lines, assessed, fresh>>
    BY <1>6, <2>1 DEF Engagements!Review, Engagements!Begin, Begins
  <2> HIDE DEF v
  <2> QED
    BY <2>2, <2>3, TurnKeeps
<1>7. CASE \E a \in Engagements!Audits : Engagements!Update(a) \/ Engagements!Delete(a)
  BY <1>7, AuditKeeps
<1>8. CASE \E c \in Controls, x \in Assets : Engagements!Assess(c, x)
  BY <1>8, AssessKeeps
<1>9. CASE \/ \E a \in 1..MaxAudits : Engagements!CreateRequest(a)
           \/ \E i \in DOMAIN asked : Engagements!UpdateRequest(i) \/ Engagements!DeleteRequest(i)
           \/ Engagements!Quiet \/ UNCHANGED Engagements!vars
  BY <1>1, <1>9 DEF Engagements!CreateRequest, Engagements!UpdateRequest, Engagements!DeleteRequest,
                    Engagements!Quiet, Engagements!vars
<1> QED
  BY <1>2, <1>3, <1>4, <1>5, <1>6, <1>7, <1>8, <1>9 DEF Engagements!Next

\* The checklists are always in order.
LEMMA EngagementsAlways ==
  ASSUME Engagements!AuditAssumption
  PROVE  Engagements!Spec => []EngagementInv
<1>1. Engagements!Init => EngagementInv
  BY EngagementsBegin
<1>2. EngagementInv /\ [Engagements!Next]_Engagements!vars => EngagementInv'
  BY EngagementsKeep
<1> QED
  BY <1>1, <1>2, PTL DEF Engagements!Spec

\* A checklist that was refreshed since the posture last moved says the worst
\* there is for every line.
THEOREM ChecklistsAreCurrent ==
  ASSUME Engagements!AuditAssumption
  PROVE  Engagements!Spec => []ChecklistIsCurrent
<1>1. EngagementInv => ChecklistIsCurrent
  <2>1. SUFFICES ASSUME EngagementInv, NEW a \in fresh, NEW l \in Engagements!LinesOf(a)
                 PROVE  LET found == {assessed[<<l[2], x>>] : x \in Assets} IN
                        /\ (lines[l].auto = "fail") = ("fail" \in found)
                        /\ (lines[l].auto = "error") = ("error" \in found /\ "fail" \notin found)
                        /\ (lines[l].auto = "pass") => found \subseteq {"pass", "not_applicable", None}
                        /\ (lines[l].auto = None) = (found = {None})
    BY DEF ChecklistIsCurrent, Engagements!ChecklistIsCurrent
  <2>2. lines[l].auto = Engagements!PostureByControl(l[2]) /\ l[2] \in Controls
    BY <2>1 DEF Engagements!LinesOf, EngagementInv, CurrentInv, RowsOK
  <2> QED
    BY <2>1, <2>2, PostureIsWorst DEF EngagementInv
<1> QED
  BY <1>1, EngagementsAlways, PTL

\* What a step may do to a reviewer's decision.
DecisionStands(l) ==
  \/ l \in DOMAIN lines' /\ lines'[l].review = lines[l].review
  \/ \E k \in Clerks : Engagements!At(k, "decide") /\ call[k].line = l /\ call'[k] = Engagements!Idle
  \/ l \notin DOMAIN lines' /\ l[1] \notin {a \in DOMAIN audits' : audits'[a] # None}

\* No other step changes it.
LEMMA DecisionsStand ==
  ASSUME EngagementInv, [Engagements!Next]_Engagements!vars, NEW l \in DOMAIN lines
  PROVE  DecisionStands(l)
<1>1. CASE UNCHANGED lines
  BY <1>1 DEF DecisionStands
<1>2. ASSUME NEW k \in Clerks, Engagements!Seed(k)
      PROVE  DecisionStands(l)
  <2>1. l[1] # call[k].audit
    BY <1>2 DEF EngagementInv, SeedInv, Doing, Engagements!Seed, Engagements!At
  <2>2. l \notin Engagements!Seeded(k)
    BY <2>1 DEF Engagements!Seeded
  <2> QED
    BY <1>2, <2>2 DEF DecisionStands, Engagements!Seed
<1>3. ASSUME NEW k \in Clerks, Engagements!Write(k)
      PROVE  DecisionStands(l)
  <2>1. CASE UNCHANGED lines
    BY <1>1, <2>1
  <2>2. CASE lines' = [m \in DOMAIN lines |->
                         IF m \in Engagements!Outdated(k) THEN Engagements!Refreshed(k, m) ELSE lines[m]]
    <3>1. l \in DOMAIN lines' /\ (l \notin Engagements!Outdated(k) => lines'[l] = lines[l])
      BY <2>2
    <3>2. ASSUME l \in Engagements!Outdated(k)
          PROVE  lines'[l].review = lines[l].review
      <4>1. lines'[l] = [lines[l] EXCEPT !.auto = call[k].latest[l[2]]]
        BY <2>2, <3>2 DEF Engagements!Refreshed
      <4>2. lines[l] = [review |-> lines[l].review, auto |-> lines[l].auto]
        BY DEF EngagementInv, RowsOK
      <4> QED
        BY <4>1, <4>2
    <3> QED
      BY <3>1, <3>2 DEF DecisionStands
  <2> QED
    BY <1>3, <2>1, <2>2 DEF Engagements!Write
<1>4. ASSUME NEW k \in Clerks, Engagements!Decide(k)
      PROVE  DecisionStands(l)
  <2>1. CASE l = call[k].line
    <3>1. call'[k] = Engagements!Idle
      BY <1>4, CallFacts DEF Engagements!Decide, Engagements!Done
    <3>2. Engagements!At(k, "decide")
      BY <1>4 DEF Engagements!Decide
    <3> QED
      BY <2>1, <3>1, <3>2 DEF DecisionStands
  <2>2. CASE l # call[k].line
    <3>1. l \in DOMAIN lines' /\ lines'[l] = lines[l]
      BY <1>4, <2>2 DEF Engagements!Decide
    <3> QED
      BY <3>1 DEF DecisionStands
  <2> QED
    BY <2>1, <2>2
<1>5. ASSUME NEW a \in Engagements!Audits, Engagements!Delete(a)
      PROVE  DecisionStands(l)
  <2>1. a \in DOMAIN audits /\ audits'[a] = None
    BY <1>5 DEF Engagements!Delete, Engagements!Audits
  <2>2. CASE l[1] = a
    <3>1. l \notin DOMAIN lines'
      BY <1>5, <2>2 DEF Engagements!Delete, Engagements!LinesOf
    <3> QED
      BY <2>1, <2>2, <3>1 DEF DecisionStands
  <2>3. CASE l[1] # a
    <3>1. l \in DOMAIN lines' /\ lines'[l] = lines[l]
      BY <1>5, <2>3 DEF Engagements!Delete, Engagements!LinesOf
    <3> QED
      BY <3>1 DEF DecisionStands
  <2> QED
    BY <2>2, <2>3
<1>6. CASE \/ \E k \in Clerks :
                \/ \E f \in Frameworks : Engagements!Create(k, f)
                \/ Engagements!Reload(k) \/ Engagements!Look(k) \/ Engagements!Load(k) \/ Engagements!Die(k)
                \/ \E a \in 1..MaxAudits : Engagements!Refresh(k, a)
                \/ \E m \in DOMAIN lines : Engagements!Review(k, m)
           \/ \E a \in Engagements!Audits : Engagements!Update(a)
           \/ \E a \in 1..MaxAudits : Engagements!CreateRequest(a)
           \/ \E i \in DOMAIN asked : Engagements!UpdateRequest(i) \/ Engagements!DeleteRequest(i)
           \/ \E c \in Controls, x \in Assets : Engagements!Assess(c, x)
           \/ Engagements!Quiet \/ UNCHANGED Engagements!vars
  <2>1. UNCHANGED lines
    BY <1>6 DEF Engagements!Create, Engagements!Reload, Engagements!Look, Engagements!Load, Engagements!Die,
                Engagements!Refresh, Engagements!Review, Engagements!Update, Engagements!CreateRequest,
                Engagements!UpdateRequest, Engagements!DeleteRequest, Engagements!Assess,
                Engagements!Quiet, Engagements!vars
  <2> QED
    BY <1>1, <2>1
<1> QED
  BY <1>2, <1>3, <1>4, <1>5, <1>6 DEF Engagements!Next

\* A decision changes only when a reviewer's request for that very line ends,
\* and a line goes only with its audit.
THEOREM ReviewsStand ==
  ASSUME Engagements!AuditAssumption
  PROVE  Engagements!Spec => ReviewStands
<1>1. EngagementInv /\ [Engagements!Next]_Engagements!vars
        => [\A l \in DOMAIN lines : DecisionStands(l)]_lines
  BY DecisionsStand
<1>2. EngagementInv /\ [Engagements!Next]_Engagements!vars
        => [\A l \in DOMAIN lines :
              \/ l \in DOMAIN lines' /\ lines'[l].review = lines[l].review
              \/ \E k \in Clerks :
                   Engagements!At(k, "decide") /\ call[k].line = l /\ call'[k] = Engagements!Idle
              \/ l \notin DOMAIN lines' /\ l[1] \notin {a \in DOMAIN audits' : audits'[a] # None}]_lines
  BY <1>1 DEF DecisionStands
<1> QED
  BY <1>2, EngagementsAlways, PTL DEF Engagements!Spec, ReviewStands, Engagements!ReviewStands
=============================================================================

--------------------------- MODULE Writers_proofs ---------------------------
(***************************************************************************)
(* Proofs about the services whose transactions replace or update rows     *)
(* that others hold, connector syncs, the risk register, policy runs and   *)
(* the platforms' syncs, as MCWriters sets them side by side.  A theorem   *)
(* is about one of them alone, for any number of requests of any kind.     *)
(***************************************************************************)
EXTENDS MCWriters, FiniteSetTheorems, Sums, TLAPS

-----------------------------------------------------------------------------
(* ConnectorSync: live evidence is whole and the state row describes it.    *)

Modes   == {"live", "demo"}
Types   == LiveTypes \cup DemoTypes
Batches == [call : Calls, mode : Modes, types : SUBSET Types]
Counts  == {Cardinality(T) : T \in SUBSET Types}
States  == [mode : Modes, count : Counts, status : {"ok"}, error : {FALSE}]
Working == {"delete", "wait", "row", "commit"}

SyncTypeOK ==
  /\ items \subseteq Batches
  /\ state \in States \cup {None}
  /\ phase \in [Calls -> {"new", "collect", "done"} \cup Working]
  /\ todo \in [Calls -> SUBSET LiveTypes]
  /\ got \in [Calls -> SUBSET LiveTypes]
  /\ seen \in [Calls -> SUBSET Batches]
  /\ held \in [Calls -> SUBSET Batches]
  /\ loaded \in [Calls -> States \cup {None}]
  /\ overlapped \in BOOLEAN

\* What a sync holds when it stops collecting is every type or nothing.
CollectInv ==
  \A k \in Calls :
    /\ phase[k] = "new" => got[k] = {}
    /\ phase[k] = "collect" => got[k] \cup todo[k] = LiveTypes
    /\ phase[k] \in Working => got[k] \in {{}, LiveTypes}

\* A sync on its own deletes all there is and loads the row as it stays.
AloneInv ==
  ~overlapped =>
    /\ \A j, k \in Active : j = k
    /\ \A k \in Calls :
         /\ phase[k] \in {"wait", "row", "commit"} => seen[k] = items
         /\ phase[k] \in {"row", "commit"} => held[k] = items
         /\ phase[k] = "commit" => loaded[k] = state

SyncInv == SyncTypeOK /\ CollectInv /\ AloneInv /\ SyncIsTrue

\* What a working sync would write.
LEMMA BatchFacts ==
  ASSUME SyncTypeOK, CollectInv, NEW k \in Calls, phase[k] \in Working
  PROVE  /\ Batch(k) \in Batches
         /\ Batch(k).call = k
         /\ Batch(k).mode = "live" => Batch(k).types = LiveTypes
         /\ Row(k) \in States
         /\ Row(k).mode = Batch(k).mode
         /\ Row(k).count = Cardinality(Batch(k).types)
<1>1. got[k] \in {{}, LiveTypes}
  BY DEF CollectInv
<1>2. Batch(k) \in Batches /\ Batch(k).call = k
  BY <1>1 DEF Batch, Batches, Modes, Types
<1>3. Batch(k).mode = "live" => Batch(k).types = LiveTypes
  BY <1>1 DEF Batch
<1>4. Batch(k).mode \in Modes /\ Batch(k).types \in SUBSET Types
  BY <1>2 DEF Batches
<1>5. Cardinality(Batch(k).types) \in Counts
  BY <1>4 DEF Counts
<1>6. Row(k) = [mode |-> Batch(k).mode, count |-> Cardinality(Batch(k).types),
                status |-> "ok", error |-> FALSE]
  BY DEF Row
<1> HIDE DEF Batch, Row
<1>7. Row(k) \in States
  BY <1>4, <1>5, <1>6 DEF States
<1> QED
  BY <1>2, <1>3, <1>6, <1>7

\* The row a commit leaves, and that a sync on its own writes all of it.
LEMMA WrittenFacts ==
  ASSUME SyncTypeOK, CollectInv, NEW k \in Calls, phase[k] = "commit"
  PROVE  /\ Written(k) \in States
         /\ loaded[k] = state =>
              Written(k).mode = Row(k).mode /\ Written(k).count = Row(k).count
<1>1. Row(k) \in States
  BY BatchFacts DEF Working
<1>2. CASE state = None
  BY <1>1, <1>2 DEF Written
<1>3. CASE state # None
  <2> DEFINE w == Written(k)
  <2>1. state \in States
    BY <1>3 DEF SyncTypeOK
  <2>2. DOMAIN state = {"mode", "count", "status", "error"}
    BY <2>1 DEF States
  <2>3. w = [f \in {"mode", "count", "status", "error"} |->
               IF loaded[k] # None /\ loaded[k][f] = Row(k)[f] THEN state[f] ELSE Row(k)[f]]
    BY <1>3, <2>2 DEF Written
  <2> HIDE DEF w
  <2>4. /\ w["mode"] \in Modes /\ w["count"] \in Counts
        /\ w["status"] = "ok" /\ w["error"] = FALSE
    BY <1>1, <2>1, <2>3 DEF States
  <2>5. w \in States
    BY <2>3, <2>4 DEF States
  <2>6. loaded[k] = state => w.mode = Row(k).mode /\ w.count = Row(k).count
    BY <2>3
  <2> QED
    BY <2>5, <2>6 DEF w
<1> QED
  BY <1>2, <1>3

\* A sync that ends leaves the others as they are.
LEMMA EndsFacts ==
  ASSUME SyncTypeOK, CollectInv, AloneInv, NEW k \in Active, Ends(k),
         items' \subseteq Batches, state' \in States \cup {None}
  PROVE  SyncTypeOK' /\ CollectInv' /\ AloneInv'
<1>1. k \in Calls
  BY DEF Active
<1>2. SyncTypeOK'
  BY <1>1 DEF SyncTypeOK, Ends
<1>3. CollectInv'
  BY <1>1 DEF SyncTypeOK, CollectInv, Ends, Working
<1>4. ASSUME ~overlapped PROVE Active' = {}
  BY <1>1, <1>4 DEF Active, AloneInv, SyncTypeOK, Ends
<1>5. AloneInv'
  BY <1>2, <1>4 DEF AloneInv, Active, Ends, SyncTypeOK
<1> QED
  BY <1>2, <1>3, <1>5

\* What a sync's own steps before its commit leave alone.
LEMMA RowsStay ==
  ASSUME SyncIsTrue, UNCHANGED rows, ~overlapped' => ~overlapped
  PROVE  SyncIsTrue'
BY DEF SyncIsTrue, StatusIsTrue, EvidenceIsWhole, rows

\* A commit replaces the evidence and the state row together.
LEMMA CommitKeeps ==
  ASSUME SyncInv, NEW k \in Calls, Commit(k)
  PROVE  SyncInv'
<1> USE DEF SyncInv
<1>1. /\ Batch(k) \in Batches /\ Batch(k).call = k
      /\ Batch(k).mode = "live" => Batch(k).types = LiveTypes
      /\ Row(k).mode = Batch(k).mode
      /\ Row(k).count = Cardinality(Batch(k).types)
  BY BatchFacts DEF Commit, Working
<1>2. /\ Written(k) \in States
      /\ loaded[k] = state =>
           Written(k).mode = Row(k).mode /\ Written(k).count = Row(k).count
  BY WrittenFacts DEF Commit
<1> DEFINE b == Batch(k)
<1>3. /\ items' = (items \ held[k]) \cup {b}
      /\ state' = Written(k) /\ last' = k
      /\ Ends(k) /\ phase[k] = "commit"
  BY DEF Commit
<1>4. k \in Active
  BY <1>3 DEF Active
<1>5. items' \subseteq Batches
  BY <1>1, <1>3 DEF SyncTypeOK
<1>6. SyncTypeOK' /\ CollectInv' /\ AloneInv'
  BY <1>2, <1>3, <1>4, <1>5, EndsFacts
<1> HIDE DEF b
<1>7. EvidenceIsWhole'
  BY <1>1, <1>3 DEF EvidenceIsWhole, SyncIsTrue, b
<1>8. StatusIsTrue'
  <2> SUFFICES ASSUME ~overlapped
               PROVE  /\ items' = {b} /\ b.call = last'
                      /\ b.mode = state'.mode
                      /\ Cardinality(b.types) = state'.count
    BY <1>3 DEF StatusIsTrue, Ends
  <2>1. held[k] = items /\ loaded[k] = state
    BY <1>3 DEF AloneInv
  <2> QED
    BY <1>1, <1>2, <1>3, <2>1 DEF b
<1> QED
  BY <1>6, <1>7, <1>8 DEF SyncIsTrue

\* Every step of a sync keeps what is known of all of them.
LEMMA SyncKeeps ==
  ASSUME SyncInv, NEW k \in Calls,
         \/ Begin(k) \/ Collected(k) \/ Retry(k) \/ GiveUp(k)
         \/ StartDelete(k) \/ Deleted(k) \/ LoadRow(k) \/ Commit(k) \/ Abort(k)
  PROVE  SyncInv'
<1> USE DEF SyncInv
<1>1. CASE Begin(k)
  <2>1. SyncTypeOK'
    BY <1>1 DEF Begin, SyncTypeOK, rows, trans, Working
  <2>2. CollectInv'
    BY <1>1 DEF Begin, SyncTypeOK, CollectInv, Working
  <2>3. AloneInv'
    <3> SUFFICES ASSUME ~overlapped' PROVE AloneInv'
      BY DEF AloneInv
    <3>1. ~overlapped /\ Active = {}
      BY <1>1 DEF Begin, SyncTypeOK
    <3>2. /\ \A j \in Calls \ {k} : phase'[j] = phase[j] /\ phase'[j] \in {"new", "done"}
          /\ phase'[k] \in {"collect", "delete"}
      BY <1>1, <3>1 DEF Begin, SyncTypeOK, Active
    <3>3. \A j \in Calls : phase'[j] \notin {"wait", "row", "commit"}
      BY <3>2
    <3>4. Active' \subseteq {k}
      BY <3>2 DEF Active
    <3> QED
      BY <3>3, <3>4 DEF AloneInv
  <2>4. SyncIsTrue'
    BY <1>1, RowsStay DEF Begin
  <2> QED
    BY <2>1, <2>2, <2>3, <2>4
<1>2. CASE Collected(k)
  <2>1. SyncTypeOK'
    BY <1>2 DEF Collected, SyncTypeOK, rows, trans, Working
  <2>2. CollectInv'
    BY <1>2 DEF Collected, SyncTypeOK, CollectInv, Working
  <2>3. AloneInv'
    BY <1>2 DEF Collected, SyncTypeOK, AloneInv, Active, rows, trans
  <2>4. SyncIsTrue'
    BY <1>2, RowsStay DEF Collected
  <2> QED
    BY <2>1, <2>2, <2>3, <2>4
<1>3. CASE Retry(k)
  <2>1. SyncIsTrue'
    BY <1>3, RowsStay DEF Retry
  <2> QED
    BY <1>3, <2>1 DEF Retry, SyncTypeOK, CollectInv, AloneInv, Active, rows, trans
<1>4. CASE GiveUp(k)
  <2>1. SyncTypeOK'
    BY <1>4 DEF GiveUp, SyncTypeOK, rows, trans, Working
  <2>2. CollectInv'
    BY <1>4 DEF GiveUp, SyncTypeOK, CollectInv, Working
  <2>3. AloneInv'
    BY <1>4 DEF GiveUp, SyncTypeOK, AloneInv, Active, rows, trans
  <2>4. SyncIsTrue'
    BY <1>4, RowsStay DEF GiveUp
  <2> QED
    BY <2>1, <2>2, <2>3, <2>4
<1>5. CASE StartDelete(k)
  <2>1. SyncTypeOK'
    BY <1>5 DEF StartDelete, SyncTypeOK, rows, live, Working
  <2>2. CollectInv'
    BY <1>5 DEF StartDelete, SyncTypeOK, CollectInv, live, Working
  <2>3. AloneInv'
    BY <1>5 DEF StartDelete, SyncTypeOK, AloneInv, Active, rows
  <2>4. SyncIsTrue'
    BY <1>5, RowsStay DEF StartDelete
  <2> QED
    BY <2>1, <2>2, <2>3, <2>4
<1>6. CASE Deleted(k)
  <2>1. SyncTypeOK'
    BY <1>6 DEF Deleted, SyncTypeOK, rows, live, Working
  <2>2. CollectInv'
    BY <1>6 DEF Deleted, SyncTypeOK, CollectInv, live, Working
  <2>3. AloneInv'
    BY <1>6 DEF Deleted, SyncTypeOK, AloneInv, Active, rows
  <2>4. SyncIsTrue'
    BY <1>6, RowsStay DEF Deleted
  <2> QED
    BY <2>1, <2>2, <2>3, <2>4
<1>7. CASE LoadRow(k)
  <2>1. SyncTypeOK'
    BY <1>7 DEF LoadRow, SyncTypeOK, rows, live, Working
  <2>2. CollectInv'
    BY <1>7 DEF LoadRow, SyncTypeOK, CollectInv, live, Working
  <2>3. AloneInv'
    BY <1>7 DEF LoadRow, SyncTypeOK, AloneInv, Active, rows
  <2>4. SyncIsTrue'
    BY <1>7, RowsStay DEF LoadRow
  <2> QED
    BY <2>1, <2>2, <2>3, <2>4
<1>8. CASE Commit(k)
  BY <1>8, CommitKeeps
<1>9. CASE Abort(k)
  <2>1. SyncTypeOK' /\ CollectInv' /\ AloneInv'
    BY <1>9, EndsFacts DEF Abort, SyncTypeOK, rows
  <2>2. SyncIsTrue'
    BY <1>9, RowsStay DEF Abort, Ends
  <2> QED
    BY <2>1, <2>2
<1> QED
  BY <1>1, <1>2, <1>3, <1>4, <1>5, <1>6, <1>7, <1>8, <1>9

\* For any number of syncs and however they overlap, die and retry: the items
\* of the one that committed last are there, live evidence is whole, and while
\* syncs follow one another the state row describes the only items.
THEOREM SyncsAreTrue == Spec => []SyncIsTrue
<1>1. Init => SyncInv
  <2>1. SUFFICES ASSUME Init PROVE SyncInv
    OBVIOUS
  <2>2. SyncTypeOK
    BY <2>1 DEF Init, SyncTypeOK
  <2>3. CollectInv /\ AloneInv
    BY <2>1 DEF Init, CollectInv, AloneInv, Active, Working
  <2>4. SyncIsTrue
    BY <2>1 DEF Init, SyncIsTrue, StatusIsTrue, EvidenceIsWhole
  <2> QED
    BY <2>2, <2>3, <2>4 DEF SyncInv
<1>2. SyncInv /\ [Next]_vars => SyncInv'
  <2> SUFFICES ASSUME SyncInv, [Next]_vars PROVE SyncInv'
    OBVIOUS
  <2>1. CASE UNCHANGED vars
    BY <2>1 DEF vars, rows, live, trans, SyncInv, SyncTypeOK, CollectInv, AloneInv,
                Active, SyncIsTrue, StatusIsTrue, EvidenceIsWhole
  <2> QED
    BY <2>1, SyncKeeps DEF Next, Quiet
<1>3. SyncInv => SyncIsTrue
  BY DEF SyncInv
<1> QED
  BY <1>1, <1>2, <1>3, PTL DEF Spec

-----------------------------------------------------------------------------
(* RiskRegister: the entry an answer "linked" names is the system's own.    *)
(* The lookup compares titles by their ends, so the theorem is about        *)
(* systems whose names do not end one another.                              *)

Entry == [system : Systems \cup {None}, vulnerable : BOOLEAN, impact : Nat]

NamesAssumption ==
  /\ Register!RegisterAssumption
  /\ None \notin Entry
  /\ \A s, t \in Systems : <<s, t>> \in EndsWith => s = t

\* Calls that are about to enter a risk, or to raise the impact of some.
Entering == [todo : {"enter"}, system : Systems, rows : {{}}]
Raising  == [todo : {"raise"}, system : {None}, rows : SUBSET (Nat \X Nat)]

RegisterTypeOK ==
  /\ risk \in Seq(Entry \cup {None})
  /\ call \in [RegisterCalls -> {None} \cup Entering \cup Raising]
  /\ linked \subseteq Systems \X Nat

RegisterInv == RegisterTypeOK /\ Register!LinkedHasItsRisk

\* A new entry is the register's last and leaves the others as they were.
LEMMA EnterFacts ==
  ASSUME NamesAssumption, RegisterTypeOK,
         NEW s \in Systems \cup {None}, NEW v \in BOOLEAN, NEW n \in 1..MaxImpact,
         Register!Enter(s, v, n)
  PROVE  /\ risk' \in Seq(Entry \cup {None})
         /\ Len(risk) + 1 \in Nat /\ Len(risk) + 1 \in Register!Entries'
         /\ risk'[Len(risk) + 1].system = s
         /\ \A i \in Register!Entries : i \in Register!Entries' /\ risk'[i] = risk[i]
<1> DEFINE e == [system |-> s, vulnerable |-> v, impact |-> n]
<1>1. e \in Entry /\ e # None
  BY DEF NamesAssumption, Register!RegisterAssumption, Entry
<1>2. risk' = Append(risk, e) /\ risk \in Seq(Entry \cup {None})
  BY DEF Register!Enter, RegisterTypeOK
<1> HIDE DEF e
<1>3. risk' \in Seq(Entry \cup {None}) /\ Len(risk') = Len(risk) + 1
  BY <1>1, <1>2
<1>4. risk'[Len(risk) + 1] = e /\ \A i \in 1..Len(risk) : risk'[i] = risk[i]
  BY <1>2
<1>5. Len(risk) \in Nat
  BY <1>2
<1> QED
  BY <1>1, <1>3, <1>4, <1>5 DEF Register!Entries, Register!Ids, e

\* Another entry in the place of one leaves the others as they were.
LEMMA PatchFacts ==
  ASSUME NamesAssumption, RegisterTypeOK, NEW i \in Register!Entries, NEW e \in Entry,
         risk' = [risk EXCEPT ![i] = e]
  PROVE  /\ risk' \in Seq(Entry \cup {None})
         /\ i \in Register!Entries' /\ risk'[i] = e
         /\ \A j \in Register!Entries : j # i => j \in Register!Entries' /\ risk'[j] = risk[j]
<1>1. risk \in Seq(Entry \cup {None}) /\ i \in 1..Len(risk)
  BY DEF RegisterTypeOK, Register!Entries, Register!Ids
<1>2. /\ Len(risk') = Len(risk)
      /\ risk' \in Seq(Entry \cup {None})
      /\ \A j \in 1..Len(risk) : risk'[j] = IF j = i THEN e ELSE risk[j]
  BY <1>1
<1>3. None \notin Entry
  BY DEF NamesAssumption
<1> QED
  BY <1>1, <1>2, <1>3 DEF Register!Entries, Register!Ids

\* Whatever keeps the entries to their systems keeps the answers true.
LEMMA StaysLinked ==
  ASSUME Register!LinkedHasItsRisk, linked' = linked,
         \A i \in Register!Entries : i \in Register!Entries' /\ risk'[i].system = risk[i].system
  PROVE  Register!LinkedHasItsRisk'
BY DEF Register!LinkedHasItsRisk

\* Every step of the register keeps an answered system and its risk together.
LEMMA RegisterKeeps ==
  ASSUME NamesAssumption, RegisterInv, Register!Next
  PROVE  RegisterInv'
<1> USE DEF RegisterInv
<1>1. ASSUME NEW k \in RegisterCalls, NEW s \in Systems, Register!Project(k, s)
      PROVE  RegisterInv'
  <2>1. risk' = risk
    BY <1>1 DEF Register!Project
  <2>2. ASSUME NEW i \in Register!EntryFor(s), linked' = linked \cup {<<s, i>>}, call' = call
        PROVE  RegisterInv'
    <3>1. i \in Register!Entries /\ risk[i].system # None /\ <<risk[i].system, s>> \in EndsWith
      BY <2>2 DEF Register!EntryFor
    <3>2. risk[i].system \in Systems
      BY <3>1 DEF NamesAssumption, Register!RegisterAssumption
    <3>3. risk[i].system = s /\ i \in Nat
      BY <3>1, <3>2 DEF NamesAssumption, Register!Entries, Register!Ids
    <3>4. RegisterTypeOK'
      BY <2>1, <2>2, <3>3 DEF RegisterTypeOK
    <3> QED
      BY <2>1, <2>2, <3>1, <3>3, <3>4
      DEF Register!LinkedHasItsRisk, Register!Entries, Register!Ids
  <2>3. CASE /\ call' = [call EXCEPT ![k] = [todo |-> "enter", system |-> s, rows |-> {}]]
             /\ linked' = linked
    <3>1. RegisterTypeOK'
      BY <2>1, <2>3 DEF RegisterTypeOK, Entering
    <3> QED
      BY <2>1, <2>3, <3>1 DEF Register!LinkedHasItsRisk, Register!Entries, Register!Ids
  <2> QED
    BY <1>1, <2>2, <2>3 DEF Register!Project
<1>2. ASSUME NEW k \in RegisterCalls, Register!Link(k)
      PROVE  RegisterInv'
  <2>1. call[k] \in Entering
    BY <1>2 DEF Register!Link, RegisterTypeOK, Raising, Entering
  <2> DEFINE s == call[k].system
  <2>2. s \in Systems
    BY <2>1 DEF Entering
  <2>3. PICK n \in 1..MaxImpact : Register!Enter(s, FALSE, n)
    BY <1>2 DEF Register!Link
  <2>4. /\ risk' \in Seq(Entry \cup {None})
        /\ Len(risk) + 1 \in Nat /\ Len(risk) + 1 \in Register!Entries'
        /\ risk'[Len(risk) + 1].system = s
        /\ \A i \in Register!Entries : i \in Register!Entries' /\ risk'[i] = risk[i]
    BY <2>2, <2>3, EnterFacts
  <2>5. linked' = linked \cup {<<s, Len(risk) + 1>>} /\ call' = [call EXCEPT ![k] = None]
    BY <1>2 DEF Register!Link
  <2>6. RegisterTypeOK'
    BY <2>2, <2>4, <2>5 DEF RegisterTypeOK
  <2> QED
    BY <2>4, <2>5, <2>6 DEF Register!LinkedHasItsRisk
<1>3. ASSUME NEW k \in RegisterCalls, Register!Escalate(k)
      PROVE  RegisterInv'
  <2>1. risk' = risk /\ linked' = linked
    BY <1>3 DEF Register!Escalate
  <2>2. \A j \in Register!Entries : risk[j] \in Entry /\ j \in Nat
    BY DEF RegisterTypeOK, Register!Entries, Register!Ids
  <2> DEFINE again == {j \in Register!Entries : /\ risk[j].vulnerable
                                                /\ risk[j].impact < MaxImpact}
             list == {<<i, risk[i].impact>> : i \in again}
  <2>3. list \in SUBSET (Nat \X Nat)
    BY <2>2 DEF Entry
  <2>4. call' = [call EXCEPT ![k] = [todo |-> "raise", system |-> None, rows |-> list]]
    BY <1>3 DEF Register!Escalate
  <2> HIDE DEF list
  <2>5. RegisterTypeOK'
    BY <2>1, <2>3, <2>4 DEF RegisterTypeOK, Raising
  <2> QED
    BY <2>1, <2>5 DEF Register!LinkedHasItsRisk, Register!Entries, Register!Ids
<1>4. ASSUME NEW k \in RegisterCalls, Register!Raise(k)
      PROVE  RegisterInv'
  <2>1. call[k] \in Raising
    BY <1>4 DEF Register!Raise, RegisterTypeOK, Raising, Entering
  <2>2. PICK row \in call[k].rows :
          /\ row[1] \in Register!Entries
          /\ risk' = [risk EXCEPT ![row[1]].impact = Register!Raised(row[2])]
          /\ call' = [call EXCEPT ![k].rows = @ \ {row}]
    BY <1>4 DEF Register!Raise
  <2>3. row \in Nat \X Nat /\ Register!Raised(row[2]) \in Nat
    BY <2>1, <2>2 DEF Raising, Register!Raised
  <2>7. risk[row[1]] \in Entry
    BY <2>2 DEF RegisterTypeOK, Register!Entries, Register!Ids
  <2> DEFINE e == [risk[row[1]] EXCEPT !.impact = Register!Raised(row[2])]
  <2>8. e \in Entry
    BY <2>3, <2>7 DEF Entry
  <2>9. e.system = risk[row[1]].system
    BY <2>7 DEF Entry
  <2>10. row[1] \in Register!Entries /\ risk' = [risk EXCEPT ![row[1]] = e]
    BY <2>2
  <2> HIDE DEF e
  <2>4. /\ risk' \in Seq(Entry \cup {None})
        /\ \A j \in Register!Entries : j \in Register!Entries' /\ risk'[j].system = risk[j].system
    <3>1. PICK i \in Register!Entries : i = row[1]
      BY <2>10
    <3>2. /\ risk' \in Seq(Entry \cup {None})
          /\ i \in Register!Entries' /\ risk'[i] = e
          /\ \A j \in Register!Entries : j # i => j \in Register!Entries' /\ risk'[j] = risk[j]
      BY <2>8, <2>10, <3>1, PatchFacts
    <3> QED
      BY <2>9, <3>1, <3>2
  <2>5. linked' = linked
    BY <1>4 DEF Register!Raise
  <2>6. RegisterTypeOK'
    BY <2>1, <2>2, <2>4, <2>5 DEF RegisterTypeOK, Raising
  <2> QED
    BY <2>4, <2>5, <2>6, StaysLinked
<1>5. ASSUME NEW k \in RegisterCalls, Register!Skip(k)
      PROVE  RegisterInv'
  <2>1. call[k] \in Raising
    BY <1>5 DEF Register!Skip, RegisterTypeOK, Raising, Entering
  <2>2. \E left \in SUBSET call[k].rows : call' = [call EXCEPT ![k].rows = left]
    BY <1>5 DEF Register!Skip
  <2>3. risk' = risk /\ linked' = linked
    BY <1>5 DEF Register!Skip
  <2>4. RegisterTypeOK'
    BY <2>1, <2>2, <2>3 DEF RegisterTypeOK, Raising
  <2> QED
    BY <2>3, <2>4 DEF Register!LinkedHasItsRisk, Register!Entries, Register!Ids
<1>6. ASSUME NEW k \in RegisterCalls, Register!Escalated(k)
      PROVE  RegisterInv'
  BY <1>6 DEF Register!Escalated, RegisterTypeOK,
       Register!LinkedHasItsRisk, Register!Entries, Register!Ids
<1>7. CASE Register!Create
  <2>1. PICK s \in Systems \cup {None}, v \in BOOLEAN, n \in 1..MaxImpact :
          Register!Enter(s, v, n)
    BY <1>7 DEF Register!Create
  <2>2. /\ risk' \in Seq(Entry \cup {None})
        /\ \A i \in Register!Entries : i \in Register!Entries' /\ risk'[i] = risk[i]
    BY <2>1, EnterFacts
  <2>3. linked' = linked /\ call' = call
    BY <1>7 DEF Register!Create
  <2> QED
    BY <2>2, <2>3, StaysLinked DEF RegisterTypeOK
<1>8. ASSUME NEW i \in Register!Entries, Register!Update(i)
      PROVE  RegisterInv'
  <2>1. PICK s \in Systems \cup {None}, v \in BOOLEAN, n \in 1..MaxImpact :
          /\ risk' = [risk EXCEPT ![i] = [system |-> s, vulnerable |-> v, impact |-> n]]
          /\ linked' = IF s = risk[i].system THEN linked ELSE Register!Elsewhere(i)
    BY <1>8 DEF Register!Update
  <2> DEFINE e == [system |-> s, vulnerable |-> v, impact |-> n]
  <2>0. n \in Nat
    BY DEF NamesAssumption, Register!RegisterAssumption
  <2>2. e \in Entry /\ e.system = s
    BY <2>0 DEF Entry
  <2>7. risk' = [risk EXCEPT ![i] = e]
    BY <2>1
  <2> HIDE DEF e
  <2>3. /\ risk' \in Seq(Entry \cup {None})
        /\ i \in Register!Entries' /\ risk'[i].system = s
        /\ \A j \in Register!Entries : j # i => j \in Register!Entries' /\ risk'[j] = risk[j]
    BY <2>2, <2>7, PatchFacts
  <2>4. \A answer \in linked' : answer \in linked /\ (answer[2] = i => risk[i].system = s)
    BY <2>1 DEF Register!Elsewhere
  <2>5. Register!LinkedHasItsRisk'
    BY <2>3, <2>4 DEF Register!LinkedHasItsRisk
  <2>6. call' = call
    BY <1>8 DEF Register!Update
  <2> QED
    BY <2>3, <2>4, <2>5, <2>6 DEF RegisterTypeOK
<1>9. ASSUME NEW i \in Register!Entries, Register!Delete(i)
      PROVE  RegisterInv'
  <2>1. /\ risk' = [risk EXCEPT ![i] = None]
        /\ linked' = Register!Elsewhere(i)
        /\ call' = call
    BY <1>9 DEF Register!Delete
  <2>2. risk' \in Seq(Entry \cup {None}) /\ Len(risk') = Len(risk)
    BY <2>1 DEF RegisterTypeOK, Register!Entries, Register!Ids
  <2>3. \A j \in Register!Entries \ {i} : j \in Register!Entries' /\ risk'[j] = risk[j]
    BY <2>1, <2>2 DEF RegisterTypeOK, Register!Entries, Register!Ids
  <2>4. \A answer \in linked' : answer \in linked /\ answer[2] # i
    BY <2>1 DEF Register!Elsewhere
  <2>5. Register!LinkedHasItsRisk'
    BY <2>3, <2>4 DEF Register!LinkedHasItsRisk
  <2> QED
    BY <2>1, <2>2, <2>4, <2>5 DEF RegisterTypeOK
<1>10. CASE Register!Quiet
  BY <1>10 DEF Register!Quiet, Register!vars, RegisterTypeOK,
       Register!LinkedHasItsRisk, Register!Entries, Register!Ids
<1> QED
  BY <1>1, <1>2, <1>3, <1>4, <1>5, <1>6, <1>7, <1>8, <1>9, <1>10 DEF Register!Next

\* However projections, escalations and edits overlap, the entry an answer
\* "linked" names stays the system's own until someone deletes it, renames it or
\* moves it: the entry is committed with the answer, and an escalation from an
\* older list touches neither title nor category.
THEOREM AnswersStand ==
  ASSUME NamesAssumption
  PROVE  Register!Spec => []LinkedHasItsRisk
<1>1. Register!Init => RegisterInv
  BY DEF Register!Init, RegisterInv, RegisterTypeOK, Register!LinkedHasItsRisk
<1>2. RegisterInv /\ [Register!Next]_(Register!vars) => RegisterInv'
  <2>1. ASSUME RegisterInv, UNCHANGED Register!vars PROVE RegisterInv'
    BY <2>1 DEF RegisterInv, RegisterTypeOK,
         Register!LinkedHasItsRisk, Register!Entries, Register!Ids, Register!vars
  <2> QED
    BY <2>1, RegisterKeeps
<1>3. RegisterInv => LinkedHasItsRisk
  BY DEF RegisterInv, LinkedHasItsRisk
<1> QED
  BY <1>1, <1>2, <1>3, PTL DEF Register!Spec

-----------------------------------------------------------------------------
(* PolicyFindings: an open finding is about a policy that fails.            *)

\* Verdicts as they are recorded.
Records == {"pass", "fail", "error"}

PolicyTypeOK ==
  /\ finding \in [Findings!Controls -> Seq(Findings!Finding)]
  /\ pos \in [Runs -> 0..Findings!Idle]
  /\ decided \in [Runs -> [Findings!Controls -> Records]]
  /\ found \in [Runs -> [Findings!Controls -> {None} \cup (Nat \X Findings!Finding)]]

\* What a run loads is an open finding of a policy it decided, and it stays
\* where it was.  A run that is not under way has loaded nothing.
LoadedInv ==
  \A r \in Runs : \A c \in Findings!Controls :
    found[r][c] # None =>
      /\ r \in Findings!Active
      /\ c \in Findings!Written(r)
      /\ found[r][c][1] \in Findings!Places(c)
      /\ found[r][c][2].lifecycle = "open"

OpenInv ==
  \A c \in Findings!Controls : \A i \in Findings!OpenOf(c) :
    finding[c][i].status = "fail" \/ <<c, i, "pass">> \in reopened

\* The n-th policy is one that r has looked up.
Passed(r, n) == 2 * n <= pos[r] + 1

\* While runs follow one another, no open finding appears that the run under
\* way did not load, but those that someone opens again.
TurnInv ==
  ~runsOverlapped =>
    /\ \A q, r \in Findings!Active : q = r
    /\ \A c \in Findings!Controls : \A i, j \in Findings!Raised(c) : i = j
    /\ \A r \in Findings!Active : \A n \in 1..Len(Order) :
         /\ Passed(r, n)
         /\ Order[n] \in Findings!Written(r)
         /\ found[r][Order[n]] = None
         => Findings!Raised(Order[n]) = {}

PolicyInv == PolicyTypeOK /\ LoadedInv /\ OpenInv /\ TurnInv

\* The positions of a run are numbers, and the one it has when it is not
\* under way is none of the others.
LEMMA Positions ==
  ASSUME Findings!PolicyAssumption
  PROVE  /\ Len(Order) \in Nat
         /\ Findings!Full \in Nat /\ Findings!Idle = Findings!Full + 1
         /\ Findings!Full = 2 * Len(Order)
         /\ \A n \in 1..Len(Order) : Order[n] \in Findings!Controls
         /\ \A c \in Findings!Controls : \E n \in 1..Len(Order) : Order[n] = c
<1>1. Order \in Seq(Findings!Controls)
  BY DEF Findings!PolicyAssumption
<1>2. Findings!Controls = {Order[n] : n \in DOMAIN Order}
  BY DEF Findings!Controls, Findings!Range
<1> QED
  BY <1>1, <1>2 DEF Findings!Full, Findings!Idle

\* What triage, and a commit, may do to the findings of one control: keep the
\* places, and close what is open or leave it open, failing or as it was; what
\* becomes open is noted.
Closes(c) ==
  /\ finding'[c] \in Seq(Findings!Finding)
  /\ Len(finding'[c]) = Len(finding[c])
  /\ reopened \subseteq reopened'
  /\ \A i \in Findings!Places(c) : finding'[c][i].lifecycle = "open" =>
       \/ /\ finding[c][i].lifecycle = "open"
          /\ finding'[c][i].status \in {finding[c][i].status, "fail"}
       \/ <<c, i, finding'[c][i].status>> \in reopened'

\* Of findings that are closed or opened by hand, none is raised.
LEMMA ClosingOpensNone ==
  ASSUME PolicyTypeOK, OpenInv, NEW c \in Findings!Controls, Closes(c)
  PROVE  /\ Findings!Raised(c)' \subseteq Findings!Raised(c)
         /\ \A i \in Findings!OpenOf(c)' :
              finding'[c][i].status = "fail" \/ <<c, i, "pass">> \in reopened'
         /\ Findings!Places(c)' = Findings!Places(c)
<1>1. Findings!Places(c)' = Findings!Places(c)
  BY DEF Closes, Findings!Places
<1>2. finding'[c] \in Seq(Findings!Finding)
  BY DEF Closes
<1>3. ASSUME NEW i \in Findings!OpenOf(c)'
      PROVE  /\ i \in Findings!Places(c) /\ finding'[c][i].status \in {"pass", "fail"}
             /\ \/ /\ i \in Findings!OpenOf(c)
                   /\ finding'[c][i].status \in {finding[c][i].status, "fail"}
                \/ <<c, i, finding'[c][i].status>> \in reopened'
  <2>1. i \in Findings!Places(c) /\ finding'[c][i].lifecycle = "open"
    BY <1>1 DEF Findings!OpenOf
  <2>2. finding'[c][i] \in Findings!Finding
    BY <1>1, <1>2, <2>1 DEF Findings!Places
  <2> QED
    BY <2>1, <2>2 DEF Closes, Findings!OpenOf, Findings!Finding
<1>4. ASSUME NEW i \in Findings!OpenOf(c)'
      PROVE  finding'[c][i].status = "fail" \/ <<c, i, "pass">> \in reopened'
  <2>1. CASE <<c, i, finding'[c][i].status>> \in reopened'
    BY <1>3, <2>1
  <2>2. CASE i \in Findings!OpenOf(c) /\ finding'[c][i].status \in {finding[c][i].status, "fail"}
    BY <2>2 DEF OpenInv, Closes
  <2> QED
    BY <1>3, <2>1, <2>2
<1>5. ASSUME NEW i \in Findings!Raised(c)' PROVE i \in Findings!Raised(c)
  <2>1. /\ i \in Findings!OpenOf(c)'
        /\ \A status \in {"pass", "fail"} : <<c, i, status>> \notin reopened'
    BY <1>5 DEF Findings!Raised
  <2>2. i \in Findings!OpenOf(c)
    BY <1>3, <2>1
  <2> QED
    BY <2>1, <2>2 DEF Closes, Findings!Raised
<1> QED
  BY <1>1, <1>4, <1>5

\* A commit that follows no run of its own control: one more finding, open
\* only for a policy that fails.
Adds(c) ==
  \E f \in Findings!Finding :
    /\ finding'[c] = Append(finding[c], f)
    /\ f.lifecycle = "open" => f.status = "fail"
    /\ reopened' = reopened

\* New findings come after the ones a control has.
LEMMA AddingFacts ==
  ASSUME PolicyTypeOK, NEW c \in Findings!Controls, Adds(c)
  PROVE  /\ finding'[c] \in Seq(Findings!Finding)
         /\ Findings!Places(c) \subseteq Findings!Places(c)'
         /\ Findings!OpenOf(c)' \subseteq Findings!OpenOf(c) \cup {Len(finding[c]) + 1}
         /\ Findings!Raised(c)' \subseteq Findings!Raised(c) \cup {Len(finding[c]) + 1}
         /\ reopened' = reopened
         /\ \A i \in Findings!Places(c) : finding'[c][i] = finding[c][i]
         /\ Len(finding[c]) + 1 \in Findings!OpenOf(c)' =>
              finding'[c][Len(finding[c]) + 1].status = "fail"
<1>1. PICK f \in Findings!Finding :
        /\ finding'[c] = Append(finding[c], f)
        /\ f.lifecycle = "open" => f.status = "fail"
        /\ reopened' = reopened
  BY DEF Adds
<1>2. finding[c] \in Seq(Findings!Finding)
  BY DEF PolicyTypeOK
<1>3. /\ finding'[c] \in Seq(Findings!Finding)
      /\ Len(finding'[c]) = Len(finding[c]) + 1
      /\ \A i \in 1..Len(finding[c]) : finding'[c][i] = finding[c][i]
      /\ finding'[c][Len(finding[c]) + 1] = f
  BY <1>1, <1>2
<1>4. Findings!OpenOf(c)' \subseteq Findings!OpenOf(c) \cup {Len(finding[c]) + 1}
  BY <1>2, <1>3 DEF Findings!OpenOf, Findings!Places
<1>5. Findings!Raised(c)' \subseteq Findings!Raised(c) \cup {Len(finding[c]) + 1}
  BY <1>1, <1>4 DEF Findings!Raised
<1> QED
  BY <1>1, <1>2, <1>3, <1>4, <1>5 DEF Findings!OpenOf, Findings!Places

\* Where each finding keeps its place and none becomes open unnoted, and the runs
\* go nowhere, nothing of the invariant is lost.
LEMMA ClosingKeeps ==
  ASSUME PolicyInv,
         DOMAIN finding' = Findings!Controls, finding' = [c \in Findings!Controls |-> finding'[c]],
         \A c \in Findings!Controls : Closes(c),
         UNCHANGED <<pos, decided, found, runsOverlapped>>
  PROVE  PolicyInv'
<1>1. PolicyTypeOK'
  BY DEF PolicyInv, PolicyTypeOK, Closes
<1>2. \A r \in Runs : \A c \in Findings!Controls :
        (c \in Findings!Written(r)') = (c \in Findings!Written(r))
  BY DEF Findings!Written
<1>3. Findings!Active' = Findings!Active
  BY DEF Findings!Active
<1>0. PolicyTypeOK /\ OpenInv
  BY DEF PolicyInv
<1>4. \A c \in Findings!Controls : Findings!Places(c)' = Findings!Places(c)
  BY <1>0, ClosingOpensNone
<1>5. LoadedInv'
  BY <1>2, <1>3, <1>4 DEF PolicyInv, LoadedInv
<1>6. OpenInv'
  BY <1>0, ClosingOpensNone DEF OpenInv
<1>7. \A c \in Findings!Controls : Findings!Raised(c)' \subseteq Findings!Raised(c)
  BY <1>0, ClosingOpensNone
<1>8. TurnInv'
  <2>1. SUFFICES ASSUME ~runsOverlapped' PROVE TurnInv'
    BY DEF TurnInv
  <2>2. \A q, r \in Findings!Active' : q = r
    BY <1>3, <2>1 DEF PolicyInv, TurnInv
  <2>3. \A c \in Findings!Controls : \A i, j \in Findings!Raised(c)' : i = j
    BY <1>7, <2>1 DEF PolicyInv, TurnInv
  <2>4. ASSUME NEW r \in Findings!Active', NEW n \in 1..Len(Order), Passed(r, n)',
               Order[n] \in Findings!Written(r)', found'[r][Order[n]] = None
        PROVE  Findings!Raised(Order[n])' = {}
    <3>1. Order[n] \in Findings!Controls /\ r \in Runs
      BY <2>4 DEF Findings!Written, Findings!Active
    <3>2. Passed(r, n) /\ Order[n] \in Findings!Written(r)
      BY <1>2, <2>4, <3>1 DEF Passed
    <3>3. Findings!Raised(Order[n]) = {}
      BY <1>3, <2>1, <2>4, <3>2 DEF PolicyInv, TurnInv
    <3> QED
      BY <1>7, <3>1, <3>3
  <2> QED
    BY <2>2, <2>3, <2>4 DEF TurnInv
<1> QED
  BY <1>1, <1>5, <1>6, <1>8 DEF PolicyInv

\* A run that forgets what it loaded, while the findings stay as they are or
\* become what it wrote.
LEMMA ForgetFacts ==
  ASSUME Findings!PolicyAssumption, PolicyTypeOK, NEW r \in Runs, Findings!Forget(r)
  PROVE  /\ pos' \in [Runs -> 0..Findings!Idle]
         /\ decided' \in [Runs -> [Findings!Controls -> Records]]
         /\ found' \in [Runs -> [Findings!Controls -> {None} \cup (Nat \X Findings!Finding)]]
         /\ Findings!Active' = Findings!Active \ {r}
         /\ \A c \in Findings!Controls : found'[r][c] = None
         /\ \A q \in Runs \ {r} : /\ found'[q] = found[q] /\ pos'[q] = pos[q]
                                  /\ Findings!Written(q)' = Findings!Written(q)
         /\ runsOverlapped' = runsOverlapped /\ reopened' = reopened
<1>1. /\ pos' = [pos EXCEPT ![r] = Findings!Idle]
      /\ decided' = [decided EXCEPT ![r] = [c \in Findings!Controls |-> "error"]]
      /\ found' = [found EXCEPT ![r] = [c \in Findings!Controls |-> None]]
      /\ runsOverlapped' = runsOverlapped /\ reopened' = reopened
  BY DEF Findings!Forget, Findings!Fresh
<1>2. Findings!Idle \in Nat
  BY Positions
<1>3. pos' \in [Runs -> 0..Findings!Idle]
  BY <1>1, <1>2 DEF PolicyTypeOK
<1>4. [c \in Findings!Controls |-> "error"] \in [Findings!Controls -> Records]
  BY DEF Records
<1>5. [c \in Findings!Controls |-> None]
        \in [Findings!Controls -> {None} \cup (Nat \X Findings!Finding)]
  OBVIOUS
<1>6. /\ decided' \in [Runs -> [Findings!Controls -> Records]]
      /\ found' \in [Runs -> [Findings!Controls -> {None} \cup (Nat \X Findings!Finding)]]
  BY <1>1, <1>4, <1>5 DEF PolicyTypeOK
<1>7. Findings!Active' = Findings!Active \ {r}
  BY <1>1 DEF Findings!Active, PolicyTypeOK
<1>8. \A q \in Runs \ {r} : /\ found'[q] = found[q] /\ pos'[q] = pos[q]
                            /\ Findings!Written(q)' = Findings!Written(q)
  BY <1>1 DEF Findings!Written, PolicyTypeOK
<1>9. \A c \in Findings!Controls : found'[r][c] = None
  BY <1>1 DEF PolicyTypeOK
<1> QED
  BY <1>1, <1>3, <1>6, <1>7, <1>8, <1>9

\* What a commit writes for one control: the finding it loaded, if it is still
\* open, stays open only where the policy still fails; if it loaded none, it
\* adds one.  The columns it does not write are those of the row as it is now.
LEMMA CommitFacts ==
  ASSUME PolicyTypeOK, LoadedInv, NEW r \in Runs, Findings!Commit(r),
         NEW c \in Findings!Controls
  PROVE  IF c \in Findings!Written(r) /\ found[r][c] = None THEN Adds(c) ELSE Closes(c)
<1>1. finding'[c] = IF c \in Findings!Written(r) THEN Findings!Left(r, c) ELSE finding[c]
  BY DEF Findings!Commit
<1>2. /\ finding[c] \in Seq(Findings!Finding) /\ decided[r][c] \in Records
      /\ reopened' = reopened
  BY DEF PolicyTypeOK, Findings!Commit, Findings!Forget
<1>3. CASE c \notin Findings!Written(r)
  BY <1>1, <1>2, <1>3 DEF Closes
<1>4. CASE c \in Findings!Written(r) /\ found[r][c] = None
  <2>1. /\ Findings!NewFinding(r, c) \in Findings!Finding
        /\ Findings!NewFinding(r, c).lifecycle = "open" =>
             Findings!NewFinding(r, c).status = "fail"
    BY <1>2, <1>4 DEF Findings!NewFinding, Findings!Finding, Findings!Written, Records, Findings!Lifecycles
  <2>2. finding'[c] = Append(finding[c], Findings!NewFinding(r, c))
    BY <1>1, <1>4 DEF Findings!Left
  <2>3. Adds(c)
    BY <1>2, <2>1, <2>2 DEF Adds
  <2> QED
    BY <1>4, <2>3
<1>5. CASE c \in Findings!Written(r) /\ found[r][c] # None
  <2>1. found[r][c][1] \in Findings!Places(c) /\ found[r][c][2].lifecycle = "open"
    BY <1>5 DEF LoadedInv
  <2>2. PICK i \in Findings!Places(c) : i = found[r][c][1]
    BY <2>1
  <2>3. finding[c][i] \in Findings!Finding
    BY <1>2 DEF Findings!Places
  <2>4. decided[r][c] \in {"pass", "fail"}
    BY <1>2, <1>5 DEF Findings!Written, Records
  <2>5. PICK now \in {finding[c][i].status, decided[r][c]} :
          Findings!Updated(r, c, finding[c][i]) =
            [finding[c][i] EXCEPT
               !.status = now,
               !.lifecycle = IF decided[r][c] = "pass" THEN "resolved" ELSE @]
    BY <2>1 DEF Findings!Updated, Findings!Column
  <2>6. PICK f \in Findings!Finding : f = Findings!Updated(r, c, finding[c][i])
    BY <2>3, <2>4, <2>5 DEF Findings!Finding, Findings!Lifecycles
  <2>7. f.lifecycle = "open" =>
          finding[c][i].lifecycle = "open" /\ f.status \in {finding[c][i].status, "fail"}
    BY <2>3, <2>4, <2>5, <2>6 DEF Findings!Finding
  <2>8. finding'[c] = [finding[c] EXCEPT ![i] = f]
    BY <1>1, <1>5, <2>2, <2>6 DEF Findings!Left
  <2>9. Closes(c)
    BY <1>2, <2>2, <2>7, <2>8 DEF Closes, Findings!Places
  <2> QED
    BY <1>5, <2>9
<1> QED
  BY <1>3, <1>4, <1>5

\* A commit has looked at every policy.
LEMMA RunCommitKeeps ==
  ASSUME Findings!PolicyAssumption, PolicyInv, NEW r \in Runs, Findings!Commit(r)
  PROVE  PolicyInv'
<1> DEFINE Added(c) == c \in Findings!Written(r) /\ found[r][c] = None
<1>1. PolicyTypeOK /\ LoadedInv /\ OpenInv /\ TurnInv
  BY DEF PolicyInv
<1>2. \A c \in Findings!Controls : IF Added(c) THEN Adds(c) ELSE Closes(c)
  BY <1>1, CommitFacts
<1>3. Findings!Forget(r) /\ pos[r] = Findings!Full
  BY DEF Findings!Commit
<1>4. finding' = [c \in Findings!Controls |-> finding'[c]]
  BY DEF Findings!Commit
<1>5. \A c \in Findings!Controls : finding'[c] \in Seq(Findings!Finding)
  BY <1>1, <1>2, AddingFacts DEF Closes
<1>6. PolicyTypeOK'
  BY <1>1, <1>3, <1>4, <1>5, ForgetFacts DEF PolicyTypeOK
<1>7. \A c \in Findings!Controls : Findings!Places(c) \subseteq Findings!Places(c)'
  BY <1>1, <1>2, AddingFacts, ClosingOpensNone
<1>8. LoadedInv'
  <2>1. SUFFICES ASSUME NEW q \in Runs, NEW c \in Findings!Controls, found'[q][c] # None
                 PROVE  /\ q \in Findings!Active'
                        /\ c \in Findings!Written(q)'
                        /\ found'[q][c][1] \in Findings!Places(c)'
                        /\ found'[q][c][2].lifecycle = "open"
    BY DEF LoadedInv
  <2>2. q # r
    BY <1>1, <1>3, <2>1, ForgetFacts
  <2>3. /\ found'[q] = found[q] /\ Findings!Written(q)' = Findings!Written(q)
        /\ Findings!Active' = Findings!Active \ {r}
    BY <1>1, <1>3, <2>2, ForgetFacts
  <2> QED
    BY <1>1, <1>7, <2>1, <2>2, <2>3 DEF LoadedInv
<1>9. OpenInv'
  <2>1. SUFFICES ASSUME NEW c \in Findings!Controls, NEW i \in Findings!OpenOf(c)'
                 PROVE  finding'[c][i].status = "fail" \/ <<c, i, "pass">> \in reopened'
    BY DEF OpenInv
  <2>2. CASE Adds(c)
    <3>1. CASE i = Len(finding[c]) + 1
      BY <1>1, <2>1, <2>2, <3>1, AddingFacts
    <3>2. CASE i # Len(finding[c]) + 1
      <4>1. i \in Findings!OpenOf(c)
        BY <1>1, <2>1, <2>2, <3>2, AddingFacts
      <4>2. finding'[c][i] = finding[c][i] /\ reopened' = reopened
        BY <1>1, <2>2, <4>1, AddingFacts DEF Findings!OpenOf
      <4> QED
        BY <1>1, <4>1, <4>2 DEF OpenInv
    <3> QED
      BY <3>1, <3>2
  <2>3. CASE Closes(c)
    BY <1>1, <2>1, <2>3, ClosingOpensNone
  <2> QED
    BY <1>2, <2>2, <2>3
<1>10. TurnInv'
  <2>1. SUFFICES ASSUME ~runsOverlapped' PROVE TurnInv'
    BY DEF TurnInv
  <2>2. ~runsOverlapped /\ Findings!Active' = Findings!Active \ {r}
    BY <1>1, <1>3, <2>1, ForgetFacts
  <2>3. r \in Findings!Active
    BY <1>3, Positions DEF Findings!Active
  <2>4. Findings!Active' = {}
    BY <1>1, <2>2, <2>3 DEF TurnInv
  <2>5. ASSUME NEW c \in Findings!Controls PROVE \A i, j \in Findings!Raised(c)' : i = j
    <3>1. CASE Added(c)
      <4>1. PICK n \in 1..Len(Order) : Order[n] = c
        BY Positions
      <4>2. Passed(r, n)
        BY <1>3, <4>1, Positions DEF Passed
      <4>3. Findings!Raised(c) = {}
        BY <1>1, <2>2, <2>3, <3>1, <4>1, <4>2 DEF TurnInv
      <4>4. Findings!Raised(c)' \subseteq {Len(finding[c]) + 1}
        BY <1>1, <1>2, <3>1, <4>3, AddingFacts
      <4> QED
        BY <4>4
    <3>2. CASE ~Added(c)
      <4>1. Findings!Raised(c)' \subseteq Findings!Raised(c)
        BY <1>1, <1>2, <3>2, ClosingOpensNone
      <4> QED
        BY <1>1, <2>2, <4>1 DEF TurnInv
    <3> QED
      BY <3>1, <3>2
  <2> QED
    BY <2>4, <2>5 DEF TurnInv
<1> QED
  BY <1>6, <1>8, <1>9, <1>10 DEF PolicyInv

\* F is what r has loaded, and perhaps an open finding of its next policy.
Loads(r, F) ==
  \A c \in Findings!Controls :
    \/ F[c] = found[r][c]
    \/ /\ F[c] # None /\ c \in Findings!Written(r)
       /\ F[c][1] \in Findings!Places(c) /\ F[c][2].lifecycle = "open"

\* A run that moves on, and loads what it found, while the findings stay.
LEMMA MovesOn ==
  ASSUME Findings!PolicyAssumption, PolicyInv,
         NEW r \in Runs, r \in Findings!Active, NEW p \in 0..Findings!Full,
         pos' = [pos EXCEPT ![r] = p],
         NEW F \in [Findings!Controls -> {None} \cup (Nat \X Findings!Finding)],
         found' = [found EXCEPT ![r] = F],
         Loads(r, F),
         UNCHANGED <<finding, decided, runsOverlapped, reopened>>,
         \A n \in 1..Len(Order) :
           2 * n <= p + 1 /\ Order[n] \in Findings!Written(r) /\ F[Order[n]] = None =>
             Passed(r, n) \/ Findings!Raised(Order[n]) = {}
  PROVE  PolicyInv'
<1>1. PolicyTypeOK /\ LoadedInv /\ OpenInv /\ TurnInv
  BY DEF PolicyInv
<1>2. Findings!Full \in Nat /\ Findings!Idle = Findings!Full + 1
  BY Positions
<1>3. PolicyTypeOK'
  BY <1>1, <1>2 DEF PolicyTypeOK
<1>4. Findings!Active' = Findings!Active
  BY <1>1, <1>2 DEF Findings!Active, PolicyTypeOK
<1>5. \A c \in Findings!Controls : /\ Findings!Places(c)' = Findings!Places(c)
                                   /\ Findings!OpenOf(c)' = Findings!OpenOf(c)
                                   /\ Findings!Raised(c)' = Findings!Raised(c)
  BY DEF Findings!Places, Findings!OpenOf, Findings!Raised
<1>6. \A q \in Runs : Findings!Written(q)' = Findings!Written(q)
  BY DEF Findings!Written
<1>7. found'[r] = F /\ (\A q \in Runs \ {r} : found'[q] = found[q])
  BY <1>1 DEF PolicyTypeOK
<1>8. LoadedInv'
  <2>1. SUFFICES ASSUME NEW q \in Runs, NEW c \in Findings!Controls, found'[q][c] # None
                 PROVE  /\ q \in Findings!Active'
                        /\ c \in Findings!Written(q)'
                        /\ found'[q][c][1] \in Findings!Places(c)'
                        /\ found'[q][c][2].lifecycle = "open"
    BY DEF LoadedInv
  <2>2. CASE found'[q][c] = found[q][c]
    BY <1>1, <1>4, <1>5, <1>6, <2>1, <2>2 DEF LoadedInv
  <2>3. CASE found'[q][c] # found[q][c]
    <3>1. q = r
      BY <1>7, <2>3
    <3> QED
      BY <1>4, <1>5, <1>6, <1>7, <2>3, <3>1 DEF Loads
  <2> QED
    BY <2>2, <2>3
<1>9. OpenInv'
  BY <1>1, <1>5 DEF OpenInv
<1>10. TurnInv'
  <2>1. SUFFICES ASSUME ~runsOverlapped' PROVE TurnInv'
    BY DEF TurnInv
  <2>2. /\ \A q, s \in Findings!Active : q = s
        /\ \A c \in Findings!Controls : \A i, j \in Findings!Raised(c) : i = j
        /\ \A s \in Findings!Active : \A n \in 1..Len(Order) :
             Passed(s, n) /\ Order[n] \in Findings!Written(s) /\ found[s][Order[n]] = None
               => Findings!Raised(Order[n]) = {}
    BY <1>1, <2>1 DEF TurnInv
  <2>3. ASSUME NEW s \in Findings!Active', NEW n \in 1..Len(Order), Passed(s, n)',
               Order[n] \in Findings!Written(s)', found'[s][Order[n]] = None
        PROVE  Findings!Raised(Order[n])' = {}
    <3>1. s = r
      BY <1>4, <2>2
    <3>2. Order[n] \in Findings!Controls
      BY Positions
    <3>3. 2 * n <= p + 1 /\ Order[n] \in Findings!Written(r) /\ F[Order[n]] = None
      BY <1>1, <1>6, <1>7, <2>3, <3>1 DEF Passed, PolicyTypeOK
    <3>4. CASE Passed(r, n)
      <4>1. found[r][Order[n]] = None
        BY <1>1, <3>2, <3>3 DEF Loads
      <4> QED
        BY <1>5, <2>2, <3>2, <3>3, <3>4, <4>1
    <3> QED
      BY <1>5, <3>2, <3>3, <3>4
  <2> QED
    BY <1>4, <1>5, <2>2, <2>3 DEF TurnInv
<1> QED
  BY <1>3, <1>8, <1>9, <1>10 DEF PolicyInv

\* A run that begins has looked at no policy and has loaded nothing; it is
\* alone unless runs overlap from now on.
LEMMA BeginKeeps ==
  ASSUME Findings!PolicyAssumption, PolicyInv, NEW r \in Runs, Findings!Begin(r)
  PROVE  PolicyInv'
<1>1. PolicyTypeOK /\ LoadedInv /\ OpenInv /\ TurnInv
  BY DEF PolicyInv
<1>2. Findings!Full \in Nat /\ Findings!Idle = Findings!Full + 1
  BY Positions
<1>3. PICK d \in [Findings!Controls -> Records] : decided' = [decided EXCEPT ![r] = d]
  <2>1. PICK v \in [Findings!Controls -> Findings!Verdicts] :
          decided' = [decided EXCEPT ![r] = [c \in Findings!Controls |-> Findings!Recorded(v[c])]]
    BY DEF Findings!Begin
  <2>2. [c \in Findings!Controls |-> Findings!Recorded(v[c])] \in [Findings!Controls -> Records]
    BY DEF Findings!Recorded, Findings!Verdicts, Records
  <2> QED
    BY <2>1, <2>2
<1>4. /\ pos[r] = Findings!Idle /\ pos' = [pos EXCEPT ![r] = 0]
      /\ finding' = finding /\ found' = found /\ reopened' = reopened
  BY DEF Findings!Begin
<1>5. PolicyTypeOK'
  BY <1>1, <1>2, <1>3, <1>4 DEF PolicyTypeOK
<1>6. Findings!Active' = Findings!Active \cup {r}
  BY <1>1, <1>2, <1>4 DEF Findings!Active, PolicyTypeOK
<1>7. r \notin Findings!Active
  BY <1>4 DEF Findings!Active
<1>8. \A q \in Runs \ {r} : Findings!Written(q)' = Findings!Written(q)
  BY <1>1, <1>3 DEF Findings!Written, PolicyTypeOK
<1>9. \A c \in Findings!Controls : /\ Findings!Places(c)' = Findings!Places(c)
                                   /\ Findings!OpenOf(c)' = Findings!OpenOf(c)
                                   /\ Findings!Raised(c)' = Findings!Raised(c)
  BY <1>4 DEF Findings!Places, Findings!OpenOf, Findings!Raised
<1>10. LoadedInv'
  BY <1>1, <1>4, <1>6, <1>7, <1>8, <1>9 DEF LoadedInv
<1>11. OpenInv'
  BY <1>1, <1>4, <1>9 DEF OpenInv
<1>12. TurnInv'
  <2>1. SUFFICES ASSUME ~runsOverlapped' PROVE TurnInv'
    BY DEF TurnInv
  <2>2. runsOverlapped' = (runsOverlapped \/ Findings!Active # {})
    BY DEF Findings!Begin
  <2>3. ~runsOverlapped /\ Findings!Active = {}
    BY <2>1, <2>2, Zenon
  <2>4. Findings!Active' = {r}
    BY <1>6, <2>3
  <2>5. \A n \in 1..Len(Order) : ~Passed(r, n)'
    BY <1>1, <1>4, Positions DEF Passed, PolicyTypeOK
  <2>6. \A c \in Findings!Controls : \A i, j \in Findings!Raised(c)' : i = j
    BY <1>1, <1>9, <2>3 DEF TurnInv
  <2> QED
    BY <2>4, <2>5, <2>6 DEF TurnInv
<1> QED
  BY <1>5, <1>10, <1>11, <1>12 DEF PolicyInv

\* Half of an even number.
LEMMA Halves ==
  ASSUME NEW p \in Nat, p % 2 = 0
  PROVE  p \div 2 \in Nat /\ p = 2 * (p \div 2)
OBVIOUS

\* The two steps of the k-th policy end at 2k - 1 and at 2k.
LEMMA Steps ==
  ASSUME NEW n \in Nat, NEW k \in 1..n, NEW p, p = 2 * k - 2
  PROVE  /\ p + 1 = 2 * k - 1 /\ 2 * k - 1 \in 0..(2 * n)
         /\ p + 2 = 2 * k /\ 2 * k \in 0..(2 * n)
OBVIOUS

\* The first half of a pass of the loop leaves the run between the two steps
\* of its n-th policy, or past both.
LEMMA LookKeeps ==
  ASSUME Findings!PolicyAssumption, PolicyInv, NEW r \in Runs, Findings!Look(r)
  PROVE  PolicyInv'
<1>1. PolicyTypeOK /\ LoadedInv /\ OpenInv /\ TurnInv
  BY DEF PolicyInv
<1>2. /\ Len(Order) \in Nat /\ Findings!Full = 2 * Len(Order)
      /\ Findings!Full \in Nat /\ Findings!Idle = Findings!Full + 1
  BY Positions
<1>3. pos[r] \in Nat /\ pos[r] < Findings!Full /\ pos[r] % 2 = 0
  BY <1>1, <1>2 DEF Findings!Look, PolicyTypeOK
<1>4. PICK k \in 1..Len(Order) : k = pos[r] \div 2 + 1 /\ pos[r] = 2 * k - 2
  <2>1. pos[r] \div 2 \in Nat /\ pos[r] = 2 * (pos[r] \div 2)
    BY <1>3, Halves
  <2>2. pos[r] \div 2 + 1 \in 1..Len(Order)
    BY <1>2, <1>3, <2>1
  <2> QED
    BY <2>1, <2>2
<1>5. Findings!At(r) = Order[k] /\ Order[k] \in Findings!Controls
  BY <1>4, Positions DEF Findings!At
<1>6. r \in Findings!Active
  BY <1>2, <1>3 DEF Findings!Active
<1>7. UNCHANGED <<finding, decided, runsOverlapped, reopened>>
  BY DEF Findings!Look
<1>8. found[r] \in [Findings!Controls -> {None} \cup (Nat \X Findings!Finding)]
  BY <1>1 DEF PolicyTypeOK
<1>9. found = [found EXCEPT ![r] = found[r]]
  BY <1>1 DEF PolicyTypeOK
<1>10. \A n \in 1..Len(Order) : n < k => Passed(r, n)
  BY <1>4 DEF Passed
<1>11. CASE decided[r][Order[k]] = "error" /\ pos' = [pos EXCEPT ![r] = @ + 2] /\ found' = found
  <2>0. pos[r] + 2 = 2 * k /\ 2 * k \in 0..Findings!Full
    BY <1>2, <1>4, Steps
  <2>1. pos' = [pos EXCEPT ![r] = 2 * k] /\ 2 * k \in 0..Findings!Full
    BY <1>11, <2>0, Zenon
  <2>2. Order[k] \notin Findings!Written(r)
    BY <1>11 DEF Findings!Written
  <2>3. \A n \in 1..Len(Order) : 2 * n <= 2 * k + 1 => n < k \/ n = k
    BY <1>4
  <2>4. \A n \in 1..Len(Order) :
          2 * n <= 2 * k + 1 /\ Order[n] \in Findings!Written(r) /\ found[r][Order[n]] = None =>
            Passed(r, n) \/ Findings!Raised(Order[n]) = {}
    BY <1>10, <2>2, <2>3
  <2>5. found' = [found EXCEPT ![r] = found[r]]
    BY <1>9, <1>11
  <2> QED
    BY <1>6, <1>7, <1>8, <2>1, <2>4, <2>5, MovesOn DEF Loads
<1>12. CASE Order[k] \in Findings!Written(r) /\ pos' = [pos EXCEPT ![r] = @ + 1]
  <2>0. pos[r] + 1 = 2 * k - 1 /\ 2 * k - 1 \in 0..Findings!Full
    BY <1>2, <1>4, Steps
  <2>1. pos' = [pos EXCEPT ![r] = 2 * k - 1] /\ 2 * k - 1 \in 0..Findings!Full
    BY <1>12, <2>0, Zenon
  <2>2. \A n \in 1..Len(Order) : 2 * n <= (2 * k - 1) + 1 => n < k \/ n = k
    BY <1>4
  <2>3. CASE Findings!OpenOf(Order[k]) = {} /\ found' = found
    <3>0. Findings!Raised(Order[k]) = {}
      BY <2>3 DEF Findings!Raised
    <3>1. \A n \in 1..Len(Order) :
            2 * n <= (2 * k - 1) + 1 /\ Order[n] \in Findings!Written(r)
              /\ found[r][Order[n]] = None =>
                Passed(r, n) \/ Findings!Raised(Order[n]) = {}
      BY <1>10, <2>2, <3>0
    <3>2. found' = [found EXCEPT ![r] = found[r]]
      BY <1>9, <2>3
    <3> QED
      BY <1>6, <1>7, <1>8, <2>1, <3>1, <3>2, MovesOn DEF Loads
  <2>4. ASSUME NEW i \in Findings!OpenOf(Order[k]),
               found' = [found EXCEPT ![r][Order[k]] = <<i, finding[Order[k]][i]>>]
        PROVE  PolicyInv'
    <3>1. i \in Findings!Places(Order[k]) /\ i \in Nat /\ finding[Order[k]][i] \in Findings!Finding
      BY <1>1, <1>5 DEF PolicyTypeOK, Findings!OpenOf, Findings!Places
    <3>2. finding[Order[k]][i].lifecycle = "open"
      BY <2>4 DEF Findings!OpenOf
    <3>3. <<i, finding[Order[k]][i]>> \in Nat \X Findings!Finding
      BY <3>1
    <3>4. <<i, finding[Order[k]][i]>> # None
      BY <3>3 DEF Findings!PolicyAssumption
    <3>5. PICK F \in [Findings!Controls -> {None} \cup (Nat \X Findings!Finding)] :
            F = [found[r] EXCEPT ![Order[k]] = <<i, finding[Order[k]][i]>>]
      BY <1>8, <3>3
    <3>6. F[Order[k]] = <<i, finding[Order[k]][i]>>
      BY <1>5, <1>8, <3>5
    <3>7. \A c \in Findings!Controls : c # Order[k] => F[c] = found[r][c]
      BY <1>8, <3>5
    <3>8. found' = [found EXCEPT ![r] = F]
      BY <2>4, <3>5
    <3>9. Loads(r, F)
      <4>1. SUFFICES ASSUME NEW c \in Findings!Controls, c = Order[k]
                     PROVE  /\ F[c] # None /\ c \in Findings!Written(r)
                            /\ F[c][1] \in Findings!Places(c) /\ F[c][2].lifecycle = "open"
        BY <3>7 DEF Loads
      <4>2. F[c][1] = i /\ F[c][2] = finding[Order[k]][i]
        BY <3>6, <4>1
      <4> QED
        BY <1>12, <3>1, <3>2, <3>4, <3>6, <4>1, <4>2
    <3>10. \A n \in 1..Len(Order) :
            2 * n <= (2 * k - 1) + 1 /\ Order[n] \in Findings!Written(r)
              /\ F[Order[n]] = None =>
                Passed(r, n) \/ Findings!Raised(Order[n]) = {}
      BY <1>10, <2>2, <3>4, <3>6
    <3> QED
      BY <1>6, <1>7, <2>1, <3>8, <3>9, <3>10, MovesOn
  <2> QED
    BY <1>5, <1>12, <2>3, <2>4, <1>11 DEF Findings!Look, Findings!Written
<1> QED
  BY <1>5, <1>11, <1>12 DEF Findings!Look

\* Every step of a policy run or a triage keeps the findings true.
LEMMA PolicyKeeps ==
  ASSUME Findings!PolicyAssumption, PolicyInv, Findings!Next
  PROVE  PolicyInv'
<1>1. PolicyTypeOK /\ LoadedInv /\ OpenInv /\ TurnInv
  BY DEF PolicyInv
<1>2. /\ Len(Order) \in Nat /\ Findings!Full = 2 * Len(Order)
      /\ Findings!Full \in Nat /\ Findings!Idle = Findings!Full + 1
  BY Positions
<1>3. ASSUME NEW r \in Runs, Findings!Settle(r) PROVE PolicyInv'
  <2>1. /\ pos[r] \in Nat /\ pos[r] < Findings!Full /\ pos[r] % 2 = 1
        /\ pos' = [pos EXCEPT ![r] = pos[r] + 1]
        /\ UNCHANGED <<finding, decided, runsOverlapped, reopened>> /\ found' = found
    BY <1>1, <1>2, <1>3 DEF Findings!Settle, PolicyTypeOK
  <2>2. pos[r] + 1 \in 0..Findings!Full /\ r \in Findings!Active
    BY <1>2, <2>1 DEF Findings!Active
  <2>3. \A n \in 1..Len(Order) : 2 * n <= (pos[r] + 1) + 1 => Passed(r, n)
    BY <2>1 DEF Passed
  <2>4. /\ found' = [found EXCEPT ![r] = found[r]]
        /\ found[r] \in [Findings!Controls -> {None} \cup (Nat \X Findings!Finding)]
    BY <1>1, <2>1 DEF PolicyTypeOK
  <2>5. Loads(r, found[r])
    BY DEF Loads
  <2> QED
    BY <2>1, <2>2, <2>3, <2>4, <2>5, MovesOn
<1>4. ASSUME NEW r \in Runs, Findings!Abort(r) PROVE PolicyInv'
  <2>1. Findings!Forget(r) /\ finding' = finding /\ reopened' = reopened
    BY <1>4 DEF Findings!Abort, Findings!Forget
  <2>2. PolicyTypeOK'
    BY <1>1, <2>1, ForgetFacts DEF PolicyTypeOK
  <2>3. \A c \in Findings!Controls : /\ Findings!Places(c)' = Findings!Places(c)
                                     /\ Findings!OpenOf(c)' = Findings!OpenOf(c)
                                     /\ Findings!Raised(c)' = Findings!Raised(c)
    BY <2>1 DEF Findings!Places, Findings!OpenOf, Findings!Raised
  <2>4. /\ Findings!Active' = Findings!Active \ {r}
        /\ \A c \in Findings!Controls : found'[r][c] = None
        /\ \A q \in Runs \ {r} : /\ found'[q] = found[q] /\ pos'[q] = pos[q]
                                 /\ Findings!Written(q)' = Findings!Written(q)
        /\ runsOverlapped' = runsOverlapped
    BY <1>1, <2>1, ForgetFacts
  <2>5. LoadedInv'
    BY <1>1, <2>3, <2>4 DEF LoadedInv
  <2>6. OpenInv'
    BY <1>1, <2>1, <2>3 DEF OpenInv
  <2>7. TurnInv'
    <3>1. \A q \in Findings!Active' : q # r /\ q \in Runs /\ q \in Findings!Active
      BY <2>4 DEF Findings!Active
    <3>2. \A q \in Findings!Active' : \A n \in 1..Len(Order) : Passed(q, n)' = Passed(q, n)
      BY <2>4, <3>1 DEF Passed
    <3>3. SUFFICES ASSUME ~runsOverlapped' PROVE TurnInv'
      BY DEF TurnInv
    <3>4. /\ \A q, s \in Findings!Active' : q = s
          /\ \A c \in Findings!Controls : \A i, j \in Findings!Raised(c)' : i = j
      BY <1>1, <2>3, <2>4, <3>3 DEF TurnInv
    <3>5. ASSUME NEW q \in Findings!Active', NEW n \in 1..Len(Order), Passed(q, n)',
                 Order[n] \in Findings!Written(q)', found'[q][Order[n]] = None
          PROVE  Findings!Raised(Order[n])' = {}
      <4>1. /\ Passed(q, n) /\ Order[n] \in Findings!Written(q) /\ found[q][Order[n]] = None
            /\ q \in Findings!Active /\ Order[n] \in Findings!Controls
        BY <2>4, <3>1, <3>2, <3>5, Positions
      <4> QED
        BY <1>1, <2>3, <2>4, <3>3, <4>1 DEF TurnInv
    <3> QED
      BY <3>4, <3>5 DEF TurnInv
  <2> QED
    BY <2>2, <2>5, <2>6, <2>7 DEF PolicyInv
<1>5. ASSUME NEW c \in Findings!Controls, NEW i \in Findings!Places(c), Findings!Triage(c, i)
      PROVE  PolicyInv'
  <2>1. PICK l \in Findings!Lifecycles :
          /\ finding' = [finding EXCEPT ![c][i].lifecycle = l]
          /\ reopened' = IF l = "open"
                         THEN reopened \cup {<<c, i, finding[c][i].status>>} ELSE reopened
    BY <1>5 DEF Findings!Triage
  <2>2. finding[c] \in Seq(Findings!Finding) /\ finding[c][i] \in Findings!Finding
    BY <1>1 DEF PolicyTypeOK, Findings!Places
  <2>3. PICK f \in Findings!Finding : f = [finding[c][i] EXCEPT !.lifecycle = l]
    BY <2>2 DEF Findings!Finding
  <2>4. f.lifecycle = l /\ f.status = finding[c][i].status
    BY <2>2, <2>3 DEF Findings!Finding
  <2>0. /\ reopened \subseteq reopened'
        /\ f.lifecycle = "open" => <<c, i, f.status>> \in reopened'
    BY <2>1, <2>4
  <2>5. /\ finding' = [finding EXCEPT ![c] = finding'[c]]
        /\ finding'[c] = [finding[c] EXCEPT ![i] = f]
    BY <1>1, <2>1, <2>3 DEF PolicyTypeOK
  <2>6. Closes(c)
    <3>1. /\ finding'[c] \in Seq(Findings!Finding) /\ Len(finding'[c]) = Len(finding[c])
          /\ finding'[c][i] = f
          /\ \A j \in Findings!Places(c) : j # i => finding'[c][j] = finding[c][j]
      BY <2>2, <2>5 DEF Findings!Places
    <3> QED
      BY <2>0, <3>1 DEF Closes
  <2>7. \A d \in Findings!Controls : Closes(d)
    <3>1. \A d \in Findings!Controls \ {c} : finding'[d] = finding[d]
      BY <1>1, <2>5 DEF PolicyTypeOK
    <3> QED
      BY <1>1, <2>0, <2>6, <3>1 DEF Closes, PolicyTypeOK
  <2>8. /\ DOMAIN finding' = Findings!Controls
        /\ finding' = [d \in Findings!Controls |-> finding'[d]]
    BY <1>1, <2>1 DEF PolicyTypeOK
  <2>9. UNCHANGED <<pos, decided, found, runsOverlapped>>
    BY <1>5 DEF Findings!Triage
  <2> QED
    BY <2>7, <2>8, <2>9, ClosingKeeps
<1>6. CASE UNCHANGED Findings!vars
  BY <1>1, <1>6 DEF Findings!vars, PolicyInv, PolicyTypeOK, LoadedInv, OpenInv, TurnInv, Passed,
       Findings!Active, Findings!Written, Findings!Places, Findings!OpenOf, Findings!Raised
<1> QED
  BY <1>3, <1>4, <1>5, <1>6, BeginKeeps, LookKeeps, RunCommitKeeps
  DEF Findings!Next, Findings!Done

\* However policy runs overlap each other and triage, no policy that passes
\* keeps an open finding unless a person opened it again; and while runs follow
\* one another, no control gets a second open one but by a person.  For any
\* number of policies and of runs.
THEOREM OpenFindingsStayTrue ==
  ASSUME Findings!PolicyAssumption
  PROVE  Findings!Spec => []OpenFindingsAreTrue
<1>1. Findings!Init => PolicyInv
  <2> SUFFICES ASSUME Findings!Init PROVE PolicyInv
    OBVIOUS
  <2>1. /\ finding = [c \in Findings!Controls |-> <<>>]
        /\ pos = [r \in Runs |-> Findings!Idle]
        /\ decided = [r \in Runs |-> [c \in Findings!Controls |-> "error"]]
        /\ found = [r \in Runs |-> [c \in Findings!Controls |-> None]]
    BY DEF Findings!Init, Findings!Fresh
  <2>2. PolicyTypeOK
    BY <2>1, Positions DEF PolicyTypeOK, Records
  <2>3. \A c \in Findings!Controls : Findings!OpenOf(c) = {} /\ Findings!Raised(c) = {}
    BY <2>1 DEF Findings!OpenOf, Findings!Places, Findings!Raised
  <2>4. Findings!Active = {}
    BY <2>1 DEF Findings!Active
  <2> QED
    BY <2>1, <2>2, <2>3, <2>4 DEF PolicyInv, LoadedInv, OpenInv, TurnInv
<1>2. PolicyInv /\ [Findings!Next]_(Findings!vars) => PolicyInv'
  <2>1. ASSUME PolicyInv, UNCHANGED Findings!vars PROVE PolicyInv'
    BY <2>1 DEF Findings!vars, PolicyInv, PolicyTypeOK, LoadedInv, OpenInv, TurnInv, Passed,
         Findings!Active, Findings!Written, Findings!Places, Findings!OpenOf, Findings!Raised
  <2> QED
    BY <2>1, PolicyKeeps
<1>3. PolicyInv => OpenFindingsAreTrue
  <2> SUFFICES ASSUME PolicyInv PROVE OpenFindingsAreTrue
    OBVIOUS
  <2>1. ASSUME ~runsOverlapped, NEW c \in Findings!Controls
        PROVE  Cardinality(Findings!Raised(c)) <= 1
    <3>1. \A i, j \in Findings!Raised(c) : i = j
      BY <2>1 DEF PolicyInv, TurnInv
    <3>2. CASE Findings!Raised(c) = {}
      BY <3>2, FS_EmptySet
    <3>3. ASSUME NEW i \in Findings!Raised(c)
          PROVE  Cardinality(Findings!Raised(c)) = 1
      <4>1. Findings!Raised(c) = {i}
        BY <3>1
      <4> QED
        BY <4>1, FS_Singleton
    <3> QED
      BY <3>2, <3>3
  <2>2. OpenInv
    BY DEF PolicyInv
  <2>3. \A S : Findings!Cardinality(S) = Cardinality(S)
    BY DEF Findings!Cardinality, Cardinality
  <2> QED
    BY <2>1, <2>2, <2>3, Zenon DEF OpenInv, OpenFindingsAreTrue, Findings!OpenFindingsAreTrue
<1> QED
  BY <1>1, <1>2, <1>3, PTL DEF Findings!Spec
-----------------------------------------------------------------------------
(* Trust: figures.  Quotients and products of what grows grow.              *)

LEMMA Quotients ==
  ASSUME NEW a \in Int, NEW b \in Int, a <= b, NEW d \in Nat \ {0}
  PROVE  a \div d <= b \div d
OBVIOUS

LEMMA QuotientType ==
  ASSUME NEW a \in Nat, NEW d \in Nat \ {0}
  PROVE  a \div d \in Nat
OBVIOUS

LEMMA Products ==
  ASSUME NEW a \in Int, NEW b \in Int, a <= b, NEW c \in Nat
  PROVE  a * c <= b * c
OBVIOUS

LEMMA ProductType ==
  ASSUME NEW a \in Nat, NEW c \in Nat
  PROVE  a * c \in Nat
OBVIOUS

\* What Trust calls a number of things, a sum, the least or the greatest is
\* what is meant here.
LEMMA TrustCounts ==
  ASSUME NEW S
  PROVE  Fusion!Cardinality(S) = Cardinality(S) /\ (Fusion!IsFiniteSet(S) <=> IsFiniteSet(S))
BY DEF Fusion!Cardinality, Cardinality, Fusion!IsFiniteSet, IsFiniteSet

LEMMA TrustSums ==
  ASSUME NEW f, NEW S
  PROVE  Fusion!SumFunctionOnSet(f, S) = SumFunctionOnSet(f, S)
BY DEF Fusion!SumFunctionOnSet, Fusion!FoldFunctionOnSet, Fusion!MapThenFoldSet,
       SumFunctionOnSet, FoldFunctionOnSet, MapThenFoldSet

LEMMA LeastIs ==
  ASSUME NEW T, T \subseteq Nat, T # {}
  PROVE  Fusion!Min(T) \in T /\ \A y \in T : Fusion!Min(T) <= y
<1>1. \E x \in T : \A y \in T : x <= y
  BY LeastNumber
<1> QED
  BY <1>1 DEF Fusion!Min

LEMMA GreatestIs ==
  ASSUME NEW T, NEW top \in Nat, T \subseteq 0..top, T # {}
  PROVE  Fusion!Max(T) \in T /\ \A y \in T : Fusion!Max(T) >= y
<1> DEFINE R == {top - x : x \in T}
<1>1. R \subseteq Nat /\ R # {}
  <2>1. \A x \in T : x \in Nat /\ x <= top
    OBVIOUS
  <2>2. \A x \in T : top - x \in Nat
    BY <2>1
  <2> QED
    BY <2>2
<1>2. PICK r \in R : \A y \in R : r <= y
  BY <1>1, LeastNumber
<1>3. PICK x \in T : r = top - x
  BY <1>2
<1>4. \A y \in T : x >= y
  <2>1. ASSUME NEW y \in T PROVE x >= y
    <3>1. top - y \in R
      OBVIOUS
    <3>2. r <= top - y
      BY <1>2, <3>1
    <3> QED
      BY <1>3, <3>2
  <2> QED
    BY <2>1
<1> QED
  BY <1>4 DEF Fusion!Max

\* What is made of finitely many things are finitely many.
LEMMA ImageIsFinite ==
  ASSUME NEW S, IsFiniteSet(S), NEW g
  PROVE  IsFiniteSet({g[x] : x \in S})
<1> DEFINE T == {g[x] : x \in S}
           h == [x \in S |-> g[x]]
<1>1. h \in Surjection(S, T)
  BY DEF Surjection
<1> QED
  BY <1>1, FS_Surjection

-----------------------------------------------------------------------------
(* Trust: what one attestation is worth.                                    *)

\* What a weight is: per mille.
PerMille(x) == x \in Int /\ 0 <= x /\ x <= 1000

Scale(fresh, stale, floor) ==
  fresh \in Int /\ 0 <= fresh /\ stale \in Int /\ fresh < stale /\ PerMille(floor)

Age(x) == x \in Int /\ x # None

RangesOK(pol) ==
  /\ Scale(pol.fresh, pol.stale, pol.floor) /\ PerMille(pol.unknown) /\ PerMille(pol.conflict)

PolicyOK(pol) ==
  /\ RangesOK(pol)
  /\ \A s \in Fusion!Statuses : PerMille(pol.status[s])
  /\ \A n \in 1..3 : pol.bonus[n] \in Nat
  /\ \A l \in Fusion!Lanes : pol.lanes[l] \in Nat

AttestationOK(a) ==
  /\ {"platform", "row", "control", "fresh", "status", "conf"} \subseteq DOMAIN a
  /\ a.fresh = None \/ Age(a.fresh)
  /\ a.status \in Fusion!Statuses /\ a.conf \in Nat

LEMMA ClampIs ==
  ASSUME NEW x \in Int
  PROVE  PerMille(Fusion!Clamp(x))
BY DEF Fusion!Clamp, PerMille

\* Whatever policy is given, the one that is used is in range.
LEMMA ValidatedIs ==
  ASSUME Fusion!TrustAssumption, NEW policy \in Policies
  PROVE  PolicyOK(Fusion!Validated(policy))
<1> DEFINE pol == Fusion!Validated(policy)
           fresh == IF policy.fresh < 0 THEN 0 ELSE policy.fresh
<1>1. policy \in Fusion!Given
  BY DEF Fusion!TrustAssumption
<1>2. /\ policy.status \in [Fusion!Statuses -> Int] /\ policy.fresh \in Int /\ policy.stale \in Int
      /\ policy.floor \in Int /\ policy.unknown \in Int /\ policy.conflict \in Int
      /\ policy.bonus \in [1..3 -> Nat] /\ policy.lanes \in [Fusion!Lanes -> Nat]
      /\ DOMAIN policy = {"status", "fresh", "stale", "floor", "unknown", "conflict", "bonus", "lanes"}
  BY <1>1 DEF Fusion!Given
<1>3. /\ pol.fresh = fresh
      /\ pol.stale = (IF policy.stale > fresh THEN policy.stale ELSE fresh + 1)
      /\ pol.floor = Fusion!Clamp(policy.floor) /\ pol.unknown = Fusion!Clamp(policy.unknown)
      /\ pol.conflict = Fusion!Clamp(policy.conflict)
      /\ pol.status = [s \in DOMAIN policy.status |-> Fusion!Clamp(policy.status[s])]
      /\ pol.bonus = policy.bonus /\ pol.lanes = policy.lanes
  BY <1>2 DEF Fusion!Validated
<1>4. RangesOK(pol)
  <2>1. fresh \in Nat
    BY <1>2
  <2>2. pol.fresh \in Int /\ 0 <= pol.fresh /\ pol.stale \in Int /\ pol.fresh < pol.stale
    BY <1>2, <1>3, <2>1
  <2>3. PerMille(pol.floor) /\ PerMille(pol.unknown) /\ PerMille(pol.conflict)
    BY <1>2, <1>3, ClampIs
  <2> HIDE DEF pol
  <2> QED
    BY <2>2, <2>3 DEF RangesOK, Scale
<1>5. \A s \in Fusion!Statuses : PerMille(pol.status[s])
  BY <1>2, <1>3, ClampIs
<1>6. /\ \A n \in 1..3 : pol.bonus[n] \in Nat
      /\ \A l \in Fusion!Lanes : pol.lanes[l] \in Nat
  BY <1>2, <1>3
<1> HIDE DEF pol
<1>7. PolicyOK(pol)
  BY <1>4, <1>5, <1>6 DEF PolicyOK
<1> QED
  BY <1>7 DEF pol

\* Freshness of an age between fresh and stale.
Fading(x, fresh, stale, floor) ==
  (1000 * (stale - fresh) - (1000 - floor) * (x - fresh)) \div (stale - fresh)

LEMMA FadingIs ==
  ASSUME NEW fresh, NEW stale, NEW floor, Scale(fresh, stale, floor), NEW x \in Int,
         fresh < x, x < stale
  PROVE  /\ PerMille(Fading(x, fresh, stale, floor))
         /\ floor <= Fading(x, fresh, stale, floor)
<1> DEFINE span == stale - fresh
           gone == x - fresh
           lost == 1000 - floor
           num == 1000 * span - lost * gone
<1>1. /\ span \in Nat \ {0} /\ gone \in Nat /\ lost \in Nat /\ gone <= span
      /\ floor \in Int /\ floor = 1000 - lost /\ 0 <= floor
  BY DEF Scale, PerMille
<1>2. Fading(x, fresh, stale, floor) = num \div span
  BY DEF Fading
<1> HIDE DEF span, gone, lost
<1>3. 0 <= gone * lost /\ gone * lost <= span * lost
  BY <1>1, Products, ProductType
<1>4. /\ gone * lost = lost * gone /\ gone * lost \in Int /\ span * lost \in Int
      /\ (1000 - lost) * span = 1000 * span - span * lost
  BY <1>1
<1>5. floor * span <= num /\ num <= 1000 * span /\ num \in Int
  BY <1>1, <1>3, <1>4
<1> HIDE DEF num
<1>6. num \div span \in Int /\ floor <= num \div span /\ num \div span <= 1000
  BY <1>1, <1>5
<1> QED
  BY <1>1, <1>2, <1>6 DEF PerMille

LEMMA FadingFalls ==
  ASSUME NEW fresh, NEW stale, NEW floor, Scale(fresh, stale, floor), NEW x \in Int, NEW y \in Int,
         fresh < x, x <= y, y < stale
  PROVE  Fading(y, fresh, stale, floor) <= Fading(x, fresh, stale, floor)
<1> DEFINE span == stale - fresh
           lost == 1000 - floor
           p == x - fresh
           q == y - fresh
<1>1. span \in Nat \ {0} /\ lost \in Nat /\ p \in Nat /\ q \in Nat /\ p <= q
  BY DEF Scale, PerMille
<1>2. /\ Fading(x, fresh, stale, floor) = (1000 * span - lost * p) \div span
      /\ Fading(y, fresh, stale, floor) = (1000 * span - lost * q) \div span
  BY DEF Fading
<1> HIDE DEF span, lost, p, q
<1>3. p * lost <= q * lost
  BY <1>1, Products
<1>4. 1000 * span - lost * q <= 1000 * span - lost * p
  BY <1>1, <1>3
<1>5. 1000 * span - lost * q \in Int /\ 1000 * span - lost * p \in Int
  BY <1>1
<1> QED
  BY <1>1, <1>2, <1>4, <1>5, Quotients

\* Where an age stands.
Early(x, pol) == x <= pol.fresh
Late(x, pol) == ~(x <= pol.fresh) /\ x >= pol.stale
Midway(x, pol) == ~(x <= pol.fresh) /\ ~(x >= pol.stale)

LEMMA EarlyIs ==
  ASSUME NEW pol, RangesOK(pol), NEW x, Age(x), Early(x, pol)
  PROVE  Fusion!Freshness(x, pol) = 1000
<1>1. x # None /\ x <= pol.fresh
  BY DEF Age, Early
<1>2. ~(x >= pol.stale)
  BY <1>1 DEF Age, RangesOK, Scale
<1> QED
  BY <1>1, <1>2 DEF Fusion!Freshness

LEMMA LateIs ==
  ASSUME NEW pol, NEW x, Age(x), Late(x, pol)
  PROVE  Fusion!Freshness(x, pol) = pol.floor
BY DEF Age, Late, Fusion!Freshness

LEMMA MidwayIs ==
  ASSUME NEW pol, NEW x, Age(x), Midway(x, pol)
  PROVE  Fusion!Freshness(x, pol) = Fusion!Faded(x, pol)
BY DEF Age, Midway, Fusion!Freshness

LEMMA FadedIs ==
  ASSUME NEW pol, RangesOK(pol), NEW x, Age(x), Midway(x, pol)
  PROVE  PerMille(Fusion!Faded(x, pol)) /\ pol.floor <= Fusion!Faded(x, pol)
<1>1. Scale(pol.fresh, pol.stale, pol.floor) /\ x \in Int
  BY DEF RangesOK, Age
<1>2. pol.fresh < x /\ x < pol.stale
  BY <1>1 DEF Midway, Scale
<1>3. /\ PerMille(Fading(x, pol.fresh, pol.stale, pol.floor))
      /\ pol.floor <= Fading(x, pol.fresh, pol.stale, pol.floor)
  BY <1>1, <1>2, FadingIs, Zenon
<1> QED
  BY <1>3 DEF Fading, Fusion!Faded

LEMMA FadedFalls ==
  ASSUME NEW pol, RangesOK(pol), NEW x, Age(x), Midway(x, pol), NEW y, Age(y), Midway(y, pol), x <= y
  PROVE  Fusion!Faded(y, pol) <= Fusion!Faded(x, pol)
<1>1. Scale(pol.fresh, pol.stale, pol.floor) /\ x \in Int /\ y \in Int
  BY DEF RangesOK, Age
<1>2. pol.fresh < x /\ y < pol.stale
  BY <1>1 DEF Midway, Scale
<1>3. Fading(y, pol.fresh, pol.stale, pol.floor) <= Fading(x, pol.fresh, pol.stale, pol.floor)
  BY <1>1, <1>2, FadingFalls, Zenon
<1> QED
  BY <1>3 DEF Fading, Fusion!Faded

LEMMA FreshnessBetween ==
  ASSUME NEW pol, RangesOK(pol), NEW x, Age(x)
  PROVE  PerMille(Fusion!Freshness(x, pol)) /\ pol.floor <= Fusion!Freshness(x, pol)
<1>1. PerMille(pol.floor) /\ pol.floor <= pol.floor /\ PerMille(1000) /\ pol.floor <= 1000
  BY DEF RangesOK, Scale, PerMille
<1>2. CASE Early(x, pol)
  BY <1>1, <1>2, EarlyIs
<1>3. CASE Late(x, pol)
  BY <1>1, <1>3, LateIs
<1>4. CASE Midway(x, pol)
  BY <1>4, FadedIs, MidwayIs
<1> QED
  BY <1>2, <1>3, <1>4 DEF Early, Late, Midway

LEMMA FreshnessType ==
  ASSUME NEW pol, RangesOK(pol), NEW x, x = None \/ Age(x)
  PROVE  PerMille(Fusion!Freshness(x, pol))
<1>1. CASE x = None
  BY <1>1 DEF Fusion!Freshness, RangesOK
<1>2. CASE Age(x)
  BY <1>2, FreshnessBetween, Zenon
<1> QED
  BY <1>1, <1>2

\* What grows older does not get fresher.
LEMMA FreshnessFalls ==
  ASSUME NEW pol, RangesOK(pol), NEW x, Age(x), NEW y, Age(y), x <= y
  PROVE  Fusion!Freshness(y, pol) <= Fusion!Freshness(x, pol)
<1> DEFINE u == Fusion!Freshness(x, pol)
           v == Fusion!Freshness(y, pol)
           low == pol.floor
<1>1. PerMille(u) /\ PerMille(v) /\ low <= u /\ low <= v
  BY FreshnessBetween, Zenon
<1> SUFFICES v <= u
  OBVIOUS
<1>2. CASE Early(x, pol)
  <2>1. u = 1000
    BY <1>2, EarlyIs
  <2> HIDE DEF u, v
  <2> QED
    BY <1>1, <2>1 DEF PerMille
<1>3. CASE Late(y, pol)
  <2>1. v = low
    BY <1>3, LateIs
  <2> HIDE DEF u, v, low
  <2> QED
    BY <1>1, <2>1
<1>4. CASE ~Early(x, pol) /\ ~Late(y, pol)
  <2>1. Midway(x, pol) /\ Midway(y, pol)
    <3>1. x \in Int /\ y \in Int /\ pol.fresh \in Int /\ pol.stale \in Int
      BY DEF Age, RangesOK, Scale
    <3> QED
      BY <1>4, <3>1 DEF Early, Late, Midway
  <2>2. u = Fusion!Faded(x, pol) /\ v = Fusion!Faded(y, pol)
    BY <2>1, MidwayIs
  <2>3. Fusion!Faded(y, pol) <= Fusion!Faded(x, pol)
    BY <2>1, FadedFalls, Zenon
  <2> HIDE DEF u, v
  <2> QED
    BY <2>2, <2>3
<1> QED
  BY <1>2, <1>3, <1>4

LEMMA SignalType ==
  ASSUME NEW pol, PolicyOK(pol), NEW a, AttestationOK(a)
  PROVE  Fusion!Signal(a, pol) \in Nat
<1> DEFINE s == pol.status[a.status]
           f == Fusion!Freshness(a.fresh, pol)
<1>1. s \in Nat /\ f \in Nat /\ a.conf \in Nat
  <2>1. RangesOK(pol) /\ PerMille(s) /\ (a.fresh = None \/ Age(a.fresh)) /\ a.conf \in Nat
    BY DEF PolicyOK, AttestationOK
  <2>2. PerMille(f)
    BY <2>1, FreshnessType, Zenon
  <2> HIDE DEF s, f
  <2> QED
    BY <2>1, <2>2 DEF PerMille
<1>2. Fusion!Signal(a, pol) = (((s * f) \div 1000) * a.conf + 50) \div 100
  BY DEF Fusion!Signal
<1> HIDE DEF s, f
<1>3. s * f \in Nat
  BY <1>1, ProductType
<1>4. (s * f) \div 1000 \in Nat
  BY <1>3, QuotientType
<1>5. ((s * f) \div 1000) * a.conf \in Nat
  BY <1>1, <1>4, ProductType
<1> QED
  BY <1>2, <1>5, QuotientType

LEMMA SignalFalls ==
  ASSUME NEW pol, PolicyOK(pol), NEW a, AttestationOK(a), NEW b, AttestationOK(b),
         a.status = b.status, a.conf = b.conf,
         Age(a.fresh), Age(b.fresh), a.fresh <= b.fresh
  PROVE  Fusion!Signal(b, pol) <= Fusion!Signal(a, pol)
<1> DEFINE s == pol.status[a.status]
           f == Fusion!Freshness(a.fresh, pol)
           g == Fusion!Freshness(b.fresh, pol)
           conf == a.conf
<1>1. s \in Nat /\ f \in Nat /\ g \in Nat /\ conf \in Nat /\ g <= f
  <2>1. RangesOK(pol) /\ PerMille(s) /\ conf \in Nat
    BY DEF PolicyOK, AttestationOK
  <2>2. PerMille(f) /\ PerMille(g)
    BY <2>1, FreshnessType, Zenon
  <2>3. g <= f
    BY <2>1, FreshnessFalls, Zenon
  <2> HIDE DEF s, f, g, conf
  <2> QED
    BY <2>1, <2>2, <2>3 DEF PerMille
<1>2. /\ Fusion!Signal(a, pol) = (((s * f) \div 1000) * conf + 50) \div 100
      /\ Fusion!Signal(b, pol) = (((s * g) \div 1000) * conf + 50) \div 100
  BY DEF Fusion!Signal
<1> HIDE DEF s, f, g, conf
<1>3. g * s <= f * s /\ s * f = f * s /\ s * g = g * s /\ s * f \in Nat /\ s * g \in Nat
  BY <1>1, Products, ProductType
<1> DEFINE m == (s * f) \div 1000
           n == (s * g) \div 1000
<1>4. m \in Nat /\ n \in Nat /\ n <= m
  BY <1>3, QuotientType, Quotients
<1> HIDE DEF m, n
<1>5. n * conf <= m * conf /\ n * conf \in Nat /\ m * conf \in Nat
  BY <1>1, <1>4, Products, ProductType
<1>6. (n * conf + 50) \div 100 <= (m * conf + 50) \div 100
  BY <1>5, Quotients
<1> QED
  BY <1>2, <1>6 DEF m, n

-----------------------------------------------------------------------------
(* Trust: what attestations of one control are worth together.              *)

Signals(atts, pol) == [a \in atts |-> Fusion!Signal(a, pol)]

Tested(atts, pol) == IsFiniteSet(atts) /\ PolicyOK(pol) /\ \A a \in atts : AttestationOK(a)

LEMMA SignalsAre ==
  ASSUME NEW atts, NEW pol, Tested(atts, pol)
  PROVE  \A a \in atts : Signals(atts, pol)[a] \in Nat /\ Signals(atts, pol)[a] = Fusion!Signal(a, pol)
BY SignalType DEF Tested, Signals

\* Attestations that do not disagree have one status.
Mixed(atts) == Cardinality({a.status : a \in atts}) > 1

LEMMA OneStatus ==
  ASSUME NEW atts, IsFiniteSet(atts), ~Mixed(atts),
         NEW x \in atts, NEW y \in atts
  PROVE  x.status = y.status
<1> DEFINE T == {a.status : a \in atts}
           two == {x.status, y.status}
<1>1. IsFiniteSet(T)
  <2> DEFINE g == [a \in atts |-> a.status]
  <2>1. IsFiniteSet({g[a] : a \in atts})
    BY ImageIsFinite
  <2>2. {g[a] : a \in atts} = T
    OBVIOUS
  <2> QED
    BY <2>1, <2>2
<1>2. two \subseteq T
  OBVIOUS
<1>3. Cardinality(two) <= Cardinality(T) /\ Cardinality(two) \in Nat /\ Cardinality(T) \in Nat
  BY <1>1, <1>2, FS_Subset, FS_CardinalityType
<1>4. ASSUME x.status # y.status PROVE FALSE
  <2>1. IsFiniteSet({y.status}) /\ Cardinality({y.status}) = 1
    BY FS_Singleton
  <2> DEFINE one == {y.status}
             other == x.status
  <2>2. two = one \cup {other} /\ other \notin one
    BY <1>4
  <2>3. IsFiniteSet(one) /\ Cardinality(one) = 1
    BY <2>1
  <2> HIDE DEF one, other, two
  <2>4. Cardinality(one \cup {other}) = 2
    <3>1. Cardinality(one \cup {other}) =
            IF other \in one THEN Cardinality(one) ELSE Cardinality(one) + 1
      BY <2>3, FS_AddElement, Zenon
    <3> QED
      BY <2>2, <2>3, <3>1
  <2>5. Cardinality(two) = 2
    BY <2>2, <2>4
  <2>6. ~(Cardinality(T) > 1)
    BY DEF Mixed
  <2> HIDE DEF two, T
  <2> QED
    BY <1>3, <2>5, <2>6
<1> QED
  BY <1>4

\* The figures of Inherited, each by itself.
Agreed(sum, bonus, n) == Fusion!Clamp((sum * bonus) \div (1000 * n))

Disputed(least, conflict) == (least * conflict) \div 1000

Bonus(atts, pol) == pol.bonus[IF Cardinality(atts) < 3 THEN Cardinality(atts) ELSE 3]

Weakest(atts, pol) == Fusion!Min({Fusion!Signal(a, pol) : a \in atts})

LEMMA MixedIs ==
  ASSUME NEW atts, NEW pol, Mixed(atts)
  PROVE  Fusion!Inherited(atts, pol) = Disputed(Weakest(atts, pol), pol.conflict)
<1>1. Fusion!Cardinality({a.status : a \in atts}) = Cardinality({a.status : a \in atts})
  BY TrustCounts
<1> QED
  BY <1>1 DEF Fusion!Inherited, Mixed, Disputed, Weakest

LEMMA UnmixedIs ==
  ASSUME NEW atts, NEW pol, ~Mixed(atts)
  PROVE  Fusion!Inherited(atts, pol) =
           Agreed(SumFunctionOnSet(Signals(atts, pol), atts), Bonus(atts, pol), Cardinality(atts))
<1>1. /\ Fusion!Cardinality(atts) = Cardinality(atts)
      /\ Fusion!Cardinality({a.status : a \in atts}) = Cardinality({a.status : a \in atts})
      /\ Fusion!SumFunctionOnSet([a \in atts |-> Fusion!Signal(a, pol)], atts) =
           SumFunctionOnSet([a \in atts |-> Fusion!Signal(a, pol)], atts)
  BY TrustCounts, TrustSums
<1> QED
  BY <1>1 DEF Fusion!Inherited, Agreed, Bonus, Signals, Mixed

LEMMA WeakestIs ==
  ASSUME NEW atts, NEW pol, Tested(atts, pol), atts # {}
  PROVE  /\ Weakest(atts, pol) \in Nat
         /\ \E a \in atts : Weakest(atts, pol) = Fusion!Signal(a, pol)
         /\ \A a \in atts : Weakest(atts, pol) <= Fusion!Signal(a, pol)
<1> DEFINE T == {Fusion!Signal(a, pol) : a \in atts}
<1>1. T \subseteq Nat /\ T # {}
  BY SignalType DEF Tested
<1>2. Fusion!Min(T) \in T /\ \A y \in T : Fusion!Min(T) <= y
  <2> HIDE DEF T
  <2> QED
    BY <1>1, LeastIs
<1> QED
  BY <1>1, <1>2 DEF Weakest

LEMMA DisputedGrows ==
  ASSUME NEW x \in Nat, NEW y \in Nat, x <= y, NEW conflict, PerMille(conflict)
  PROVE  /\ Disputed(x, conflict) \in Nat /\ Disputed(x, conflict) <= Disputed(y, conflict)
         /\ Disputed(0, conflict) = 0
<1>1. conflict \in Nat
  BY DEF PerMille
<1>2. x * conflict \in Nat /\ y * conflict \in Nat /\ x * conflict <= y * conflict /\ 0 * conflict = 0
  BY <1>1, Products, ProductType
<1> QED
  BY <1>2, Quotients, QuotientType DEF Disputed

LEMMA BonusType ==
  ASSUME NEW atts, NEW pol, Tested(atts, pol), atts # {}
  PROVE  Bonus(atts, pol) \in Nat /\ Cardinality(atts) \in Nat \ {0}
<1>1. Cardinality(atts) \in Nat \ {0}
  BY FS_CardinalityType, FS_EmptySet DEF Tested
<1> DEFINE n == Cardinality(atts)
           m == IF n < 3 THEN n ELSE 3
<1>2. m \in 1..3
  <2> HIDE DEF n
  <2> QED
    BY <1>1 DEF n
<1>3. \A i \in 1..3 : pol.bonus[i] \in Nat
  BY DEF Tested, PolicyOK
<1> HIDE DEF m
<1>4. pol.bonus[m] \in Nat
  BY <1>2, <1>3
<1> QED
  BY <1>1, <1>4 DEF Bonus, m

LEMMA AgreedGrows ==
  ASSUME NEW r \in Nat, NEW s \in Nat, r <= s, NEW bonus \in Nat, NEW n \in Nat \ {0}
  PROVE  Agreed(r, bonus, n) <= Agreed(s, bonus, n)
<1> DEFINE d == 1000 * n
           u == r * bonus
           v == s * bonus
<1>1. d \in Nat \ {0} /\ u \in Nat /\ v \in Nat /\ u <= v
  BY Products, ProductType
<1> HIDE DEF d, u, v
<1> DEFINE p == u \div d
           q == v \div d
<1>2. p \in Int /\ q \in Int /\ p <= q
  BY <1>1, Quotients
<1> HIDE DEF p, q
<1>3. Fusion!Clamp(p) <= Fusion!Clamp(q)
  BY <1>2 DEF Fusion!Clamp
<1> QED
  BY <1>3 DEF Agreed, d, u, v, p, q

LEMMA AgreedType ==
  ASSUME NEW s \in Nat, NEW bonus \in Nat, NEW n \in Nat \ {0}
  PROVE  PerMille(Agreed(s, bonus, n)) /\ Agreed(0, bonus, n) = 0
<1>1. (s * bonus) \in Nat /\ 1000 * n \in Nat \ {0} /\ 0 * bonus = 0
  BY ProductType
<1>2. (s * bonus) \div (1000 * n) \in Int /\ 0 \div (1000 * n) = 0
  BY <1>1, QuotientType
<1>3. Fusion!Clamp(0) = 0
  BY DEF Fusion!Clamp
<1> QED
  BY <1>1, <1>2, <1>3, ClampIs DEF Agreed

LEMMA InheritedType ==
  ASSUME NEW atts, NEW pol, Tested(atts, pol), atts # {}
  PROVE  Fusion!Inherited(atts, pol) \in Nat
<1>1. CASE Mixed(atts)
  <2>1. Weakest(atts, pol) \in Nat /\ PerMille(pol.conflict)
    BY WeakestIs DEF Tested, PolicyOK, RangesOK
  <2>2. Disputed(Weakest(atts, pol), pol.conflict) \in Nat
    BY <2>1, DisputedGrows
  <2> QED
    BY <1>1, <2>2, MixedIs
<1>2. CASE ~Mixed(atts)
  <2> DEFINE sum == SumFunctionOnSet(Signals(atts, pol), atts)
             bonus == Bonus(atts, pol)
             n == Cardinality(atts)
  <2>1. sum \in Nat /\ bonus \in Nat /\ n \in Nat \ {0}
    BY SignalsAre, SumType, BonusType DEF Tested
  <2>2. Fusion!Inherited(atts, pol) = Agreed(sum, bonus, n)
    BY <1>2, UnmixedIs
  <2> HIDE DEF sum, bonus, n
  <2> QED
    BY <2>1, <2>2, AgreedType DEF PerMille
<1> QED
  BY <1>1, <1>2

\* A failure that weighs nothing leaves nothing.
LEMMA FailureZeroes ==
  ASSUME NEW atts, NEW pol, Tested(atts, pol), NEW a \in atts,
         a.status = "fail", pol.status["fail"] = 0
  PROVE  Fusion!Inherited(atts, pol) = 0
<1>1. ASSUME NEW b \in atts, b.status = "fail" PROVE Fusion!Signal(b, pol) = 0
  <2> DEFINE f == Fusion!Freshness(b.fresh, pol)
             conf == b.conf
  <2>1. f \in Int /\ conf \in Int
    <3>1. AttestationOK(b) /\ RangesOK(pol)
      BY DEF Tested, PolicyOK
    <3>2. PerMille(f) /\ conf \in Int
      BY <3>1, FreshnessType DEF AttestationOK
    <3> QED
      BY <3>2 DEF PerMille
  <2>2. Fusion!Signal(b, pol) = (((0 * f) \div 1000) * conf + 50) \div 100
    BY <1>1 DEF Fusion!Signal
  <2> HIDE DEF f, conf
  <2>3. 0 * f = 0 /\ 0 \div 1000 = 0 /\ 0 * conf = 0 /\ (0 + 50) \div 100 = 0
    BY <2>1
  <2> QED
    BY <2>2, <2>3
<1>2. CASE Mixed(atts)
  <2>1. Weakest(atts, pol) = 0
    <3>1. Weakest(atts, pol) \in Nat /\ Weakest(atts, pol) <= 0
      BY <1>1, WeakestIs
    <3> QED
      BY <3>1
  <2>2. PerMille(pol.conflict)
    BY DEF Tested, PolicyOK, RangesOK
  <2>3. Disputed(0, pol.conflict) = 0
    BY <2>2, DisputedGrows
  <2> QED
    BY <1>2, <2>1, <2>3, MixedIs
<1>3. CASE ~Mixed(atts)
  <2>1. \A b \in atts : b.status = "fail"
    BY <1>3, OneStatus DEF Tested
  <2>2. \A b \in atts : Signals(atts, pol)[b] = 0
    BY <1>1, <2>1 DEF Signals
  <2>3. SumFunctionOnSet(Signals(atts, pol), atts) = 0
    BY <2>2, SumOfZeros DEF Tested
  <2>4. Bonus(atts, pol) \in Nat /\ Cardinality(atts) \in Nat \ {0}
    BY BonusType
  <2>5. Agreed(0, Bonus(atts, pol), Cardinality(atts)) = 0
    BY <2>4, AgreedType
  <2> QED
    BY <1>3, <2>3, <2>5, UnmixedIs
<1> QED
  BY <1>2, <1>3

\* One attestation gives way to an older one.
Older(a, b) ==
  /\ AttestationOK(a) /\ AttestationOK(b) /\ a.status = b.status /\ a.conf = b.conf
  /\ Age(a.fresh) /\ Age(b.fresh) /\ a.fresh <= b.fresh

LEMMA InheritedFalls ==
  ASSUME NEW atts, NEW pol, Tested(atts, pol), NEW a \in atts, NEW b, b \notin atts \ {a}, Older(a, b)
  PROVE  Fusion!Inherited((atts \ {a}) \cup {b}, pol) <= Fusion!Inherited(atts, pol)
<1> DEFINE rest == atts \ {a}
           news == rest \cup {b}
<1>1. Tested(news, pol) /\ IsFiniteSet(rest) /\ news # {} /\ atts # {}
  <2>1. IsFiniteSet(rest)
    BY FS_RemoveElement DEF Tested
  <2>2. IsFiniteSet(news)
    <3> HIDE DEF rest
    <3> QED
      BY <2>1, FS_AddElement
  <2> QED
    BY <2>1, <2>2 DEF Tested, Older
<1>2. Fusion!Signal(b, pol) <= Fusion!Signal(a, pol)
  BY SignalFalls DEF Tested, Older
<1>3. Mixed(news) <=> Mixed(atts)
  <2>1. {x.status : x \in news} = {x.status : x \in atts}
    BY DEF Older
  <2> QED
    BY <2>1 DEF Mixed
<1>4. CASE Mixed(atts)
  <2>1. PICK x \in atts : Weakest(atts, pol) = Fusion!Signal(x, pol)
    BY <1>1, WeakestIs
  <2>2. Weakest(atts, pol) \in Nat /\ Weakest(news, pol) \in Nat
    BY <1>1, WeakestIs
  <2>3. Weakest(news, pol) <= Weakest(atts, pol)
    <3>1. CASE x = a
      <4>1. Weakest(news, pol) <= Fusion!Signal(b, pol)
        BY <1>1, WeakestIs
      <4>2. Fusion!Signal(b, pol) \in Nat /\ Fusion!Signal(a, pol) \in Nat
        BY <1>1, SignalType DEF Tested, Older
      <4> QED
        BY <1>2, <2>1, <2>2, <3>1, <4>1, <4>2
    <3>2. CASE x # a
      <4>1. x \in news
        BY <3>2
      <4> QED
        BY <1>1, <2>1, <4>1, WeakestIs
    <3> QED
      BY <3>1, <3>2
  <2>4. PerMille(pol.conflict)
    BY DEF Tested, PolicyOK, RangesOK
  <2>5. Disputed(Weakest(news, pol), pol.conflict) <= Disputed(Weakest(atts, pol), pol.conflict)
    <3> HIDE DEF news
    <3> QED
      BY <2>2, <2>3, <2>4, DisputedGrows
  <2> HIDE DEF news
  <2>6. Fusion!Inherited(news, pol) <= Fusion!Inherited(atts, pol)
    BY <1>3, <1>4, <2>5, MixedIs
  <2> QED
    BY <2>6 DEF news
<1>5. CASE ~Mixed(atts)
  <2> DEFINE f == Signals(atts, pol)
             g == Signals(news, pol)
             n == Cardinality(atts)
             bonus == Bonus(atts, pol)
  <2>1. Cardinality(news) = n
    <3>1. Cardinality(rest) = Cardinality(atts) - 1 /\ Cardinality(atts) \in Nat
      BY FS_RemoveElement, FS_CardinalityType DEF Tested
    <3>2. Cardinality(news) = Cardinality(rest) + 1
      <4>1. b \notin rest
        OBVIOUS
      <4> HIDE DEF rest
      <4> QED
        BY <1>1, <4>1, FS_AddElement
    <3> QED
      BY <3>1, <3>2
  <2>2. Bonus(news, pol) = bonus
    BY <2>1 DEF Bonus
  <2>3. /\ \A x \in atts : f[x] \in Nat /\ f[x] = Fusion!Signal(x, pol)
        /\ \A x \in news : g[x] \in Nat /\ g[x] = Fusion!Signal(x, pol)
    <3> HIDE DEF news
    <3> QED
      BY <1>1, SignalsAre
  <2>4. SumFunctionOnSet(f, atts) = f[a] + SumFunctionOnSet(f, rest)
    <3> HIDE DEF f
    <3> QED
      BY <2>3, SumTakesOne DEF Tested
  <2>5. SumFunctionOnSet(g, news) = g[b] + SumFunctionOnSet(g, rest)
    <3>1. b \in news /\ news \ {b} = rest /\ IsFiniteSet(news)
      BY <1>1 DEF Tested
    <3> HIDE DEF g, news, rest
    <3> QED
      BY <2>3, <3>1, SumTakesOne
  <2>6. SumFunctionOnSet(f, rest) = SumFunctionOnSet(g, rest) /\ SumFunctionOnSet(f, rest) \in Nat
    <3>1. \A x \in rest : f[x] \in Nat /\ g[x] = f[x]
      BY <2>3
    <3> HIDE DEF f, g, rest
    <3> QED
      BY <1>1, <3>1, SumAgrees, SumType
  <2>7. f[a] \in Nat /\ g[b] \in Nat /\ g[b] <= f[a]
    BY <1>2, <2>3
  <2> DEFINE r == SumFunctionOnSet(g, news)
             s == SumFunctionOnSet(f, atts)
  <2>8. r \in Nat /\ s \in Nat /\ r <= s
    <3> HIDE DEF f, g, news, rest
    <3> QED
      BY <2>4, <2>5, <2>6, <2>7
  <2>9. bonus \in Nat /\ n \in Nat \ {0}
    BY BonusType
  <2>10. /\ Fusion!Inherited(news, pol) = Agreed(r, bonus, n)
         /\ Fusion!Inherited(atts, pol) = Agreed(s, bonus, n)
    <3> HIDE DEF news
    <3> QED
      BY <1>3, <1>5, <2>1, <2>2, UnmixedIs
  <2> HIDE DEF r, s, bonus, n, news
  <2>11. Fusion!Inherited(news, pol) <= Fusion!Inherited(atts, pol)
    BY <2>8, <2>9, <2>10, AgreedGrows
  <2> QED
    BY <2>11 DEF news
<1> QED
  BY <1>4, <1>5

-----------------------------------------------------------------------------
(* Trust: the rows made of a platform's report.                             *)

LEMMA TranslatedType ==
  ASSUME Fusion!TrustAssumption, NEW f \in Platforms, NEW ref
  PROVE  Fusion!Translated(f, ref).conf \in Nat
<1> DEFINE known    == {fw \in DOMAIN Crosswalks : ref \in DOMAIN Crosswalks[fw]}
           declared == {i \in DOMAIN Speaks[f] : Speaks[f][i] \in known}
           first    == Crosswalks[Speaks[f][Fusion!Min(declared)]][ref]
<1>1. Fusion!Translated(f, ref) =
        CASE declared # {} -> [control |-> first.control, conf |-> Fusion!Quality[first.quality]]
          [] declared = {} /\ known # {} ->
               [control |-> Crosswalks[CHOOSE fw \in known : TRUE][ref].control,
                conf |-> Fusion!Quality["heuristic"]]
          [] OTHER -> [control |-> None, conf |-> 40]
  BY DEF Fusion!Translated
<1>2. CASE declared # {}
  <2>1. declared \subseteq Nat
    BY DEF Fusion!TrustAssumption
  <2>2. Fusion!Min(declared) \in declared
    <3> HIDE DEF declared
    <3> QED
      BY <1>2, <2>1, LeastIs
  <2>3. Speaks[f][Fusion!Min(declared)] \in known
    BY <2>2
  <2>4. first.quality \in DOMAIN Fusion!Quality
    BY <2>3 DEF Fusion!TrustAssumption
  <2>5. Fusion!Quality[first.quality] \in Nat
    <3> DEFINE q == first.quality
    <3>1. q = "exact" \/ q = "partial" \/ q = "heuristic"
      BY <2>4 DEF Fusion!Quality
    <3> HIDE DEF q
    <3>2. Fusion!Quality[q] \in Nat
      BY <3>1 DEF Fusion!Quality
    <3> QED
      BY <3>2, Zenon DEF q
  <2>6. Fusion!Translated(f, ref) = [control |-> first.control, conf |-> Fusion!Quality[first.quality]]
    <3> HIDE DEF declared, known, first
    <3> QED
      BY <1>1, <1>2
  <2> HIDE DEF first
  <2> QED
    BY <2>5, <2>6
<1>3. CASE declared = {} /\ known # {}
  <2>1. Fusion!Translated(f, ref) =
          [control |-> Crosswalks[CHOOSE fw \in known : TRUE][ref].control,
           conf |-> Fusion!Quality["heuristic"]]
    <3> HIDE DEF declared, known, first
    <3> QED
      BY <1>1, <1>3
  <2>2. Fusion!Quality["heuristic"] = 50
    BY DEF Fusion!Quality
  <2> QED
    BY <2>1, <2>2
<1>4. CASE declared = {} /\ known = {}
  <2>1. Fusion!Translated(f, ref) = [control |-> None, conf |-> 40]
    <3> HIDE DEF declared, known, first
    <3> QED
      BY <1>1, <1>4
  <2> QED
    BY <2>1
<1> QED
  BY <1>2, <1>3, <1>4

LEMMA ResolvedType ==
  ASSUME Fusion!TrustAssumption, NEW f \in Platforms, NEW ref
  PROVE  Fusion!Resolved(f, ref).conf \in Nat
<1>1. CASE ref \in DOMAIN Declares[f]
  BY <1>1 DEF Fusion!Resolved
<1>2. CASE ref \notin DOMAIN Declares[f]
  <2>1. Fusion!Resolved(f, ref) = Fusion!Translated(f, ref)
    BY <1>2 DEF Fusion!Resolved
  <2> QED
    BY <2>1, TranslatedType
<1> QED
  BY <1>1, <1>2

\* A row of a platform's sync.
RowOK(a, f, sync) ==
  /\ AttestationOK(a) /\ a.platform = f
  /\ \E n, i \in Nat : a.row = <<sync, n, i>>

LEMMA AttestationIs ==
  ASSUME Fusion!TrustAssumption, NEW f \in Platforms, NEW result \in Fusion!Results,
         NEW sync, NEW n \in Nat, NEW i \in Nat
  PROVE  /\ RowOK(Fusion!Attestation(f, result, <<sync, n, i>>), f, sync)
         /\ Fusion!Attestation(f, result, <<sync, n, i>>).row = <<sync, n, i>>
<1> DEFINE a == Fusion!Attestation(f, result, <<sync, n, i>>)
           conf == Fusion!Resolved(f, result.ref).conf
<1>1. conf \in Nat
  BY ResolvedType
<1>2. /\ a.platform = f /\ a.row = <<sync, n, i>> /\ a.fresh = result.fresh
      /\ a.status = (IF result.status \in Fusion!Statuses THEN result.status ELSE "error")
      /\ a.conf = conf \/ a.conf = (7 * conf + 5) \div 10
      /\ DOMAIN a = {"platform", "row", "control", "fresh", "status", "conf"}
  BY DEF Fusion!Attestation
<1>3. result.fresh = None \/ Age(result.fresh)
  BY DEF Fusion!Results, Fusion!TrustAssumption, Age
<1>4. a.status \in Fusion!Statuses
  BY <1>2 DEF Fusion!Statuses
<1> HIDE DEF conf
<1>5. (7 * conf + 5) \div 10 \in Nat
  BY <1>1, QuotientType
<1> HIDE DEF a
<1>6. AttestationOK(a)
  BY <1>1, <1>2, <1>3, <1>4, <1>5 DEF AttestationOK
<1>7. RowOK(a, f, sync)
  BY <1>2, <1>6 DEF RowOK
<1> QED
  BY <1>2, <1>7 DEF a

Answers == Reports \cup {<<>>}

\* The pages of a report that are read are pages of results.
LEMMA PagesAre ==
  ASSUME Fusion!TrustAssumption, NEW report \in Answers
  PROVE  LET read == 1..(IF Len(report) < MaxPages THEN Len(report) ELSE MaxPages)
         IN  /\ IsFiniteSet(read)
             /\ \A n \in read : n \in Nat /\ report[n] \in Seq(Fusion!Results)
             /\ report = <<>> => read = {}
<1> DEFINE most == IF Len(report) < MaxPages THEN Len(report) ELSE MaxPages
<1>1. report \in Seq(Seq(Fusion!Results))
  <2>1. CASE report \in Reports
    BY <2>1 DEF Fusion!TrustAssumption
  <2>2. CASE report = <<>>
    <3> DEFINE S == Seq(Fusion!Results)
    <3> HIDE DEF S
    <3>1. <<>> \in Seq(S)
      OBVIOUS
    <3> QED
      BY <2>2, <3>1 DEF S
  <2> QED
    BY <2>1, <2>2 DEF Answers
<1>2. Len(report) \in Nat /\ MaxPages \in Nat \ {0}
  BY <1>1 DEF Fusion!TrustAssumption
<1>3. most \in Nat /\ most <= Len(report)
  BY <1>2
<1>4. \A n \in 1..most : n \in Nat /\ n \in 1..Len(report)
  <2> HIDE DEF most
  <2> QED
    BY <1>2, <1>3
<1>5. \A n \in 1..most : report[n] \in Seq(Fusion!Results)
  BY <1>1, <1>4
<1>6. IsFiniteSet(1..most)
  <2> HIDE DEF most
  <2> QED
    BY <1>3, FS_Interval
<1>7. report = <<>> => 1..most = {}
  <2> SUFFICES ASSUME report = <<>> PROVE most = 0
    <3> HIDE DEF most
    <3> QED
      OBVIOUS
  <2> QED
    BY <1>2
<1> QED
  BY <1>4, <1>5, <1>6, <1>7

\* The rows of a report: finitely many, each told by its place.
LEMMA RowsAre ==
  ASSUME Fusion!TrustAssumption, NEW f \in Platforms, NEW report \in Answers, NEW sync
  PROVE  /\ IsFiniteSet(Fusion!Rows(f, report, sync))
         /\ \A a \in Fusion!Rows(f, report, sync) : RowOK(a, f, sync)
         /\ \A a, b \in Fusion!Rows(f, report, sync) : a.row = b.row => a = b
         /\ report = <<>> => Fusion!Rows(f, report, sync) = {}
<1> DEFINE read == 1..(IF Len(report) < MaxPages THEN Len(report) ELSE MaxPages)
           named(n) == {j \in DOMAIN report[n] : report[n][j].named}
           row(n, i) == Fusion!Attestation(f, report[n][i], <<sync, n, i>>)
           page(n) == {row(n, i) : i \in named(n)}
           made == Fusion!Rows(f, report, sync)
<1>1. /\ IsFiniteSet(read)
      /\ \A n \in read : n \in Nat /\ report[n] \in Seq(Fusion!Results)
      /\ report = <<>> => read = {}
  BY PagesAre
<1>2. made = UNION {page(n) : n \in read}
  BY DEF Fusion!Rows, Fusion!Ingested
<1> HIDE DEF read, made
<1>3. ASSUME NEW n \in read PROVE IsFiniteSet(page(n))
  <2> DEFINE S == named(n)
             g == [i \in S |-> row(n, i)]
  <2>1. S \subseteq 1..Len(report[n]) /\ Len(report[n]) \in Nat
    BY <1>1
  <2>2. IsFiniteSet(S)
    <3>1. IsFiniteSet(1..Len(report[n]))
      BY <2>1, FS_Interval
    <3> HIDE DEF S
    <3> QED
      BY <2>1, <3>1, FS_Subset
  <2>3. IsFiniteSet({g[i] : i \in S})
    <3> HIDE DEF S, g
    <3> QED
      BY <2>2, ImageIsFinite
  <2>4. {g[i] : i \in S} = page(n)
    OBVIOUS
  <2> QED
    BY <2>3, <2>4
<1>4. IsFiniteSet(made)
  <2> DEFINE h == [n \in read |-> page(n)]
             pages == {page(n) : n \in read}
  <2>1. IsFiniteSet({h[n] : n \in read})
    <3> HIDE DEF h
    <3> QED
      BY <1>1, ImageIsFinite
  <2>2. {h[n] : n \in read} = pages
    OBVIOUS
  <2>3. \A T \in pages : IsFiniteSet(T)
    BY <1>3
  <2> HIDE DEF pages, h
  <2>4. IsFiniteSet(UNION pages)
    BY <2>1, <2>2, <2>3, FS_UNION
  <2> QED
    BY <1>2, <2>4 DEF pages
<1>5. ASSUME NEW a \in made
      PROVE  \E n \in read, i \in Nat :
               /\ report[n][i] \in Fusion!Results
               /\ a = row(n, i) /\ RowOK(a, f, sync) /\ a.row = <<sync, n, i>>
  <2>0. PICK n \in read : a \in page(n)
    BY <1>2
  <2>1. PICK i \in named(n) : a = row(n, i)
    BY <2>0
  <2>2. report[n] \in Seq(Fusion!Results) /\ n \in Nat
    BY <1>1
  <2>3. i \in Nat /\ report[n][i] \in Fusion!Results
    BY <2>2
  <2>4. RowOK(row(n, i), f, sync) /\ row(n, i).row = <<sync, n, i>>
    BY <2>2, <2>3, AttestationIs
  <2> QED
    BY <2>1, <2>3, <2>4
<1>6. ASSUME NEW a \in made, NEW b \in made, a.row = b.row PROVE a = b
  <2>1. PICK n \in read, i \in Nat : a = row(n, i) /\ a.row = <<sync, n, i>>
    BY <1>5
  <2>2. PICK m \in read, j \in Nat : b = row(m, j) /\ b.row = <<sync, m, j>>
    BY <1>5
  <2>3. n = m /\ i = j
    BY <1>6, <2>1, <2>2
  <2> QED
    BY <2>1, <2>2, <2>3
<1>7. report = <<>> => made = {}
  BY <1>1, <1>2
<1> QED
  BY <1>4, <1>5, <1>6, <1>7 DEF made

-----------------------------------------------------------------------------
(* Trust: inherited trust is earned.                                        *)

\* A platform's lane, and the requests that are to rewrite it.
Lane(f) == {a \in attested : a.platform = f}

On(p, f) == Fusion!Busy(p) /\ request[p].platform = f

Holding(p) == request[p].at \in {"clearing", "cleared"}

TaskOK(t) ==
  /\ {"at", "platform", "report", "sync", "found"} \subseteq DOMAIN t
  /\ t.at \in {"clear", "clearing", "cleared"} /\ t.platform \in Platforms
  /\ t.report \in Reports /\ t.sync \in Nat

\* Every request has a sync of its own, of which nothing is stored yet.
TasksOK ==
  /\ steps \in Nat /\ DOMAIN request = GrcCalls
  /\ \A p \in GrcCalls : Fusion!Busy(p) =>
       /\ TaskOK(request[p]) /\ request[p].sync < steps
       /\ \A a \in attested : a.row[1] # request[p].sync
       /\ Holding(p) => \A a \in request[p].found : a.platform = request[p].platform
  /\ \A p, q \in GrcCalls :
       Fusion!Busy(p) /\ Fusion!Busy(q) /\ request[p].sync = request[q].sync => p = q

\* A row is told by its platform, its sync and its place in the report.
AttestedOK ==
  /\ IsFiniteSet(attested)
  /\ \A a \in attested : AttestationOK(a) /\ a.row[1] \in Nat /\ a.row[1] < steps
  /\ \A a, b \in attested : a.platform = b.platform /\ a.row = b.row => a = b

\* A sync on its own holds the whole lane it found.
HeldOK ==
  /\ DOMAIN reported = Platforms /\ \A f \in Platforms : reported[f].report \in Answers
  /\ \A f \in Platforms \ crossed : \A p, q \in GrcCalls : On(p, f) /\ On(q, f) => p = q
  /\ \A f \in Platforms \ crossed : \A p \in GrcCalls :
       On(p, f) /\ Holding(p) => request[p].found = Lane(f)

EarnedInv == TasksOK /\ AttestedOK /\ HeldOK /\ Fusion!LaneIsLastSync

LEMMA FetchKeeps ==
  ASSUME EarnedInv, NEW p \in GrcCalls, NEW f \in Platforms, NEW report \in Reports,
         Fusion!Fetch(p, f, report)
  PROVE  EarnedInv'
<1> DEFINE task == [at |-> "clear", platform |-> f, report |-> report, sync |-> steps, found |-> {}]
<1>1. /\ ~Fusion!Busy(p) /\ steps' = steps + 1 /\ steps \in Nat /\ DOMAIN request = GrcCalls
      /\ request' = [request EXCEPT ![p] = task]
      /\ attested' = attested /\ reported' = reported
      /\ crossed' = crossed \cup {g \in {f} : \E q \in GrcCalls : Fusion!Busy(q) /\ request[q].platform = g}
  BY DEF Fusion!Fetch, Fusion!Step, EarnedInv, TasksOK
<1>2. /\ request'[p] = task /\ DOMAIN request' = GrcCalls
      /\ \A q \in GrcCalls \ {p} : request'[q] = request[q]
  BY <1>1
<1>3. TaskOK(task) /\ task.at # "idle" /\ task.sync = steps /\ task.platform = f
  BY <1>1 DEF TaskOK
<1>4. /\ Fusion!Busy(p)' /\ ~Holding(p)'
      /\ \A q \in GrcCalls \ {p} : (Fusion!Busy(q)' <=> Fusion!Busy(q)) /\ (Holding(q)' <=> Holding(q))
  BY <1>2, <1>3 DEF Fusion!Busy, Holding
<1> HIDE DEF task
<1>5. \A q \in GrcCalls \ {p} : Fusion!Busy(q) => request[q].sync < steps /\ request[q].sync \in Nat
  BY DEF EarnedInv, TasksOK, TaskOK
<1>6. \A a \in attested : AttestationOK(a) /\ a.row[1] \in Nat /\ a.row[1] < steps
  BY DEF EarnedInv, AttestedOK
<1>7. TasksOK'
  <2>1. ASSUME NEW q \in GrcCalls, Fusion!Busy(q)'
        PROVE  /\ TaskOK(request'[q]) /\ request'[q].sync < steps'
               /\ \A a \in attested' : a.row[1] # request'[q].sync
               /\ Holding(q)' => \A a \in request'[q].found : a.platform = request'[q].platform
    <3>1. CASE q = p
      BY <1>1, <1>2, <1>3, <1>4, <1>6, <3>1
    <3>2. CASE q # p
      <4>1. Fusion!Busy(q) /\ request'[q] = request[q] /\ (Holding(q)' <=> Holding(q))
        BY <1>2, <1>4, <2>1, <3>2
      <4> QED
        BY <1>1, <1>5, <3>2, <4>1 DEF EarnedInv, TasksOK
    <3> QED
      BY <3>1, <3>2
  <2>2. ASSUME NEW q \in GrcCalls, NEW r \in GrcCalls, Fusion!Busy(q)', Fusion!Busy(r)',
               request'[q].sync = request'[r].sync
        PROVE  q = r
    <3>1. CASE q # p /\ r # p
      BY <1>2, <1>4, <2>2, <3>1 DEF EarnedInv, TasksOK
    <3>2. CASE q = p /\ r # p
      BY <1>1, <1>2, <1>3, <1>4, <1>5, <2>2, <3>2
    <3>3. CASE q # p /\ r = p
      BY <1>1, <1>2, <1>3, <1>4, <1>5, <2>2, <3>3
    <3> QED
      BY <3>1, <3>2, <3>3
  <2>3. steps' \in Nat
    BY <1>1
  <2> QED
    BY <1>2, <2>1, <2>2, <2>3 DEF TasksOK
<1>8. AttestedOK'
  BY <1>1, <1>6 DEF EarnedInv, AttestedOK
<1>9. HeldOK'
  <2>1. ASSUME NEW g \in Platforms \ crossed', NEW q \in GrcCalls, NEW r \in GrcCalls, On(q, g)', On(r, g)'
        PROVE  q = r
    <3>1. \A t \in GrcCalls \ {p} : On(t, g)' => On(t, g)
      BY <1>2, <1>4 DEF On
    <3>2. g \notin crossed
      BY <1>1, <2>1
    <3>3. g = f => \A t \in GrcCalls : ~On(t, g)
      BY <1>1, <2>1 DEF On
    <3>4. On(p, g)' => g = f
      BY <1>2, <1>3 DEF On
    <3> QED
      BY <2>1, <3>1, <3>2, <3>3, <3>4 DEF EarnedInv, HeldOK
  <2>2. ASSUME NEW g \in Platforms \ crossed', NEW q \in GrcCalls, On(q, g)', Holding(q)'
        PROVE  request'[q].found = Lane(g)'
    <3>1. q # p
      BY <1>4, <2>2
    <3>2. On(q, g) /\ Holding(q) /\ request'[q] = request[q] /\ g \notin crossed
      BY <1>1, <1>2, <1>4, <2>2, <3>1 DEF On
    <3>3. Lane(g)' = Lane(g)
      BY <1>1 DEF Lane
    <3> QED
      BY <3>2, <3>3 DEF EarnedInv, HeldOK
  <2> QED
    BY <1>1, <2>1, <2>2 DEF EarnedInv, HeldOK
<1>10. Fusion!LaneIsLastSync'
  BY <1>1 DEF EarnedInv, Fusion!LaneIsLastSync
<1> QED
  BY <1>7, <1>8, <1>9, <1>10 DEF EarnedInv

\* What a step of a request that stays on its sync must leave.
LEMMA HolderKeeps ==
  ASSUME EarnedInv, NEW p \in GrcCalls, Fusion!Busy(p), DOMAIN request' = GrcCalls,
         TaskOK(request'[p]), request'[p].platform = request[p].platform,
         request'[p].sync = request[p].sync, \A q \in GrcCalls \ {p} : request'[q] = request[q],
         UNCHANGED <<attested, steps, reported, crossed>>,
         \A a \in request'[p].found : a.platform = request[p].platform,
         request[p].platform \notin crossed => request'[p].found = Lane(request[p].platform)
  PROVE  EarnedInv'
<1>1. /\ Fusion!Busy(p)'
      /\ \A q \in GrcCalls \ {p} : (Fusion!Busy(q)' <=> Fusion!Busy(q)) /\ (Holding(q)' <=> Holding(q))
      /\ \A q \in GrcCalls : (Fusion!Busy(q)' <=> Fusion!Busy(q)) /\ request'[q].sync = request[q].sync
      /\ \A q \in GrcCalls : request'[q].platform = request[q].platform
  BY DEF Fusion!Busy, Holding, TaskOK
<1>2. TasksOK'
  <2>1. ASSUME NEW q \in GrcCalls, Fusion!Busy(q)'
        PROVE  /\ TaskOK(request'[q]) /\ request'[q].sync < steps'
               /\ \A a \in attested' : a.row[1] # request'[q].sync
               /\ Holding(q)' => \A a \in request'[q].found : a.platform = request'[q].platform
    <3>1. Fusion!Busy(q) /\ request'[q].sync = request[q].sync
      BY <1>1, <2>1
    <3>2. CASE q = p
      BY <3>1, <3>2 DEF EarnedInv, TasksOK
    <3>3. CASE q # p
      BY <1>1, <3>1, <3>3 DEF EarnedInv, TasksOK
    <3> QED
      BY <3>2, <3>3
  <2>2. ASSUME NEW q \in GrcCalls, NEW r \in GrcCalls, Fusion!Busy(q)', Fusion!Busy(r)',
               request'[q].sync = request'[r].sync
        PROVE  q = r
    BY <1>1, <2>2 DEF EarnedInv, TasksOK
  <2>3. steps' \in Nat
    BY DEF EarnedInv, TasksOK
  <2> QED
    BY <2>1, <2>2, <2>3 DEF TasksOK
<1>3. AttestedOK'
  BY DEF EarnedInv, AttestedOK
<1>4. HeldOK'
  <2>1. \A q \in GrcCalls, f \in Platforms : On(q, f)' <=> On(q, f)
    BY <1>1 DEF On
  <2>2. \A f \in Platforms : Lane(f)' = Lane(f)
    BY DEF Lane
  <2>3. ASSUME NEW f \in Platforms \ crossed', NEW q \in GrcCalls, On(q, f)', Holding(q)'
        PROVE  request'[q].found = Lane(f)'
    <3>1. CASE q = p
      BY <2>1, <2>2, <2>3, <3>1 DEF On
    <3>2. CASE q # p
      BY <1>1, <2>1, <2>2, <2>3, <3>2 DEF EarnedInv, HeldOK
    <3> QED
      BY <3>1, <3>2
  <2> QED
    BY <2>1, <2>3 DEF EarnedInv, HeldOK
<1>5. Fusion!LaneIsLastSync'
  BY DEF EarnedInv, Fusion!LaneIsLastSync
<1> QED
  BY <1>2, <1>3, <1>4, <1>5 DEF EarnedInv

LEMMA ClearKeeps ==
  ASSUME EarnedInv, NEW p \in GrcCalls, Fusion!Clear(p)
  PROVE  EarnedInv'
<1> DEFINE news == {a \in attested : a.platform = request[p].platform}
<1>1. Fusion!Busy(p) /\ TaskOK(request[p]) /\ DOMAIN request = GrcCalls
  BY DEF Fusion!Clear, Fusion!Busy, EarnedInv, TasksOK
<1>2. /\ request' = [request EXCEPT ![p].at = "clearing", ![p].found = news]
      /\ UNCHANGED <<attested, steps, reported, crossed>>
  BY DEF Fusion!Clear
<1>3. /\ DOMAIN request' = GrcCalls /\ \A q \in GrcCalls \ {p} : request'[q] = request[q]
      /\ DOMAIN request'[p] = DOMAIN request[p]
      /\ request'[p].at = "clearing" /\ request'[p].platform = request[p].platform
      /\ request'[p].report = request[p].report /\ request'[p].sync = request[p].sync
      /\ request'[p].found = news
  <2> HIDE DEF news
  <2> QED
    BY <1>1, <1>2 DEF TaskOK
<1>4. TaskOK(request'[p])
  BY <1>1, <1>3 DEF TaskOK
<1>5. /\ \A a \in request'[p].found : a.platform = request[p].platform
      /\ request'[p].found = Lane(request[p].platform)
  BY <1>3 DEF Lane
<1> QED
  BY <1>1, <1>2, <1>3, <1>4, <1>5, HolderKeeps, Zenon

LEMMA ClearedKeeps ==
  ASSUME EarnedInv, NEW p \in GrcCalls, Fusion!Cleared(p)
  PROVE  EarnedInv'
<1> DEFINE news == request[p].found \cap attested
<1>1. Fusion!Busy(p) /\ TaskOK(request[p]) /\ DOMAIN request = GrcCalls /\ Holding(p)
  BY DEF Fusion!Cleared, Fusion!Busy, EarnedInv, TasksOK, Holding
<1>2. /\ request' = [request EXCEPT ![p].at = "cleared", ![p].found = @ \cap attested]
      /\ UNCHANGED <<attested, steps, reported, crossed>>
  BY DEF Fusion!Cleared
<1>3. /\ DOMAIN request' = GrcCalls /\ \A q \in GrcCalls \ {p} : request'[q] = request[q]
      /\ DOMAIN request'[p] = DOMAIN request[p]
      /\ request'[p].at = "cleared" /\ request'[p].platform = request[p].platform
      /\ request'[p].report = request[p].report /\ request'[p].sync = request[p].sync
      /\ request'[p].found = news
  BY <1>1, <1>2 DEF TaskOK
<1>4. TaskOK(request'[p])
  BY <1>1, <1>3 DEF TaskOK
<1>5. \A a \in request'[p].found : a.platform = request[p].platform
  BY <1>1, <1>3 DEF EarnedInv, TasksOK
<1>6. request[p].platform \notin crossed => request'[p].found = Lane(request[p].platform)
  <2> SUFFICES ASSUME request[p].platform \notin crossed
               PROVE  request'[p].found = Lane(request[p].platform)
    OBVIOUS
  <2>1. request[p].platform \in Platforms \ crossed /\ On(p, request[p].platform)
    BY <1>1 DEF TaskOK, On
  <2>2. request[p].found = Lane(request[p].platform)
    BY <1>1, <2>1 DEF EarnedInv, HeldOK
  <2> QED
    BY <1>3, <2>2 DEF Lane
<1> QED
  BY <1>1, <1>2, <1>3, <1>4, <1>5, <1>6, HolderKeeps, Zenon

\* A request that ends leaves the others as they were.
Ended(p) ==
  /\ DOMAIN request' = GrcCalls /\ ~Fusion!Busy(p)'
  /\ \A q \in GrcCalls \ {p} : request'[q] = request[q]

LEMMA EndedIs ==
  ASSUME TasksOK, NEW p \in GrcCalls, request' = [request EXCEPT ![p] = Fusion!Idle]
  PROVE  /\ Ended(p)
         /\ \A q \in GrcCalls : Fusion!Busy(q)' => q # p /\ Fusion!Busy(q) /\ request'[q] = request[q]
         /\ \A q \in GrcCalls : Fusion!Busy(q)' => (Holding(q)' <=> Holding(q))
         /\ \A q \in GrcCalls, f \in Platforms : On(q, f)' => q # p /\ On(q, f)
<1>1. DOMAIN request = GrcCalls /\ Fusion!Idle.at = "idle"
  BY DEF TasksOK, Fusion!Idle
<1>2. /\ DOMAIN request' = GrcCalls /\ request'[p] = Fusion!Idle
      /\ \A q \in GrcCalls \ {p} : request'[q] = request[q]
  BY <1>1
<1>3. ~Fusion!Busy(p)'
  BY <1>1, <1>2 DEF Fusion!Busy
<1>4. \A q \in GrcCalls : Fusion!Busy(q)' => q # p /\ Fusion!Busy(q) /\ request'[q] = request[q]
  BY <1>2, <1>3 DEF Fusion!Busy
<1> QED
  BY <1>2, <1>3, <1>4 DEF Ended, Holding, On

LEMMA AbandonKeeps ==
  ASSUME EarnedInv, NEW p \in GrcCalls, Fusion!Abandon(p)
  PROVE  EarnedInv'
<1>1. /\ request' = [request EXCEPT ![p] = Fusion!Idle]
      /\ UNCHANGED <<attested, steps, reported, crossed>>
  BY DEF Fusion!Abandon
<1>2. /\ Ended(p)
      /\ \A q \in GrcCalls : Fusion!Busy(q)' => q # p /\ Fusion!Busy(q) /\ request'[q] = request[q]
      /\ \A q \in GrcCalls : Fusion!Busy(q)' => (Holding(q)' <=> Holding(q))
      /\ \A q \in GrcCalls, f \in Platforms : On(q, f)' => q # p /\ On(q, f)
  BY <1>1, EndedIs DEF EarnedInv
<1>3. TasksOK'
  BY <1>1, <1>2 DEF EarnedInv, TasksOK, Ended
<1>4. AttestedOK'
  BY <1>1 DEF EarnedInv, AttestedOK
<1>5. HeldOK'
  <2>1. \A f \in Platforms : Lane(f)' = Lane(f)
    BY <1>1 DEF Lane
  <2>2. ASSUME NEW f \in Platforms \ crossed', NEW q \in GrcCalls, On(q, f)', Holding(q)'
        PROVE  request'[q].found = Lane(f)'
    <3>1. On(q, f) /\ Holding(q) /\ request'[q] = request[q]
      BY <1>2, <2>2 DEF On
    <3> QED
      BY <1>1, <2>1, <2>2, <3>1 DEF EarnedInv, HeldOK
  <2>3. ASSUME NEW f \in Platforms \ crossed', NEW q \in GrcCalls, NEW r \in GrcCalls, On(q, f)', On(r, f)'
        PROVE  q = r
    BY <1>1, <1>2, <2>3 DEF EarnedInv, HeldOK
  <2> QED
    BY <1>1, <2>2, <2>3 DEF EarnedInv, HeldOK
<1>6. Fusion!LaneIsLastSync'
  BY <1>1 DEF EarnedInv, Fusion!LaneIsLastSync
<1> QED
  BY <1>3, <1>4, <1>5, <1>6 DEF EarnedInv

LEMMA StoreKeeps ==
  ASSUME Fusion!TrustAssumption, EarnedInv, NEW p \in GrcCalls, Fusion!Store(p)
  PROVE  EarnedInv'
<1> DEFINE f == request[p].platform
           sync == request[p].sync
           report == request[p].report
           made == Fusion!Rows(f, report, sync)
           gone == request[p].found
<1>1. /\ Fusion!Busy(p) /\ Holding(p) /\ TaskOK(request[p]) /\ sync < steps /\ sync \in Nat
      /\ f \in Platforms /\ report \in Answers
      /\ \A a \in attested : a.row[1] # sync
      /\ \A a \in gone : a.platform = f
  BY DEF Fusion!Store, Fusion!Busy, EarnedInv, TasksOK, Holding, TaskOK, Answers
<1>2. /\ attested' = (attested \ gone) \cup made
      /\ reported' = [reported EXCEPT ![f] = [report |-> report, sync |-> sync]]
      /\ request' = [request EXCEPT ![p] = Fusion!Idle]
      /\ UNCHANGED <<steps, crossed>>
  BY DEF Fusion!Store
<1>3. /\ IsFiniteSet(made) /\ \A a \in made : RowOK(a, f, sync)
      /\ \A a, b \in made : a.row = b.row => a = b
  BY <1>1, RowsAre
<1>4. /\ Ended(p)
      /\ \A q \in GrcCalls : Fusion!Busy(q)' => q # p /\ Fusion!Busy(q) /\ request'[q] = request[q]
      /\ \A q \in GrcCalls : Fusion!Busy(q)' => (Holding(q)' <=> Holding(q))
      /\ \A q \in GrcCalls, g \in Platforms : On(q, g)' => q # p /\ On(q, g)
  BY <1>2, EndedIs DEF EarnedInv
<1>5. \A a \in made : AttestationOK(a) /\ a.platform = f /\ a.row[1] = sync
  BY <1>3 DEF RowOK
<1>6. /\ DOMAIN reported' = Platforms /\ reported'[f] = [report |-> report, sync |-> sync]
      /\ \A g \in Platforms \ {f} : reported'[g] = reported[g]
  BY <1>1, <1>2 DEF EarnedInv, HeldOK
<1> HIDE DEF made, gone
<1>7. TasksOK'
  <2>1. ASSUME NEW q \in GrcCalls, Fusion!Busy(q)'
        PROVE  /\ TaskOK(request'[q]) /\ request'[q].sync < steps'
               /\ \A a \in attested' : a.row[1] # request'[q].sync
               /\ Holding(q)' => \A a \in request'[q].found : a.platform = request'[q].platform
    <3>1. q # p /\ Fusion!Busy(q) /\ request'[q] = request[q] /\ (Holding(q)' <=> Holding(q))
      BY <1>4, <2>1
    <3>2. request[q].sync # sync
      BY <1>1, <3>1 DEF EarnedInv, TasksOK
    <3>3. \A a \in attested' : a.row[1] # request[q].sync
      BY <1>2, <1>5, <3>1, <3>2 DEF EarnedInv, TasksOK
    <3> QED
      BY <1>2, <3>1, <3>3 DEF EarnedInv, TasksOK
  <2>2. ASSUME NEW q \in GrcCalls, NEW r \in GrcCalls, Fusion!Busy(q)', Fusion!Busy(r)',
               request'[q].sync = request'[r].sync
        PROVE  q = r
    BY <1>4, <2>2 DEF EarnedInv, TasksOK
  <2>3. steps' \in Nat /\ DOMAIN request' = GrcCalls
    BY <1>2, <1>4 DEF EarnedInv, TasksOK, Ended
  <2> QED
    BY <2>1, <2>2, <2>3 DEF TasksOK
<1>8. AttestedOK'
  <2>1. IsFiniteSet(attested')
    <3>1. IsFiniteSet(attested \ gone)
      BY FS_Difference DEF EarnedInv, AttestedOK
    <3> QED
      BY <1>2, <1>3, <3>1, FS_Union
  <2>2. \A a \in attested' : AttestationOK(a) /\ a.row[1] \in Nat /\ a.row[1] < steps'
    BY <1>1, <1>2, <1>5 DEF EarnedInv, AttestedOK
  <2>3. ASSUME NEW a \in attested', NEW b \in attested', a.platform = b.platform, a.row = b.row
        PROVE  a = b
    <3>1. CASE a \in made /\ b \in made
      BY <1>3, <2>3, <3>1
    <3>2. CASE a \in attested /\ b \in attested
      BY <2>3, <3>2 DEF EarnedInv, AttestedOK
    <3>3. CASE (a \in made /\ b \in attested) \/ (a \in attested /\ b \in made)
      BY <1>1, <1>5, <2>3, <3>3
    <3> QED
      BY <1>2, <3>1, <3>2, <3>3
  <2> QED
    BY <2>1, <2>2, <2>3 DEF AttestedOK
<1>9. \A g \in Platforms \ {f} : Lane(g)' = Lane(g)
  BY <1>1, <1>2, <1>5 DEF Lane
<1>10. ASSUME NEW g \in Platforms, g = f, g \notin crossed PROVE Lane(g)' = made
  <2>1. g \in Platforms \ crossed /\ On(p, g)
    BY <1>1, <1>10 DEF On
  <2>2. gone = Lane(g)
    BY <1>1, <2>1 DEF EarnedInv, HeldOK, gone
  <2>3. \A a \in attested \ gone : a.platform # g
    BY <2>2 DEF Lane
  <2>4. \A a \in made : a.platform = g
    BY <1>5, <1>10
  <2> QED
    BY <1>2, <2>3, <2>4 DEF Lane
<1>11. HeldOK'
  <2>1. ASSUME NEW g \in Platforms \ crossed', NEW q \in GrcCalls, On(q, g)', Holding(q)'
        PROVE  request'[q].found = Lane(g)'
    <3>1. On(q, g) /\ Holding(q) /\ request'[q] = request[q] /\ q # p
      BY <1>4, <2>1 DEF On
    <3>2. request[q].found = Lane(g)
      BY <1>2, <2>1, <3>1 DEF EarnedInv, HeldOK
    <3>3. g # f
      BY <1>1, <1>2, <2>1, <3>1 DEF EarnedInv, HeldOK, On
    <3> QED
      BY <1>9, <2>1, <3>1, <3>2, <3>3
  <2>2. ASSUME NEW g \in Platforms \ crossed', NEW q \in GrcCalls, NEW r \in GrcCalls, On(q, g)', On(r, g)'
        PROVE  q = r
    BY <1>2, <1>4, <2>2 DEF EarnedInv, HeldOK
  <2>3. \A g \in Platforms : reported'[g].report \in Answers
    BY <1>1, <1>6 DEF EarnedInv, HeldOK
  <2> QED
    BY <1>6, <2>1, <2>2, <2>3 DEF HeldOK
<1>12. Fusion!LaneIsLastSync'
  <2>1. ASSUME NEW g \in Platforms \ crossed'
        PROVE  Lane(g)' = Fusion!Rows(g, reported'[g].report, reported'[g].sync)
    <3>1. CASE g = f
      BY <1>2, <1>6, <1>10, <2>1, <3>1 DEF made
    <3>2. CASE g # f
      <4>1. Lane(g) = Fusion!Rows(g, reported[g].report, reported[g].sync)
        BY <1>2, <2>1 DEF EarnedInv, Fusion!LaneIsLastSync, Lane
      <4> QED
        BY <1>6, <1>9, <2>1, <3>2, <4>1
    <3> QED
      BY <3>1, <3>2
  <2> QED
    BY <2>1 DEF Fusion!LaneIsLastSync, Lane
<1> QED
  BY <1>7, <1>8, <1>11, <1>12 DEF EarnedInv

\* What is not of the attestations leaves them alone.
LEMMA OthersKeep ==
  ASSUME EarnedInv, UNCHANGED <<attested, request, reported, crossed>>,
         steps' \in Nat, steps <= steps'
  PROVE  EarnedInv'
<1>1. TasksOK'
  <2>1. \A q \in GrcCalls : (Fusion!Busy(q)' <=> Fusion!Busy(q)) /\ (Holding(q)' <=> Holding(q))
    BY DEF Fusion!Busy, Holding
  <2>2. ASSUME NEW q \in GrcCalls, Fusion!Busy(q) PROVE request[q].sync < steps'
    <3>1. request[q].sync < steps /\ request[q].sync \in Int /\ steps \in Int
      BY <2>2 DEF EarnedInv, TasksOK, TaskOK
    <3> QED
      BY <3>1
  <2> QED
    BY <2>1, <2>2 DEF EarnedInv, TasksOK
<1>2. AttestedOK'
  <2>1. ASSUME NEW a \in attested PROVE a.row[1] < steps'
    <3>1. a.row[1] \in Int /\ a.row[1] < steps /\ steps \in Int
      BY DEF EarnedInv, TasksOK, AttestedOK
    <3> QED
      BY <3>1
  <2> QED
    BY <2>1 DEF EarnedInv, AttestedOK
<1>3. HeldOK'
  BY DEF EarnedInv, HeldOK, On, Holding, Lane, Fusion!Busy
<1>4. Fusion!LaneIsLastSync'
  BY DEF EarnedInv, Fusion!LaneIsLastSync
<1> QED
  BY <1>1, <1>2, <1>3, <1>4 DEF EarnedInv

LEMMA AttestsTested ==
  ASSUME Fusion!TrustAssumption, AttestedOK, NEW control, NEW policy \in Policies
  PROVE  Tested(Fusion!Attests(control), Fusion!Validated(policy))
<1>1. Fusion!Attests(control) \subseteq attested
  BY DEF Fusion!Attests
<1>2. IsFiniteSet(Fusion!Attests(control))
  BY <1>1, FS_Subset DEF AttestedOK
<1>3. PolicyOK(Fusion!Validated(policy))
  BY ValidatedIs
<1> QED
  BY <1>1, <1>2, <1>3 DEF Tested, AttestedOK

LEMMA EarnedIs ==
  ASSUME Fusion!TrustAssumption, EarnedInv
  PROVE  Fusion!TrustIsEarned
<1>1. Fusion!FailureIsHeard
  <2> SUFFICES ASSUME NEW f \in Platforms \ crossed,
                      NEW a \in Fusion!Rows(f, reported[f].report, reported[f].sync),
                      NEW policy \in Policies,
                      a.control # None, a.status = "fail",
                      Fusion!Validated(policy).status["fail"] = 0
               PROVE  Fusion!Score("inherited", a.control, Fusion!Validated(policy)) = 0
    BY DEF Fusion!FailureIsHeard
  <2> DEFINE pol == Fusion!Validated(policy)
             atts == Fusion!Attests(a.control)
  <2>1. a \in atts
    BY DEF EarnedInv, Fusion!LaneIsLastSync, Fusion!Attests
  <2>2. Tested(atts, pol)
    BY AttestsTested DEF EarnedInv
  <2>3. Fusion!Inherited(atts, pol) = 0
    <3>1. pol.status["fail"] = 0
      OBVIOUS
    <3> HIDE DEF atts, pol
    <3> QED
      BY <2>1, <2>2, <3>1, FailureZeroes
  <2>4. Fusion!Score("inherited", a.control, pol) = ((Fusion!Inherited(atts, pol) + 5) \div 10) * 10
    BY DEF Fusion!Score
  <2>5. ((0 + 5) \div 10) * 10 = 0
    OBVIOUS
  <2> HIDE DEF pol, atts
  <2>6. Fusion!Score("inherited", a.control, pol) = 0
    BY <2>3, <2>4, <2>5
  <2> QED
    BY <2>6 DEF pol
<1>2. Fusion!OlderIsNoBetter
  <2> SUFFICES ASSUME NEW control \in Measures, NEW policy \in Policies,
                      NEW a \in Fusion!Attests(control), NEW days \in {8, 31, 90, 400},
                      a.fresh # None
               PROVE  LET older == [a EXCEPT !.fresh = IF @ # None /\ @ > days THEN @ ELSE days]
                          atts == Fusion!Attests(control)
                          pol == Fusion!Validated(policy)
                      IN  Fusion!Inherited((atts \ {a}) \cup {older}, pol) <= Fusion!Inherited(atts, pol)
    BY DEF Fusion!OlderIsNoBetter
  <2> DEFINE age == IF a.fresh # None /\ a.fresh > days THEN a.fresh ELSE days
             older == [a EXCEPT !.fresh = age]
             atts == Fusion!Attests(control)
             pol == Fusion!Validated(policy)
  <2>1. Tested(atts, pol) /\ a \in atts /\ a \in attested /\ atts \subseteq attested
    <3>1. Tested(atts, pol)
      BY AttestsTested DEF EarnedInv
    <3> QED
      BY <3>1 DEF Fusion!Attests
  <2>2. AttestationOK(a) /\ Age(a.fresh)
    BY <2>1 DEF EarnedInv, AttestedOK, AttestationOK
  <2>3. days \in Int /\ Age(days)
    BY DEF Age, Fusion!TrustAssumption
  <2>4. Age(age) /\ a.fresh <= age
    <3>1. a.fresh \in Int
      BY <2>2 DEF Age
    <3>2. CASE a.fresh > days
      BY <2>2, <3>1, <3>2
    <3>3. CASE ~(a.fresh > days)
      BY <2>3, <3>1, <3>3
    <3> QED
      BY <3>2, <3>3
  <2> HIDE DEF age
  <2>5. /\ DOMAIN older = DOMAIN a /\ older.fresh = age /\ older.status = a.status
        /\ older.conf = a.conf /\ older.platform = a.platform /\ older.row = a.row
    BY <2>2 DEF AttestationOK
  <2> HIDE DEF older
  <2>6. Older(a, older)
    BY <2>2, <2>4, <2>5 DEF Older, AttestationOK
  <2>7. older \notin atts \ {a}
    BY <2>1, <2>5 DEF EarnedInv, AttestedOK
  <2>8. Fusion!Inherited((atts \ {a}) \cup {older}, pol) <= Fusion!Inherited(atts, pol)
    <3> HIDE DEF atts, pol
    <3> QED
      BY <2>1, <2>6, <2>7, InheritedFalls
  <2> QED
    BY <2>8 DEF older, age
<1> QED
  BY <1>1, <1>2 DEF Fusion!TrustIsEarned, EarnedInv

\* Nothing attested yet, or platforms that have been synced before.
FusionStart == Fusion!Init \/ (Fusion!Quiet /\ Reporting)

LEMMA StartEarned ==
  ASSUME Fusion!TrustAssumption, FusionStart
  PROVE  EarnedInv
<1>1. request = [p \in GrcCalls |-> Fusion!Idle] /\ crossed = {} /\ Fusion!Idle.at = "idle"
  BY DEF FusionStart, Fusion!Init, Fusion!Quiet, Fusion!Idle
<1>2. \A p \in GrcCalls : ~Fusion!Busy(p)
  BY <1>1 DEF Fusion!Busy
<1>3. CASE Fusion!Init
  <2>1. steps = 0 /\ attested = {} /\ reported = [f \in Platforms |-> [report |-> <<>>, sync |-> 0]]
    BY <1>3 DEF Fusion!Init
  <2>2. TasksOK /\ AttestedOK
    BY <1>1, <1>2, <2>1, FS_EmptySet DEF TasksOK, AttestedOK
  <2>3. \A f \in Platforms : reported[f].report = <<>> /\ reported[f].report \in Answers
    BY <2>1 DEF Answers
  <2>4. HeldOK
    BY <1>2, <2>1, <2>3 DEF HeldOK, On
  <2>5. \A f \in Platforms : Fusion!Rows(f, reported[f].report, reported[f].sync) = {}
    BY <2>3, RowsAre
  <2>6. Fusion!LaneIsLastSync
    BY <2>1, <2>5 DEF Fusion!LaneIsLastSync
  <2> QED
    BY <2>2, <2>4, <2>6 DEF EarnedInv
<1>4. CASE Reporting
  <2>1. PICK report \in [Platforms -> Answers] :
          /\ reported = [f \in Platforms |-> [report |-> report[f], sync |-> 0]]
          /\ attested = UNION {Fusion!Rows(f, report[f], 0) : f \in Platforms}
    BY <1>4 DEF Reporting, Answers
  <2> DEFINE made(f) == Fusion!Rows(f, report[f], 0)
  <2>2. ASSUME NEW f \in Platforms
        PROVE  /\ IsFiniteSet(made(f)) /\ \A a, b \in made(f) : a.row = b.row => a = b
               /\ \A a \in made(f) : AttestationOK(a) /\ a.platform = f /\ a.row[1] = 0
    BY RowsAre DEF RowOK
  <2>3. IsFiniteSet(attested)
    <3> DEFINE g == [f \in Platforms |-> made(f)]
               lanes == {made(f) : f \in Platforms}
    <3>1. IsFiniteSet(Platforms)
      BY TrustCounts DEF Fusion!TrustAssumption
    <3>2. {g[f] : f \in Platforms} = lanes
      OBVIOUS
    <3>3. \A T \in lanes : IsFiniteSet(T)
      BY <2>2
    <3>4. IsFiniteSet({g[f] : f \in Platforms})
      <4> HIDE DEF g
      <4> QED
        BY <3>1, ImageIsFinite
    <3> HIDE DEF g, lanes
    <3>5. IsFiniteSet(UNION lanes)
      BY <3>2, <3>3, <3>4, FS_UNION
    <3> QED
      BY <2>1, <3>5 DEF lanes
  <2>4. \A a \in attested : \E f \in Platforms : a \in made(f)
    BY <2>1
  <2>5. steps = 1
    BY <1>4 DEF Reporting
  <2>6. AttestedOK
    <3>1. \A a \in attested : AttestationOK(a) /\ a.row[1] \in Nat /\ a.row[1] < steps
      BY <2>2, <2>4, <2>5
    <3>2. ASSUME NEW a \in attested, NEW b \in attested, a.platform = b.platform, a.row = b.row
          PROVE  a = b
      BY <2>2, <2>4, <3>2
    <3> QED
      BY <2>3, <3>1, <3>2 DEF AttestedOK
  <2>7. TasksOK
    BY <1>1, <1>2, <2>5 DEF TasksOK
  <2>8. HeldOK
    BY <1>2, <2>1 DEF HeldOK, On
  <2>9. ASSUME NEW f \in Platforms
        PROVE  {a \in attested : a.platform = f} = Fusion!Rows(f, reported[f].report, reported[f].sync)
    <3>1. Fusion!Rows(f, reported[f].report, reported[f].sync) = made(f)
      BY <2>1
    <3>2. made(f) \subseteq attested
      BY <2>1
    <3>3. \A a \in attested : a.platform = f => a \in made(f)
      BY <2>2, <2>4
    <3>4. \A a \in made(f) : a.platform = f
      BY <2>2
    <3> HIDE DEF made
    <3> QED
      BY <3>1, <3>2, <3>3, <3>4
  <2>10. Fusion!LaneIsLastSync
    BY <2>9 DEF Fusion!LaneIsLastSync
  <2> QED
    BY <2>6, <2>7, <2>8, <2>10 DEF EarnedInv
<1> QED
  BY <1>3, <1>4 DEF FusionStart

LEMMA EarnedKeeps ==
  ASSUME Fusion!TrustAssumption, EarnedInv, [Fusion!Next]_(Fusion!vars)
  PROVE  EarnedInv'
<1>1. steps \in Nat
  BY DEF EarnedInv, TasksOK
<1>2. CASE Fusion!SyncNext
  BY <1>2, FetchKeeps, ClearKeeps, ClearedKeeps, StoreKeeps, AbandonKeeps DEF Fusion!SyncNext
<1>3. CASE Fusion!LaneNext
  <2>1. UNCHANGED <<attested, request, reported, crossed>> /\ (steps' = steps \/ steps' = steps + 1)
    BY <1>3 DEF Fusion!LaneNext, Fusion!Connect, Fusion!Collect, Fusion!Judge, Fusion!Pass, Fusion!Step
  <2> QED
    BY <1>1, <2>1, OthersKeep
<1>4. CASE UNCHANGED Fusion!vars
  <2>1. UNCHANGED <<attested, request, reported, crossed, steps>>
    BY <1>4 DEF Fusion!vars
  <2> QED
    BY <1>1, <2>1, OthersKeep
<1> QED
  BY <1>2, <1>3, <1>4 DEF Fusion!Next

\* However the syncs of a platform overlap, fail or die, with whatever the
\* platforms answer and whatever policy is in force: unless two syncs rewrote
\* it at a time a platform's lane is what its last acknowledged sync brought,
\* a failure it reported leaves the control no inherited trust, and an older
\* attestation gives no more of it.
THEOREM TrustStaysEarned ==
  ASSUME Fusion!TrustAssumption
  PROVE  FusionStart /\ [][Fusion!Next]_(Fusion!vars) => []TrustIsEarned
<1>1. FusionStart => EarnedInv
  BY StartEarned
<1>2. EarnedInv /\ [Fusion!Next]_(Fusion!vars) => EarnedInv'
  BY EarnedKeeps
<1>3. EarnedInv => TrustIsEarned
  BY EarnedIs DEF TrustIsEarned
<1> QED
  BY <1>1, <1>2, <1>3, PTL

-----------------------------------------------------------------------------
(* Trust: age never helps.                                                  *)

LanesOK ==
  /\ day \in Int /\ traffic \in Traffic
  /\ DOMAIN evidence = DOMAIN Connectors
  /\ \A k \in DOMAIN Connectors : evidence[k] # None => evidence[k].at \in Int
  /\ DOMAIN verdicts = Measures
  /\ \A c \in Measures : verdicts[c] # None => verdicts[c].at \in Int

\* Time has passed and nothing new is learnt.
Aging ==
  /\ day' \in Int /\ day <= day'
  /\ UNCHANGED <<attested, connected, evidence, verdicts, traffic>>

LEMMA Differences ==
  ASSUME NEW a \in Int, NEW b \in Int, a <= b, NEW c \in Int
  PROVE  a - c \in Int /\ b - c \in Int /\ a - c <= b - c
OBVIOUS

\* A figure falls, but not to nothing.
Wanes(new, old) == PerMille(new) /\ PerMille(old) /\ new <= old /\ (old > 0 => new > 0)

LEMMA WanesIs ==
  ASSUME NEW new, NEW old, Wanes(new, old)
  PROVE  /\ new \in Int /\ old \in Int /\ 0 <= new /\ new <= old /\ old <= 1000
         /\ old > 0 => new > 0
BY DEF Wanes, PerMille

LEMMA StrengthWanes ==
  ASSUME LanesOK, Aging, NEW k \in DOMAIN Connectors
  PROVE  Wanes(Fusion!Strength(k)', Fusion!Strength(k))
<1>1. (Fusion!Live(k)' <=> Fusion!Live(k)) /\ evidence' = evidence
  BY DEF Aging, Fusion!Live
<1>2. Fusion!Fresh(k)' => Fusion!Fresh(k)
  <2> SUFFICES ASSUME Fusion!Fresh(k)' PROVE Fusion!Fresh(k)
    OBVIOUS
  <2>1. evidence[k] # None /\ day' - evidence[k].at < 30
    BY <1>1 DEF Fusion!Fresh
  <2> DEFINE at == evidence[k].at
  <2>2. at \in Int /\ day \in Int /\ day' \in Int /\ day <= day'
    BY <2>1 DEF LanesOK, Aging
  <2>3. day' - at < 30
    BY <2>1
  <2> HIDE DEF at
  <2>4. day - at < 30
    <3>1. day - at \in Int /\ day' - at \in Int /\ day - at <= day' - at
      BY <2>2, Differences
    <3> QED
      BY <2>3, <3>1
  <2> QED
    BY <2>1, <2>4 DEF Fusion!Fresh, at
<1>3. CASE Fusion!Live(k)
  <2>1. Fusion!Strength(k) = (IF Fusion!Fresh(k) THEN 1000 ELSE 600)
    BY <1>3 DEF Fusion!Strength
  <2>2. Fusion!Strength(k)' = (IF Fusion!Fresh(k)' THEN 1000 ELSE 600)
    BY <1>1, <1>3 DEF Fusion!Strength
  <2> QED
    BY <1>2, <2>1, <2>2 DEF Wanes, PerMille
<1>4. CASE ~Fusion!Live(k)
  <2>1. Fusion!Strength(k) = (IF evidence[k] # None THEN 300 ELSE 0)
    BY <1>4 DEF Fusion!Strength
  <2>2. Fusion!Strength(k)' = (IF evidence[k] # None THEN 300 ELSE 0)
    BY <1>1, <1>4 DEF Fusion!Strength
  <2> QED
    BY <2>1, <2>2 DEF Wanes, PerMille
<1> QED
  BY <1>3, <1>4

\* The best of figures that all wane wanes.
Figures(S, f) == {0} \cup {f[k] : k \in S}

Best(S, f) == Fusion!Max(Figures(S, f))

Bounded(S, f) == \A k \in S : PerMille(f[k])

Waning(S, g, f) == \A k \in S : Wanes(g[k], f[k])

LEMMA BestIs ==
  ASSUME NEW S, NEW f, Bounded(S, f)
  PROVE  /\ PerMille(Best(S, f))
         /\ \A k \in S : f[k] <= Best(S, f)
         /\ Best(S, f) = 0 \/ \E k \in S : Best(S, f) = f[k]
<1> DEFINE T == Figures(S, f)
           m == Fusion!Max(T)
           most == 1000
<1>1. \A y \in T : y \in 0..most
  BY DEF Figures, Bounded, PerMille
<1>2. \A k \in S : f[k] \in T
  BY DEF Figures
<1>3. \A y \in T : y = 0 \/ \E k \in S : y = f[k]
  BY DEF Figures
<1>4. T # {} /\ most \in Nat
  BY DEF Figures
<1> HIDE DEF T
<1>5. T \subseteq 0..most
  BY <1>1, Zenon
<1> HIDE DEF most
<1>6. m \in T /\ \A y \in T : m >= y
  BY <1>4, <1>5, GreatestIs, Zenon
<1> HIDE DEF m
<1>7. m \in 0..1000 /\ \A y \in T : y \in 0..1000 /\ m >= y
  BY <1>1, <1>6 DEF most
<1>8. \A k \in S : f[k] <= m
  BY <1>2, <1>7
<1>9. PerMille(m) /\ (m = 0 \/ \E k \in S : m = f[k])
  BY <1>3, <1>6, <1>7 DEF PerMille
<1> QED
  BY <1>8, <1>9 DEF T, m, Best

LEMMA BestWanes ==
  ASSUME NEW S, NEW f, NEW g, Waning(S, g, f)
  PROVE  Wanes(Best(S, g), Best(S, f))
<1> DEFINE u == Best(S, f)
           v == Best(S, g)
<1>1. Bounded(S, f) /\ Bounded(S, g)
  BY DEF Waning, Wanes, Bounded
<1>2. PerMille(u) /\ (\A k \in S : f[k] <= u) /\ (u = 0 \/ \E k \in S : u = f[k])
  BY <1>1, BestIs
<1>3. PerMille(v) /\ (\A k \in S : g[k] <= v) /\ (v = 0 \/ \E k \in S : v = g[k])
  BY <1>1, BestIs
<1> HIDE DEF u, v
<1>4. u \in Int /\ v \in Int /\ 0 <= u /\ 0 <= v
  BY <1>2, <1>3 DEF PerMille
<1>5. v <= u
  <2>1. CASE v = 0
    BY <1>4, <2>1
  <2>2. CASE \E k \in S : v = g[k]
    <3>1. PICK k \in S : v = g[k]
      BY <2>2
    <3> DEFINE x == f[k]
               y == g[k]
    <3>2. x <= u /\ Wanes(y, x) /\ v = y
      BY <1>2, <3>1 DEF Waning
    <3> HIDE DEF x, y
    <3>3. x \in Int /\ y \in Int /\ y <= x
      BY <3>2, WanesIs
    <3> QED
      BY <1>4, <3>2, <3>3
  <2> QED
    BY <1>3, <2>1, <2>2
<1>6. u > 0 => v > 0
  <2> SUFFICES ASSUME u > 0 PROVE v > 0
    OBVIOUS
  <2>1. PICK k \in S : u = f[k]
    BY <1>2
  <2> DEFINE x == f[k]
             y == g[k]
  <2>2. y <= v /\ Wanes(y, x) /\ u = x
    BY <1>3, <2>1 DEF Waning
  <2> HIDE DEF x, y
  <2>3. y \in Int /\ y > 0
    BY <2>2, WanesIs
  <2> QED
    BY <1>4, <2>2, <2>3
<1>7. Wanes(v, u)
  BY <1>2, <1>3, <1>5, <1>6 DEF Wanes
<1> QED
  BY <1>7 DEF u, v

LEMMA NativeWanes ==
  ASSUME LanesOK, Aging, NEW control
  PROVE  Wanes(Fusion!Native(control)', Fusion!Native(control))
<1> DEFINE backing == {k \in DOMAIN Connectors : control \in Connectors[k]}
           f == [k \in backing |-> Fusion!Strength(k)]
           g == [k \in backing |-> Fusion!Strength(k)']
<1>1. Waning(backing, g, f)
  BY StrengthWanes DEF Waning
<1>2. /\ {Fusion!Strength(k) : k \in backing} = {f[k] : k \in backing}
      /\ {Fusion!Strength(k)' : k \in backing} = {g[k] : k \in backing}
  OBVIOUS
<1>3. Fusion!Native(control) = Best(backing, f) /\ Fusion!Native(control)' = Best(backing, g)
  BY <1>2 DEF Fusion!Native, Fusion!Backing, Best, Figures
<1> HIDE DEF f, g, backing
<1>4. Wanes(Best(backing, g), Best(backing, f))
  BY <1>1, BestWanes
<1> QED
  BY <1>3, <1>4

LEMMA AgedFalls ==
  ASSUME NEW x \in Int, NEW y \in Int, x <= y
  PROVE  Fusion!Aged(x) \in Nat /\ Fusion!Aged(y) \in Nat /\ Fusion!Aged(y) <= Fusion!Aged(x)
<1> DEFINE p == (700 * x) \div 30
           q == (700 * y) \div 30
<1>1. p \in Int /\ q \in Int /\ p <= q
  BY Quotients
<1>2. /\ x > 1 /\ x < 30 => p >= 0 /\ p <= 700
      /\ y > 1 /\ y < 30 => q >= 0 /\ q <= 700
  OBVIOUS
<1>3. /\ x <= 1 => Fusion!Aged(x) = 1000
      /\ x >= 30 => Fusion!Aged(x) = 300
      /\ x > 1 /\ x < 30 => Fusion!Aged(x) = 1000 - p
  BY DEF Fusion!Aged
<1>4. /\ y <= 1 => Fusion!Aged(y) = 1000
      /\ y >= 30 => Fusion!Aged(y) = 300
      /\ y > 1 /\ y < 30 => Fusion!Aged(y) = 1000 - q
  BY DEF Fusion!Aged
<1> HIDE DEF p, q
<1> QED
  BY <1>1, <1>2, <1>3, <1>4

LEMMA VerdictFalls ==
  ASSUME LanesOK, Aging, NEW control \in Measures, verdicts[control] # None
  PROVE  /\ Fusion!Verdict(control)' \in Nat /\ Fusion!Verdict(control) \in Nat
         /\ Fusion!Verdict(control)' <= Fusion!Verdict(control)
<1> DEFINE at == verdicts[control].at
           x == day - at
           y == day' - at
<1>1. x \in Int /\ y \in Int /\ x <= y
  <2>1. at \in Int /\ day \in Int /\ day' \in Int /\ day <= day'
    BY DEF LanesOK, Aging
  <2> HIDE DEF at
  <2> QED
    BY <2>1, Differences
<1>2. verdicts' = verdicts
  BY DEF Aging
<1>3. CASE verdicts[control].pass
  <2>1. Fusion!Verdict(control) = Fusion!Aged(x)
    BY <1>3 DEF Fusion!Verdict
  <2>2. Fusion!Verdict(control)' = Fusion!Aged(y)
    BY <1>2, <1>3 DEF Fusion!Verdict
  <2> HIDE DEF x, y
  <2> QED
    BY <1>1, <2>1, <2>2, AgedFalls
<1>4. CASE ~verdicts[control].pass
  BY <1>2, <1>4 DEF Fusion!Verdict
<1> QED
  BY <1>3, <1>4

\* What enforcement saw is a figure that time does not touch.
LEMMA EnforcementType ==
  ASSUME Fusion!TrustAssumption, LanesOK, NEW control, NEW pol, Fusion!Seen(control) # {}
  PROVE  Fusion!Score("enforcement", control, pol) \in Nat
<1> DEFINE S == Fusion!Seen(control)
           T == {Fusion!Enforced(t) : t \in S}
<1>1. ASSUME NEW t \in S PROVE Fusion!Enforced(t) \in 0..1000
  <2> DEFINE b == t.blocked
             r == t.requests
  <2>1. t \in Fusion!Hosts /\ r >= 5
    BY DEF Fusion!Seen, LanesOK, Fusion!TrustAssumption
  <2>2. b \in Nat /\ r \in Nat
    BY <2>1 DEF Fusion!Hosts
  <2>3. Fusion!Enforced(t) = IF t.mode = "enforce" THEN 1000 ELSE Fusion!Max({100, 700 - (2100 * b) \div r})
    BY DEF Fusion!Enforced
  <2> HIDE DEF b, r
  <2> DEFINE q == (2100 * b) \div r
  <2>4. q \in Nat
    BY <2>1, <2>2, ProductType, QuotientType
  <2> HIDE DEF q
  <2> DEFINE P == {100, 700 - q}
             m == Fusion!Max(P)
  <2>5. m \in 0..1000
    <3>1. \E x \in P : \A y \in P : x >= y
      <4>1. CASE 100 >= 700 - q
        BY <2>4, <4>1
      <4>2. CASE 700 - q >= 100
        BY <2>4, <4>2
      <4> QED
        BY <2>4, <4>1, <4>2
    <3>2. m \in P /\ \A y \in P : m >= y
      <4> HIDE DEF P
      <4> QED
        BY <3>1 DEF Fusion!Max
    <3> HIDE DEF m
    <3> QED
      BY <2>4, <3>2
  <2> HIDE DEF m
  <2>6. Fusion!Enforced(t) = IF t.mode = "enforce" THEN 1000 ELSE m
    BY <2>3 DEF m, P, q
  <2> QED
    BY <2>5, <2>6
<1>2. T \subseteq 0..1000 /\ T # {}
  BY <1>1
<1>3. Fusion!Max(T) \in T
  <2> HIDE DEF T
  <2> DEFINE most == 1000
  <2>1. most \in Nat
    OBVIOUS
  <2>2. T \subseteq 0..most /\ T # {}
    BY <1>2
  <2> HIDE DEF most
  <2> QED
    BY <2>1, <2>2, GreatestIs
<1> DEFINE m == Fusion!Max(T)
<1>4. m \in Nat
  <2>1. m \in 0..1000
    <3> DEFINE range == 0..1000
    <3> HIDE DEF T, m, range
    <3>1. m \in range
      BY <1>2, <1>3 DEF m, range
    <3> QED
      BY <3>1 DEF range
  <2> HIDE DEF m
  <2> QED
    BY <2>1
<1> QED
  BY <1>4 DEF Fusion!Score

\* The lanes a control has stay, and none of them scores more.
LEMMA ScoresFall ==
  ASSUME Fusion!TrustAssumption, LanesOK, AttestedOK, Aging,
         NEW control \in Measures, NEW policy \in Policies, NEW l \in Fusion!Present(control)
  PROVE  LET pol == Fusion!Validated(policy)
         IN  /\ Fusion!Score(l, control, pol) \in Nat /\ Fusion!Score(l, control, pol)' \in Nat
             /\ Fusion!Score(l, control, pol)' <= Fusion!Score(l, control, pol)
<1> DEFINE pol == Fusion!Validated(policy)
<1>1. attested' = attested /\ verdicts' = verdicts /\ traffic' = traffic
  BY DEF Aging
<1>2. CASE l = "native"
  <2>1. /\ Fusion!Score(l, control, pol) = Fusion!Native(control)
        /\ Fusion!Score(l, control, pol)' = Fusion!Native(control)'
    BY <1>2 DEF Fusion!Score
  <2> DEFINE x == Fusion!Native(control)
             y == Fusion!Native(control)'
  <2>2. Wanes(y, x)
    BY NativeWanes
  <2> HIDE DEF x, y
  <2>3. x \in Nat /\ y \in Nat /\ y <= x
    BY <2>2, WanesIs
  <2> QED
    BY <2>1, <2>3 DEF x, y
<1>3. CASE l = "inherited"
  <2> DEFINE atts == Fusion!Attests(control)
             x == Fusion!Inherited(atts, pol)
  <2>1. atts # {} /\ Tested(atts, pol)
    BY <1>3, AttestsTested DEF Fusion!Present
  <2>2. x \in Nat
    <3> HIDE DEF atts, pol
    <3> QED
      BY <2>1, InheritedType
  <2>3. /\ Fusion!Score(l, control, pol) = ((x + 5) \div 10) * 10
        /\ Fusion!Score(l, control, pol)' = ((x + 5) \div 10) * 10
    <3>1. Fusion!Attests(control)' = atts
      BY <1>1 DEF Fusion!Attests
    <3>2. /\ Fusion!Score(l, control, pol) = ((Fusion!Inherited(atts, pol) + 5) \div 10) * 10
          /\ Fusion!Score(l, control, pol)' = ((Fusion!Inherited(Fusion!Attests(control)', pol) + 5) \div 10) * 10
      <4> HIDE DEF pol
      <4> QED
        BY <1>3 DEF Fusion!Score
    <3> HIDE DEF atts, pol
    <3> QED
      BY <3>1, <3>2
  <2> HIDE DEF x
  <2>4. ((x + 5) \div 10) * 10 \in Nat
    BY <2>2
  <2> QED
    BY <2>3, <2>4
<1>4. CASE l = "policy"
  <2>1. verdicts[control] # None
    BY <1>4 DEF Fusion!Present
  <2>2. /\ Fusion!Score(l, control, pol) = Fusion!Verdict(control)
        /\ Fusion!Score(l, control, pol)' = Fusion!Verdict(control)'
    BY <1>4 DEF Fusion!Score
  <2> QED
    BY <2>1, <2>2, VerdictFalls
<1>5. CASE l = "enforcement"
  <2>1. Fusion!Seen(control) # {}
    BY <1>5 DEF Fusion!Present
  <2>2. Fusion!Score("enforcement", control, pol) \in Nat
    BY <2>1, EnforcementType
  <2>3. Fusion!Score(l, control, pol)' = Fusion!Score(l, control, pol)
    BY <1>1, <1>5 DEF Fusion!Score, Fusion!Seen
  <2> DEFINE x == Fusion!Score(l, control, pol)
             y == Fusion!Score(l, control, pol)'
  <2>4. x \in Nat /\ y = x
    BY <1>5, <2>2, <2>3
  <2> HIDE DEF x, y
  <2>5. x \in Nat /\ y \in Nat /\ y <= x
    BY <2>4
  <2> QED
    BY <2>5 DEF x, y
<1> QED
  BY <1>2, <1>3, <1>4, <1>5 DEF Fusion!Present, Fusion!Lanes

LEMMA PresentStays ==
  ASSUME LanesOK, Aging, NEW control \in Measures
  PROVE  Fusion!Present(control)' = Fusion!Present(control) /\ IsFiniteSet(Fusion!Present(control))
<1>1. Fusion!Native(control)' > 0 <=> Fusion!Native(control) > 0
  <2> DEFINE x == Fusion!Native(control)
             y == Fusion!Native(control)'
  <2>1. Wanes(y, x)
    BY NativeWanes
  <2> HIDE DEF x, y
  <2>2. y > 0 <=> x > 0
    BY <2>1, WanesIs
  <2> QED
    BY <2>2 DEF x, y
<1>2. Fusion!Present(control)' = Fusion!Present(control)
  BY <1>1 DEF Aging, Fusion!Present, Fusion!Attests, Fusion!Seen
<1>3. IsFiniteSet(Fusion!Lanes)
  <2>1. Fusion!Lanes = ({"native"} \cup {"inherited"}) \cup ({"policy"} \cup {"enforcement"})
    BY DEF Fusion!Lanes
  <2>2. IsFiniteSet({"native"} \cup {"inherited"}) /\ IsFiniteSet({"policy"} \cup {"enforcement"})
    BY FS_Singleton, FS_Union
  <2> QED
    BY <2>1, <2>2, FS_Union
<1>4. IsFiniteSet(Fusion!Present(control))
  <2>1. Fusion!Present(control) \in SUBSET Fusion!Lanes
    BY DEF Fusion!Present
  <2> QED
    BY <1>3, <2>1, FS_Subset
<1> QED
  BY <1>2, <1>4

\* The mean of what is present.
Mean(sum, weight) == IF weight = 0 THEN 0 ELSE (sum + 5 * weight) \div (10 * weight)

LEMMA MeanGrows ==
  ASSUME NEW r \in Nat, NEW s \in Nat, r <= s, NEW w \in Nat
  PROVE  Mean(r, w) <= Mean(s, w)
<1>1. CASE w = 0
  BY <1>1 DEF Mean
<1>2. CASE w # 0
  <2>1. 10 * w \in Nat \ {0} /\ r + 5 * w \in Int /\ s + 5 * w \in Int /\ r + 5 * w <= s + 5 * w
    BY <1>2
  <2> QED
    BY <1>2, <2>1, Quotients DEF Mean
<1> QED
  BY <1>1, <1>2

LEMMA CompositeFalls ==
  ASSUME Fusion!TrustAssumption, LanesOK, AttestedOK, Aging,
         NEW control \in Measures, NEW policy \in Policies
  PROVE  Fusion!Composite(control, policy)' <= Fusion!Composite(control, policy)
<1> DEFINE pol == Fusion!Validated(policy)
           S == Fusion!Present(control)
           f == [l \in S |-> pol.lanes[l] * Fusion!Score(l, control, pol)]
           g == [l \in S |-> pol.lanes[l] * Fusion!Score(l, control, pol)']
           weight == SumFunctionOnSet(pol.lanes, S)
<1>1. Fusion!Present(control)' = S /\ IsFiniteSet(S)
  BY PresentStays
<1>2. PolicyOK(pol)
  BY ValidatedIs
<1>3. \A l \in S : pol.lanes[l] \in Nat
  BY <1>2 DEF PolicyOK, Fusion!Present
<1>4. ASSUME NEW l \in S
      PROVE  f[l] \in Nat /\ g[l] \in Nat /\ g[l] <= f[l]
  <2> DEFINE w == pol.lanes[l]
             x == Fusion!Score(l, control, pol)
             y == Fusion!Score(l, control, pol)'
  <2>1. x \in Nat /\ y \in Nat /\ y <= x
    BY ScoresFall
  <2>2. w \in Nat
    BY <1>3
  <2>3. f[l] = w * x /\ g[l] = w * y
    OBVIOUS
  <2> HIDE DEF w, x, y, f, g
  <2>4. y * w <= x * w /\ w * x = x * w /\ w * y = y * w /\ w * x \in Nat /\ w * y \in Nat
    BY <2>1, <2>2, Products, ProductType
  <2> QED
    BY <2>3, <2>4
<1>5. Fusion!Composite(control, policy) = Mean(SumFunctionOnSet(f, S), weight)
  <2>1. Fusion!SumFunctionOnSet(pol.lanes, S) = weight /\ Fusion!SumFunctionOnSet(f, S) = SumFunctionOnSet(f, S)
    BY TrustSums
  <2> QED
    BY <2>1 DEF Fusion!Composite, Mean
<1>6. Fusion!Composite(control, policy)' = Mean(SumFunctionOnSet(g, S), weight)
  <2>1. Fusion!SumFunctionOnSet(pol.lanes, S) = weight /\ Fusion!SumFunctionOnSet(g, S) = SumFunctionOnSet(g, S)
    BY TrustSums
  <2> QED
    BY <1>1, <2>1 DEF Fusion!Composite, Mean
<1> HIDE DEF S, f, g, pol
<1>7. weight \in Nat
  BY <1>1, <1>3, SumType
<1>8. /\ SumFunctionOnSet(f, S) \in Nat /\ SumFunctionOnSet(g, S) \in Nat
      /\ SumFunctionOnSet(g, S) <= SumFunctionOnSet(f, S)
  BY <1>1, <1>4, SumType, SumMonotonic
<1> HIDE DEF weight
<1>9. Mean(SumFunctionOnSet(g, S), weight) <= Mean(SumFunctionOnSet(f, S), weight)
  BY <1>7, <1>8, MeanGrows
<1> QED
  BY <1>5, <1>6, <1>9

LEMMA ResidualRises ==
  ASSUME LanesOK, Aging, NEW control, NEW inherent \in Nat
  PROVE  Fusion!Residual(inherent, control)' >= Fusion!Residual(inherent, control)
<1> DEFINE x == Fusion!Native(control)
           y == Fusion!Native(control)'
           left(n) == (inherent * (10000 - 6 * n) + 5000) \div 10000
<1>1. /\ Fusion!Residual(inherent, control) = (IF left(x) < 1 THEN 1 ELSE left(x))
      /\ Fusion!Residual(inherent, control)' = (IF left(y) < 1 THEN 1 ELSE left(y))
  BY DEF Fusion!Residual
<1>2. Wanes(y, x)
  BY NativeWanes
<1> HIDE DEF x, y
<1>3. x \in Int /\ y \in Int /\ y <= x
  BY <1>2, WanesIs
<1> DEFINE p == 10000 - 6 * x
           q == 10000 - 6 * y
<1>4. p \in Int /\ q \in Int /\ p <= q
  BY <1>3
<1> HIDE DEF p, q
<1>5. /\ p * inherent <= q * inherent /\ inherent * p = p * inherent /\ inherent * q = q * inherent
      /\ p * inherent \in Int /\ q * inherent \in Int
  BY <1>4, Products
<1>6. inherent * p + 5000 \in Int /\ inherent * q + 5000 \in Int /\ inherent * p + 5000 <= inherent * q + 5000
  BY <1>5
<1>7. left(x) = (inherent * p + 5000) \div 10000 /\ left(y) = (inherent * q + 5000) \div 10000
  BY DEF p, q
<1> DEFINE u == left(x)
           v == left(y)
<1>8. u \in Int /\ v \in Int /\ u <= v
  <2>1. 10000 \in Nat \ {0}
    OBVIOUS
  <2> HIDE DEF left
  <2> QED
    BY <1>6, <1>7, <2>1, Quotients
<1> HIDE DEF u, v
<1>9. (IF v < 1 THEN 1 ELSE v) >= (IF u < 1 THEN 1 ELSE u)
  BY <1>8
<1> QED
  BY <1>1, <1>9 DEF u, v

LEMMA LanesKeep ==
  ASSUME Fusion!TrustAssumption, LanesOK, [Fusion!Next]_(Fusion!vars)
  PROVE  LanesOK'
<1>1. CASE UNCHANGED <<evidence, verdicts, traffic>> /\ (day' = day \/ \E n \in Days : day' = day + n)
  <2>1. day' \in Int
    BY <1>1 DEF LanesOK, Fusion!TrustAssumption
  <2> QED
    BY <1>1, <2>1 DEF LanesOK
<1>2. ASSUME NEW k \in DOMAIN Connectors, NEW alive \in BOOLEAN, Fusion!Collect(k, alive)
      PROVE  LanesOK'
  <2>1. /\ evidence' = [evidence EXCEPT ![k] = [live |-> alive, at |-> day]]
        /\ UNCHANGED <<verdicts, traffic, day>>
    BY <1>2 DEF Fusion!Collect
  <2>2. DOMAIN evidence' = DOMAIN Connectors
    BY <2>1 DEF LanesOK
  <2>3. ASSUME NEW j \in DOMAIN Connectors, evidence'[j] # None PROVE evidence'[j].at \in Int
    <3>1. CASE j = k
      BY <2>1, <3>1 DEF LanesOK
    <3>2. CASE j # k
      BY <2>1, <2>3, <3>2 DEF LanesOK
    <3> QED
      BY <3>1, <3>2
  <2> QED
    BY <2>1, <2>2, <2>3 DEF LanesOK
<1>3. ASSUME NEW c \in Measures, NEW pass \in BOOLEAN, Fusion!Judge(c, pass)
      PROVE  LanesOK'
  <2>1. /\ verdicts' = [verdicts EXCEPT ![c] = [pass |-> pass, at |-> day]]
        /\ UNCHANGED <<evidence, traffic, day>>
    BY <1>3 DEF Fusion!Judge
  <2>2. DOMAIN verdicts' = Measures
    BY <2>1 DEF LanesOK
  <2>3. ASSUME NEW j \in Measures, verdicts'[j] # None PROVE verdicts'[j].at \in Int
    <3>1. CASE j = c
      BY <2>1, <3>1 DEF LanesOK
    <3>2. CASE j # c
      BY <2>1, <2>3, <3>2 DEF LanesOK
    <3> QED
      BY <3>1, <3>2
  <2> QED
    BY <2>1, <2>2, <2>3 DEF LanesOK
<1>4. CASE Fusion!SyncNext
  <2>1. UNCHANGED <<evidence, verdicts, traffic, day>>
    BY <1>4 DEF Fusion!SyncNext, Fusion!Fetch, Fusion!Clear, Fusion!Cleared, Fusion!Store, Fusion!Abandon
  <2> QED
    BY <1>1, <2>1
<1>5. CASE \E k \in DOMAIN Connectors : Fusion!Connect(k)
  <2>1. UNCHANGED <<evidence, verdicts, traffic, day>>
    BY <1>5 DEF Fusion!Connect
  <2> QED
    BY <1>1, <2>1
<1>6. CASE \E n \in Days : Fusion!Pass(n)
  BY <1>1, <1>6 DEF Fusion!Pass
<1>7. CASE UNCHANGED Fusion!vars
  BY <1>1, <1>7 DEF Fusion!vars
<1> QED
  BY <1>2, <1>3, <1>4, <1>5, <1>6, <1>7 DEF Fusion!Next, Fusion!LaneNext

LEMMA StartLanes ==
  ASSUME FusionStart
  PROVE  LanesOK
<1>1. Fusion!Quiet
  BY DEF FusionStart, Fusion!Init
<1> QED
  BY <1>1 DEF Fusion!Quiet, LanesOK

LEMMA OnlyTimePasses ==
  ASSUME Fusion!TrustAssumption, LanesOK, Fusion!Next, day' # day,
         UNCHANGED <<attested, connected, evidence, verdicts, traffic>>
  PROVE  Aging
<1>1. \E n \in Days : day' = day + n
  BY DEF Fusion!Next, Fusion!SyncNext, Fusion!LaneNext, Fusion!Fetch, Fusion!Clear, Fusion!Cleared,
         Fusion!Store, Fusion!Abandon, Fusion!Connect, Fusion!Collect, Fusion!Judge, Fusion!Pass
<1>2. Days \subseteq Nat \ {0} /\ day \in Int
  BY DEF Fusion!TrustAssumption, LanesOK
<1>3. day' \in Int /\ day <= day'
  BY <1>1, <1>2
<1> QED
  BY <1>3 DEF Aging

\* However long it takes, while nothing is learnt the composite of the lanes
\* never rises under any policy and the residual of a risk never falls: live
\* evidence, verdicts and attestations weigh less as they age, and no lane
\* drops out of the mean because it has.
THEOREM TimeNeverHelps ==
  ASSUME Fusion!TrustAssumption
  PROVE  FusionStart /\ [][Fusion!Next]_(Fusion!vars) => AgeNeverHelps
<1> DEFINE Falls ==
             day' # day /\ UNCHANGED <<attested, connected, evidence, verdicts, traffic>> =>
               \A c \in Measures :
                 /\ \A policy \in Policies :
                      Fusion!Composite(c, policy)' <= Fusion!Composite(c, policy)
                 /\ \A inherent \in {1, 12, 25} :
                      Fusion!Residual(inherent, c)' >= Fusion!Residual(inherent, c)
           TimeInv == LanesOK /\ EarnedInv
<1>1. FusionStart => TimeInv
  BY StartLanes, StartEarned
<1>2. TimeInv /\ [Fusion!Next]_(Fusion!vars) => TimeInv'
  BY LanesKeep, EarnedKeeps
<1>3. TimeInv /\ [Fusion!Next]_(Fusion!vars) => [Falls]_(Fusion!vars)
  <2> SUFFICES ASSUME TimeInv, Fusion!Next, day' # day,
                      UNCHANGED <<attested, connected, evidence, verdicts, traffic>>,
                      NEW c \in Measures
               PROVE  /\ \A policy \in Policies :
                           Fusion!Composite(c, policy)' <= Fusion!Composite(c, policy)
                      /\ \A inherent \in {1, 12, 25} :
                           Fusion!Residual(inherent, c)' >= Fusion!Residual(inherent, c)
    OBVIOUS
  <2>1. Aging
    BY OnlyTimePasses
  <2>2. AttestedOK
    BY DEF EarnedInv
  <2>3. \A policy \in Policies : Fusion!Composite(c, policy)' <= Fusion!Composite(c, policy)
    BY <2>1, <2>2, CompositeFalls
  <2>4. \A inherent \in {1, 12, 25} : Fusion!Residual(inherent, c)' >= Fusion!Residual(inherent, c)
    <3>1. \A inherent \in Nat : Fusion!Residual(inherent, c)' >= Fusion!Residual(inherent, c)
      BY <2>1, ResidualRises
    <3> QED
      BY <3>1
  <2> QED
    BY <2>3, <2>4
<1>4. (FusionStart /\ [][Fusion!Next]_(Fusion!vars)) => [][Falls]_(Fusion!vars)
  <2> HIDE DEF TimeInv, Falls
  <2> QED
    BY <1>1, <1>2, <1>3, PTL
<1> QED
  BY <1>4 DEF AgeNeverHelps, Fusion!AgeNeverHelps
=============================================================================

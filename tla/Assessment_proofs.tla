-------------------------- MODULE Assessment_proofs --------------------------
(***************************************************************************)
(* Proofs about Assessment, for every set of workers, cells and requests:  *)
(*   - no row ever promises an artifact that is not in the evidence store, *)
(*     and the write path implements EvidenceLedger;                       *)
(*   - an explicit idempotency key names one finding for ever (KeyInv);    *)
(*   - an implicit key answers with fresh findings only (IdInv);           *)
(*   - while transactions follow one another, posture, findings and        *)
(*     history agree, and a batch leaves no cell out (AloneInv).           *)
(* The last three rest on Shape, the types and what a transaction knows at *)
(* each point of its program.                                              *)
(***************************************************************************)
EXTENDS Assessment, TLAPS

\* Every promise, committed, uncommitted or about to be made, is backed.
LedgerInv ==
  /\ artifact \in [Workers -> SUBSET stored]
  /\ promised \in [Workers -> SUBSET stored]
  /\ evidence \subseteq stored

\* A step that stores nothing and commits nothing can only drop promises, or
\* promise the artifact the worker holds.
LEMMA Harmless ==
  ASSUME LedgerInv, NEW w \in Workers, UNCHANGED <<stored, evidence>>,
         \/ UNCHANGED <<artifact, promised>>
         \/ Answer(w, {}) \/ Rollback(w) \/ Written(w)
         \/ artifact' = [artifact EXCEPT ![w] = {}] /\ UNCHANGED promised
  PROVE  LedgerInv'
  BY DEF LedgerInv, Answer, Rollback, Written

\* An item that raises changes no promise but its own transaction's.
LEMMA RaisedHarmless ==
  ASSUME LedgerInv, NEW w \in Workers, UNCHANGED <<stored, evidence>>,
         Raised(w)
  PROVE  LedgerInv'
<1>1. \/ artifact' = [artifact EXCEPT ![w] = {}] /\ UNCHANGED promised
      \/ Rollback(w)
  BY DEF Raised, Answer
<1> QED
  BY <1>1, Harmless

\* The initial rows have their artifacts.
LEMMA LedgerInit == Init => LedgerInv
  BY DEF Init, LedgerInv

\* Storing comes first and committing last in every interleaving.
LEMMA LedgerStep == LedgerInv /\ [Next]_vars => LedgerInv'
<1> SUFFICES ASSUME LedgerInv, [Next]_vars PROVE LedgerInv'
  OBVIOUS
<1>1. ASSUME NEW w \in Workers, Begin(w) PROVE LedgerInv'
  BY <1>1, Harmless DEF Begin, db
<1>2. ASSUME NEW w \in Workers, Lookup(w) PROVE LedgerInv'
  <2>1. \/ UNCHANGED <<artifact, promised>>
        \/ artifact' = [artifact EXCEPT ![w] = {}] /\ UNCHANGED promised
    BY <1>2 DEF Lookup, Answer
  <2> QED
    BY <1>2, <2>1, Harmless DEF Lookup, db
<1>3. ASSUME NEW w \in Workers, Collect(w) PROVE LedgerInv'
  BY <1>3, Harmless, RaisedHarmless DEF Collect, db
<1>4. ASSUME NEW w \in Workers, StoreArtifact(w) PROVE LedgerInv'
  <2>0. UNCHANGED evidence
    BY <1>4 DEF StoreArtifact, db
  <2>1. CASE UNCHANGED stored /\ Raised(w)
    BY <2>0, <2>1, RaisedHarmless
  <2>2. CASE UNCHANGED stored /\ artifact' = [artifact EXCEPT ![w] = {}] /\ UNCHANGED promised
    BY <2>0, <2>2, Harmless
  <2>3. CASE \E new : /\ stored' = stored \cup new
                      /\ artifact' = [artifact EXCEPT ![w] = new]
                      /\ UNCHANGED promised
    BY <2>0, <2>3 DEF LedgerInv
  <2> QED
    BY <1>4, <2>1, <2>2, <2>3 DEF StoreArtifact, Answer
<1>5. ASSUME NEW w \in Workers, ReadPosture(w) \/ CloseHistory(w) PROVE LedgerInv'
  BY <1>5, Harmless DEF ReadPosture, CloseHistory, db
<1>6. ASSUME NEW w \in Workers, Write(w) PROVE LedgerInv'
  <2>1. UNCHANGED <<stored, evidence>>
    BY <1>6 DEF Write, db
  <2>2. CASE Written(w)
    BY <2>1, <2>2, Harmless
  <2>3. CASE artifact' = [artifact EXCEPT ![w] = {}] /\ UNCHANGED promised
    BY <2>1, <2>3, Harmless
  <2>4. CASE Raised(w)
    BY <2>1, <2>4, RaisedHarmless
  <2> QED
    BY <1>6, <2>2, <2>3, <2>4 DEF Write, Answer
<1>7. ASSUME NEW w \in Workers, Deadlock(w) PROVE LedgerInv'
  BY <1>7, RaisedHarmless DEF Deadlock, db
<1>8. ASSUME NEW w \in Workers, Commit(w) PROVE LedgerInv'
  <2>1. /\ evidence' = evidence \cup promised[w]
        /\ promised' = [promised EXCEPT ![w] = {}]
        /\ UNCHANGED <<stored, artifact>>
    BY <1>8 DEF Commit
  <2> QED
    BY <2>1 DEF LedgerInv
<1>9. ASSUME NEW w \in Workers, Respond(w) \/ Abort(w) PROVE LedgerInv'
  BY <1>9, Harmless DEF Respond, Abort, db
<1>10. ASSUME Age \/ UNCHANGED vars PROVE LedgerInv'
  BY <1>10 DEF Age, vars, local, db, LedgerInv
<1> QED
  BY <1>1, <1>2, <1>3, <1>4, <1>5, <1>6, <1>7, <1>8, <1>9, <1>10
  DEF Next, Step, Quiet

\* No committed EvidenceMeta row lacks its artifact, whatever fails or races:
\* the order store-then-write in _commit_finding is enough.
THEOREM EvidenceIsBacked == Spec => []EvidenceBacked
<1>1. LedgerInv => EvidenceBacked
  BY DEF LedgerInv, EvidenceBacked
<1> QED
  BY <1>1, LedgerInit, LedgerStep, PTL DEF Spec

\* Every step of the write path is a Put, a Promise or a stutter of the
\* abstract ledger.
THEOREM Refinement == Spec => ImplementsLedger
<1>1. Init => Ledger!Init
  BY DEF Init, Ledger!Init
<1>2. LedgerInv /\ [Next]_vars => [Ledger!Put \/ Ledger!Promise]_<<stored, evidence>>
  <2> SUFFICES ASSUME LedgerInv, [Next]_vars
               PROVE  \/ UNCHANGED <<stored, evidence>>
                      \/ UNCHANGED evidence /\ stored \subseteq stored' /\ stored' # stored
                      \/ UNCHANGED stored /\ evidence \subseteq evidence' /\ evidence' \subseteq stored
    BY DEF Ledger!Put, Ledger!Promise
  <2>1. ASSUME NEW w \in Workers, StoreArtifact(w)
        PROVE  UNCHANGED evidence /\ stored \subseteq stored'
    BY <2>1 DEF StoreArtifact, db
  <2>2. ASSUME NEW w \in Workers, Commit(w)
        PROVE  UNCHANGED stored /\ evidence' = evidence \cup promised[w]
    BY <2>2 DEF Commit
  <2>3. ASSUME NEW w \in Workers,
               \/ Begin(w) \/ Lookup(w) \/ Collect(w) \/ ReadPosture(w)
               \/ CloseHistory(w) \/ Write(w) \/ Deadlock(w) \/ Respond(w) \/ Abort(w)
        PROVE  UNCHANGED <<stored, evidence>>
    BY <2>3 DEF Begin, Lookup, Collect, ReadPosture, CloseHistory, Write,
                Deadlock, Respond, Abort, db
  <2>4. ASSUME Age \/ Quiet \/ UNCHANGED vars PROVE UNCHANGED <<stored, evidence>>
    BY <2>4 DEF Age, Quiet, vars, db
  <2> QED
    BY <2>1, <2>2, <2>3, <2>4 DEF Next, Step, LedgerInv
<1> QED
  BY <1>1, <1>2, LedgerInit, LedgerStep, PTL DEF Spec, ImplementsLedger, Ledger!Spec

-----------------------------------------------------------------------------
\* The type of every row and of the transaction record.  A key is that of the
\* item in hand, <<>> when there is none.
Items     == [cell : Cells, key : {"none", "k"}]
DbKeys    == {<<"sched", n, i>> : n, i \in Nat} \cup {<<"external", c, v>> : c \in Cells, v \in Verdicts}
               \cup {<<"derived", c, 0>> : c \in Cells} \cup {<<"legacy", c, 0>> : c \in Cells}
               \cup {<<"client", "k", 0>>}
Partial(S, T) == UNION {[D -> T] : D \in SUBSET S}
FindingRow  == [id : Nat, cell : Cells, status : Statuses, key : DbKeys]
IntervalRow == [cell : Cells, finding : Nat, status : Statuses, open : BOOLEAN]
PostureRow  == [status : Statuses, finding : Nat]
PostureWrite == [status : Statuses \cup {"unchanged"}, finding : Nat]
Own == [findings : SUBSET FindingRow, idem : Partial(DbKeys, Nat),
        posture : Partial(Cells, PostureWrite),
        closed : SUBSET IntervalRow, opened : SUBSET IntervalRow]
Busy == {"item", "collect", "store", "read", "close", "write"}
Pcs  == Busy \cup {"idle", "commit", "done"}
Keys == DbKeys \cup {<<>>}
AnyJob == Jobs \cup {Idle.job}
Marks == Statuses \cup {"none"}
Tx == [pc : Pcs, job : AnyJob, number : Nat, i : Nat, key : Keys, renew : BOOLEAN,
       unverifiable : BOOLEAN, status : Marks, id : Nat, seen : Marks,
       targets : SUBSET IntervalRow, results : SUBSET Nat, own : Own]
TypeOK ==
  /\ findings \subseteq FindingRow
  /\ idem \in Partial(DbKeys, Nat)
  /\ posture \in Partial(Cells, PostureRow)
  /\ history \subseteq IntervalRow
  /\ lastId \in Nat /\ begun \in Nat /\ overlapped \in BOOLEAN
  /\ tx \in [Workers -> Tx]

\* The points between the minting of a number and its use, and those with a key.
Rcw   == {"read", "close", "write"}
Keyed == {"collect", "store"} \cup Rcw

\* What a transaction knows at each point of its program.
PcAt(w) ==
  LET t == tx[w] IN
    /\ t.pc # "idle" => t.job \in Jobs
    /\ t.pc \in Busy => t.i \in 1..Len(t.job.items)
    /\ t.pc \in Keyed => t.key \in DbKeys
    /\ t.pc \in {"store"} \cup Rcw => t.status \in Statuses
    /\ t.renew => t.key[1] = "derived"
    /\ t.pc = "collect" => ~t.unverifiable
    /\ t.unverifiable => t.job.kind = "batch"
    /\ t.pc # "write" => t.targets = {}
    /\ \A c \in DOMAIN t.own.posture :
         t.own.posture[c].status = "unchanged" => c \in DOMAIN posture
    /\ t.pc \in {"close", "write"} /\ t.seen # "none" =>
         Cell(w) \in DOMAIN posture \cup DOMAIN t.own.posture
PcInv == \A w \in Workers : PcAt(w)
Shape == TypeOK /\ PcInv

\* Nothing has been written at the start of a transaction.
LEMMA NoRows == /\ NoWrites.findings = {} /\ DOMAIN NoWrites.idem = {} /\ DOMAIN NoWrites.posture = {}
                /\ NoWrites.opened = {} /\ NoWrites.closed = {}
  BY DEF NoWrites, Empty

\* Over, Entry and the empty writes are of the row types.
LEMMA OverType ==
  ASSUME NEW S, NEW T, NEW f \in Partial(S, T), NEW g \in Partial(S, T)
  PROVE  Over(f, g) \in Partial(S, T)
<1>1. PICK D \in SUBSET S : f \in [D -> T]
  BY DEF Partial
<1>2. PICK E \in SUBSET S : g \in [E -> T]
  BY DEF Partial
<1>3. Over(f, g) \in [D \cup E -> T]
  BY <1>1, <1>2 DEF Over
<1> QED
  BY <1>1, <1>2, <1>3 DEF Partial

\* A one-entry function.
LEMMA EntryType ==
  ASSUME NEW S, NEW T, NEW x \in S, NEW v \in T
  PROVE  Entry(x, v) \in Partial(S, T) /\ DOMAIN Entry(x, v) = {x} /\ Entry(x, v)[x] = v
<1>1. Entry(x, v) \in [{x} -> T] /\ Entry(x, v)[x] = v
  BY DEF Entry
<1> QED
  BY <1>1 DEF Partial

\* A worker without a transaction.
LEMMA IdleType == Idle \in Tx /\ Idle.own = NoWrites /\ NoWrites \in Own
<1>1. \A S, T : Empty \in Partial(S, T)
  BY DEF Empty, Partial
<1>2. NoWrites \in Own
  BY <1>1 DEF NoWrites, Own
<1> QED
  BY <1>2 DEF Idle, Tx, Busy, Pcs, Keys, AnyJob, Marks

\* The values assigned below are of the types.
LEMMA MarkFacts ==
  /\ <<>> \in Keys /\ "none" \in Marks /\ "error" \in Marks
  /\ "item" \in Pcs /\ "commit" \in Pcs /\ "store" \in Pcs /\ "collect" \in Pcs
  /\ "read" \in Pcs /\ "close" \in Pcs /\ "write" \in Pcs /\ "done" \in Pcs
  BY DEF Keys, Marks, Statuses, Pcs, Busy

\* What Over looks up.
LEMMA OverFacts ==
  ASSUME NEW f, NEW g
  PROVE  /\ DOMAIN Over(f, g) = DOMAIN f \cup DOMAIN g
         /\ \A k \in DOMAIN g : Over(f, g)[k] = g[k]
         /\ \A k \in DOMAIN f \ DOMAIN g : Over(f, g)[k] = f[k]
  BY DEF Over

\* What Entry looks up.
LEMMA EntryFacts ==
  ASSUME NEW x, NEW v
  PROVE  DOMAIN Entry(x, v) = {x} /\ Entry(x, v)[x] = v
  BY DEF Entry

\* Worker w is at the last item of its request.
Last(w) == tx[w].i = Len(tx[w].job.items)

\* The item is behind worker w, which has r more results.
ItemDone(u, w, r) ==
  /\ u.pc = IF Last(w) THEN "commit" ELSE "item"
  /\ u.i = IF Last(w) THEN tx[w].i ELSE tx[w].i + 1
  /\ u.job = tx[w].job /\ u.renew = FALSE
  /\ u.targets = {} /\ u.unverifiable = FALSE
  /\ u.results = tx[w].results \cup r

\* Worker w alone moves.
Moves(w) == /\ tx' \in [Workers -> Tx]
            /\ \A v \in Workers \ {w} : tx'[v] = tx[v]

\* Neither the request nor its place in it, and nothing written yet, changes.
Goes(w) == /\ Moves(w)
           /\ tx'[w].job = tx[w].job /\ tx'[w].number = tx[w].number
           /\ tx'[w].i = tx[w].i /\ tx'[w].results = tx[w].results
           /\ tx'[w].own = tx[w].own

\* The item has to be assessed: the update of Lookup, and its outcome.
GoesOn(w, k, r, st) ==
  tx' = [tx EXCEPT ![w].key = k, ![w].renew = r,
                   ![w].status = IF tx[w].unverifiable THEN "error" ELSE st,
                   ![w].pc = IF tx[w].unverifiable \/ st # "none" THEN "store" ELSE "collect"]
WentOn(w, k, r, st) ==
  /\ Goes(w)
  /\ tx'[w].key = k /\ tx'[w].renew = r
  /\ tx'[w].status = IF tx[w].unverifiable THEN "error" ELSE st
  /\ tx'[w].pc = IF tx[w].unverifiable \/ st # "none" THEN "store" ELSE "collect"
  /\ tx'[w].unverifiable = tx[w].unverifiable /\ tx'[w].targets = tx[w].targets

\* What each update of the transaction record leaves in it.
LEMMA Sets ==
  ASSUME TypeOK, NEW w \in Workers, NEW u \in Tx, tx' = [tx EXCEPT ![w] = u]
  PROVE  Moves(w) /\ tx'[w] = u
  BY DEF TypeOK, Moves

\* NextItem keeps the type and moves on by one item.
LEMMA NextItemFacts ==
  ASSUME TypeOK, NEW w \in Workers, NEW r \in SUBSET Nat, NEW o \in Own
  PROVE  /\ NextItem(w, r, o) \in Tx
         /\ NextItem(w, r, o).own = o
         /\ ItemDone(NextItem(w, r, o), w, r)
<1>1. PICK t \in Tx : t = tx[w]
  BY DEF TypeOK
<1>2. PICK q \in SUBSET Nat : q = tx[w].results \cup r
  BY <1>1 DEF Tx
<1> DEFINE last == tx[w].i = Len(tx[w].job.items)
<1>3. PICK p \in Pcs : p = IF last THEN "commit" ELSE "item"
  BY MarkFacts
<1>4. PICK i \in Nat : i = IF last THEN tx[w].i ELSE tx[w].i + 1
  BY <1>1 DEF Tx
<1>5. PICK k \in Keys : k = <<>>
  BY MarkFacts
<1>6. PICK n \in Marks : n = "none"
  BY MarkFacts
<1> DEFINE u == [t EXCEPT !.pc = p, !.i = i, !.key = k, !.renew = FALSE,
                          !.unverifiable = FALSE, !.status = n, !.id = 0, !.seen = n,
                          !.targets = {}, !.results = q, !.own = o]
<1>7. /\ u \in Tx
      /\ u.pc = p /\ u.i = i /\ u.own = o /\ u.job = t.job /\ u.renew = FALSE
      /\ u.targets = {} /\ u.unverifiable = FALSE /\ u.results = q
  BY DEF Tx
<1>0. u = NextItem(w, r, o)
  BY <1>1, <1>2, <1>3, <1>4, <1>5, <1>6, Zenon DEF NextItem
<1> HIDE DEF u
<1>8. last <=> Last(w)
  BY DEF Last
<1> HIDE DEF last
<1>9. /\ u.pc = IF Last(w) THEN "commit" ELSE "item"
      /\ u.i = IF Last(w) THEN tx[w].i ELSE tx[w].i + 1
  BY <1>3, <1>4, <1>7, <1>8
<1>10. u.job = tx[w].job /\ u.results = tx[w].results \cup r
  BY <1>1, <1>2, <1>7
<1> QED
  BY <1>0, <1>7, <1>9, <1>10 DEF ItemDone

\* Answer moves on and writes nothing.
LEMMA AnswerFacts ==
  ASSUME TypeOK, NEW w \in Workers, NEW r \in SUBSET Nat, Answer(w, r)
  PROVE  Moves(w) /\ tx'[w].own = tx[w].own /\ ItemDone(tx'[w], w, r)
<1>1. tx[w].own \in Own
  BY DEF TypeOK, Tx
<1>2. tx' = [tx EXCEPT ![w] = NextItem(w, r, tx[w].own)]
  BY DEF Answer
<1> DEFINE u == NextItem(w, r, tx[w].own)
<1>3. u \in Tx /\ u.own = tx[w].own /\ ItemDone(u, w, r)
  BY <1>1, NextItemFacts
<1> HIDE DEF u
<1>4. Moves(w) /\ tx'[w] = u
  BY <1>2, <1>3, Sets DEF u
<1> QED
  BY <1>3, <1>4

\* Rollback leaves the worker idle.
LEMMA RollbackFacts ==
  ASSUME TypeOK, NEW w \in Workers, Rollback(w)
  PROVE  Moves(w) /\ tx'[w] = Idle
  BY IdleType, Sets DEF Rollback

\* The three fates of an exception: the cell is tried again as unverifiable, the
\* item is given up, or the request is.
LEMMA RaisedFacts ==
  ASSUME TypeOK, NEW w \in Workers, Raised(w)
  PROVE  \/ /\ tx[w].job.kind = "batch" /\ ~tx[w].unverifiable
            /\ Goes(w)
            /\ tx'[w].pc = "item" /\ tx'[w].unverifiable = TRUE /\ tx'[w].renew = FALSE
            /\ tx'[w].targets = {}
         \/ (tx[w].job.kind = "schedule" \/ tx[w].unverifiable) /\ Answer(w, {})
         \/ tx[w].job.kind # "batch" /\ Rollback(w)
<1>1. CASE tx[w].job.kind = "batch" /\ ~tx[w].unverifiable
  <2>1. tx[w] \in Tx /\ tx \in [Workers -> Tx]
    BY DEF TypeOK
  <2>2. PICK p \in Pcs : p = "item"
    BY MarkFacts
  <2> DEFINE u == [tx[w] EXCEPT !.pc = p, !.unverifiable = TRUE, !.renew = FALSE, !.targets = {}]
  <2>3. tx' = [tx EXCEPT ![w] = u]
    BY <1>1, <2>1, <2>2 DEF Raised
  <2>4. /\ u \in Tx /\ u.pc = p /\ u.unverifiable = TRUE /\ u.renew = FALSE
        /\ u.targets = {}
        /\ u.job = tx[w].job /\ u.number = tx[w].number /\ u.i = tx[w].i
        /\ u.results = tx[w].results /\ u.own = tx[w].own
    BY <2>1 DEF Tx
  <2> HIDE DEF u
  <2> QED
    BY <1>1, <2>2, <2>3, <2>4, Sets DEF Goes
<1>2. CASE ~(tx[w].job.kind = "batch" /\ ~tx[w].unverifiable)
  BY <1>2 DEF Raised
<1> QED
  BY <1>1, <1>2

\* The end of Lookup when the item has to be assessed.
LEMMA LookupFacts ==
  ASSUME TypeOK, NEW w \in Workers, NEW k \in Keys, NEW r \in BOOLEAN, NEW st \in Marks,
         GoesOn(w, k, r, st)
  PROVE  WentOn(w, k, r, st)
<1>1. tx \in [Workers -> Tx] /\ tx[w] \in Tx
  BY DEF TypeOK
<1>2. PICK p \in Pcs : p = IF tx[w].unverifiable \/ st # "none" THEN "store" ELSE "collect"
  BY MarkFacts
<1>3. PICK s \in Marks : s = IF tx[w].unverifiable THEN "error" ELSE st
  BY MarkFacts
<1> DEFINE u == [tx[w] EXCEPT !.key = k, !.renew = r, !.status = s, !.pc = p]
<1>4. tx' = [tx EXCEPT ![w] = u]
  BY <1>1, <1>2, <1>3 DEF GoesOn
<1>5. u \in Tx
  BY <1>1 DEF Tx
<1>6. /\ u.key = k /\ u.renew = r /\ u.status = s /\ u.pc = p
      /\ u.unverifiable = tx[w].unverifiable /\ u.targets = tx[w].targets
      /\ u.job = tx[w].job /\ u.number = tx[w].number /\ u.i = tx[w].i
      /\ u.results = tx[w].results /\ u.own = tx[w].own
  BY <1>1 DEF Tx
<1> HIDE DEF u
<1> QED
  BY <1>2, <1>3, <1>4, <1>5, <1>6, Sets DEF Goes, WentOn

\* A verdict sends the item to be stored.
LEMMA CollectFacts ==
  ASSUME TypeOK, NEW w \in Workers, NEW v \in Verdicts,
         tx' = [tx EXCEPT ![w].pc = "store", ![w].status = v]
  PROVE  /\ Goes(w)
         /\ tx'[w].pc = "store" /\ tx'[w].status = v
         /\ tx'[w].key = tx[w].key /\ tx'[w].renew = tx[w].renew
         /\ tx'[w].unverifiable = tx[w].unverifiable /\ tx'[w].targets = tx[w].targets
<1>1. tx \in [Workers -> Tx] /\ tx[w] \in Tx
  BY DEF TypeOK
<1>2. PICK p \in Pcs : p = "store"
  BY MarkFacts
<1>3. PICK s \in Marks : s = v
  BY DEF Marks, Statuses
<1> DEFINE u == [tx[w] EXCEPT !.pc = p, !.status = s]
<1>4. tx' = [tx EXCEPT ![w] = u]
  BY <1>1, <1>2, <1>3
<1>5. u \in Tx
  BY <1>1 DEF Tx
<1>6. /\ u.status = s /\ u.pc = p /\ u.key = tx[w].key /\ u.renew = tx[w].renew
      /\ u.unverifiable = tx[w].unverifiable /\ u.targets = tx[w].targets
      /\ u.job = tx[w].job /\ u.number = tx[w].number /\ u.i = tx[w].i
      /\ u.results = tx[w].results /\ u.own = tx[w].own
  BY <1>1 DEF Tx
<1> HIDE DEF u
<1> QED
  BY <1>2, <1>3, <1>4, <1>5, <1>6, Sets DEF Goes

\* A stored artifact mints the next number.
LEMMA StoreFacts ==
  ASSUME TypeOK, NEW w \in Workers,
         tx' = [tx EXCEPT ![w].pc = "read", ![w].id = lastId + 1]
  PROVE  /\ Goes(w)
         /\ tx'[w].pc = "read" /\ tx'[w].id = lastId + 1 /\ tx'[w].status = tx[w].status
         /\ tx'[w].key = tx[w].key /\ tx'[w].renew = tx[w].renew
         /\ tx'[w].unverifiable = tx[w].unverifiable /\ tx'[w].targets = tx[w].targets
<1>1. tx \in [Workers -> Tx] /\ tx[w] \in Tx
  BY DEF TypeOK
<1>2. PICK p \in Pcs : p = "read"
  BY MarkFacts
<1>3. PICK n \in Nat : n = lastId + 1
  BY DEF TypeOK
<1> DEFINE u == [tx[w] EXCEPT !.pc = p, !.id = n]
<1>4. tx' = [tx EXCEPT ![w] = u]
  BY <1>1, <1>2, <1>3
<1>5. u \in Tx
  BY <1>1 DEF Tx
<1>6. /\ u.status = tx[w].status /\ u.pc = p /\ u.key = tx[w].key /\ u.renew = tx[w].renew
      /\ u.unverifiable = tx[w].unverifiable /\ u.targets = tx[w].targets /\ u.id = n
      /\ u.job = tx[w].job /\ u.number = tx[w].number /\ u.i = tx[w].i
      /\ u.results = tx[w].results /\ u.own = tx[w].own
  BY <1>1 DEF Tx
<1> HIDE DEF u
<1> QED
  BY <1>2, <1>3, <1>4, <1>5, <1>6, Sets DEF Goes

\* The row read decides whether an interval must be closed.
LEMMA ReadFacts ==
  ASSUME TypeOK, NEW w \in Workers, NEW seen \in Marks,
         tx' = [tx EXCEPT ![w].seen = seen,
                          ![w].pc = IF seen = tx[w].status THEN "write" ELSE "close"]
  PROVE  /\ Goes(w)
         /\ tx'[w].pc = IF seen = tx[w].status THEN "write" ELSE "close"
         /\ tx'[w].seen = seen /\ tx'[w].id = tx[w].id /\ tx'[w].status = tx[w].status
         /\ tx'[w].key = tx[w].key /\ tx'[w].renew = tx[w].renew
         /\ tx'[w].unverifiable = tx[w].unverifiable /\ tx'[w].targets = tx[w].targets
<1>1. tx \in [Workers -> Tx] /\ tx[w] \in Tx
  BY DEF TypeOK
<1>2. PICK p \in Pcs : p = IF seen = tx[w].status THEN "write" ELSE "close"
  BY MarkFacts
<1> DEFINE u == [tx[w] EXCEPT !.seen = seen, !.pc = p]
<1>4. tx' = [tx EXCEPT ![w] = u]
  BY <1>1, <1>2
<1>5. u \in Tx
  BY <1>1 DEF Tx
<1>6. /\ u.status = tx[w].status /\ u.pc = p /\ u.key = tx[w].key /\ u.renew = tx[w].renew
      /\ u.unverifiable = tx[w].unverifiable /\ u.targets = tx[w].targets /\ u.id = tx[w].id
      /\ u.job = tx[w].job /\ u.number = tx[w].number /\ u.i = tx[w].i /\ u.seen = seen
      /\ u.results = tx[w].results /\ u.own = tx[w].own
  BY <1>1 DEF Tx
<1> HIDE DEF u
<1> QED
  BY <1>2, <1>4, <1>5, <1>6, Sets DEF Goes

\* The UPDATE of PostureHistory fixes its targets.
LEMMA CloseFacts ==
  ASSUME TypeOK, NEW w \in Workers, NEW targets \in SUBSET IntervalRow,
         tx' = [tx EXCEPT ![w].pc = "write", ![w].targets = targets]
  PROVE  /\ Goes(w)
         /\ tx'[w].pc = "write" /\ tx'[w].targets = targets
         /\ tx'[w].seen = tx[w].seen /\ tx'[w].id = tx[w].id /\ tx'[w].status = tx[w].status
         /\ tx'[w].key = tx[w].key /\ tx'[w].renew = tx[w].renew
         /\ tx'[w].unverifiable = tx[w].unverifiable
<1>1. tx \in [Workers -> Tx] /\ tx[w] \in Tx
  BY DEF TypeOK
<1>2. PICK p \in Pcs : p = "write"
  BY MarkFacts
<1> DEFINE u == [tx[w] EXCEPT !.pc = p, !.targets = targets]
<1>4. tx' = [tx EXCEPT ![w] = u]
  BY <1>1, <1>2
<1>5. u \in Tx
  BY <1>1 DEF Tx
<1>6. /\ u.status = tx[w].status /\ u.pc = p /\ u.key = tx[w].key /\ u.renew = tx[w].renew
      /\ u.unverifiable = tx[w].unverifiable /\ u.targets = targets /\ u.id = tx[w].id
      /\ u.job = tx[w].job /\ u.number = tx[w].number /\ u.i = tx[w].i /\ u.seen = tx[w].seen
      /\ u.results = tx[w].results /\ u.own = tx[w].own
  BY <1>1 DEF Tx
<1> HIDE DEF u
<1> QED
  BY <1>2, <1>4, <1>5, <1>6, Sets DEF Goes

\* A commit leaves the transaction no rows of its own.
LEMMA CommitFacts ==
  ASSUME TypeOK, NEW w \in Workers,
         tx' = [tx EXCEPT ![w].pc = "done", ![w].own = NoWrites]
  PROVE  /\ Moves(w)
         /\ tx'[w].pc = "done" /\ tx'[w].own = NoWrites
         /\ tx'[w].job = tx[w].job /\ tx'[w].i = tx[w].i
         /\ tx'[w].key = tx[w].key /\ tx'[w].renew = tx[w].renew
         /\ tx'[w].unverifiable = tx[w].unverifiable /\ tx'[w].targets = tx[w].targets
<1>1. tx \in [Workers -> Tx] /\ tx[w] \in Tx
  BY DEF TypeOK
<1>2. PICK p \in Pcs : p = "done"
  BY MarkFacts
<1>3. PICK o \in Own : o = NoWrites
  BY IdleType
<1> DEFINE u == [tx[w] EXCEPT !.pc = p, !.own = o]
<1>4. tx' = [tx EXCEPT ![w] = u]
  BY <1>1, <1>2, <1>3
<1>5. u \in Tx
  BY <1>1 DEF Tx
<1>6. /\ u.pc = p /\ u.key = tx[w].key /\ u.renew = tx[w].renew
      /\ u.unverifiable = tx[w].unverifiable /\ u.targets = tx[w].targets
      /\ u.job = tx[w].job /\ u.i = tx[w].i /\ u.own = o
  BY <1>1 DEF Tx
<1> HIDE DEF u
<1> QED
  BY <1>2, <1>3, <1>4, <1>5, <1>6, Sets

\* A request starts at its first item.
LEMMA BeginFacts ==
  ASSUME TypeOK, NEW w \in Workers, NEW j \in Jobs,
         tx' = [tx EXCEPT ![w] = [Idle EXCEPT !.pc = "item", !.job = j,
                                              !.number = begun + 1, !.i = 1]]
  PROVE  /\ Moves(w)
         /\ tx'[w].pc = "item" /\ tx'[w].own = NoWrites /\ tx'[w].job = j /\ tx'[w].i = 1
         /\ tx'[w].renew = FALSE /\ tx'[w].unverifiable = FALSE /\ tx'[w].targets = {}
         /\ tx'[w].results = {}
<1>1. PICK e \in Tx : e = Idle
  BY IdleType
<1>2. PICK p \in Pcs : p = "item"
  BY MarkFacts
<1>3. PICK a \in AnyJob : a = j
  BY DEF AnyJob
<1>4. PICK n \in Nat : n = begun + 1
  BY DEF TypeOK
<1> DEFINE u == [e EXCEPT !.pc = p, !.job = a, !.number = n, !.i = 1]
<1>5. tx' = [tx EXCEPT ![w] = u]
  BY <1>1, <1>2, <1>3, <1>4, Zenon
<1>6. u \in Tx
  BY DEF Tx
<1>7. /\ u.pc = p /\ u.own = e.own /\ u.job = a /\ u.i = 1 /\ u.renew = e.renew
      /\ u.unverifiable = e.unverifiable /\ u.targets = e.targets /\ u.results = e.results
  BY DEF Tx
<1>8. /\ e.own = NoWrites /\ e.renew = FALSE /\ e.unverifiable = FALSE
      /\ e.targets = {} /\ e.results = {}
  BY <1>1 DEF Idle
<1> HIDE DEF u
<1> QED
  BY <1>2, <1>3, <1>5, <1>6, <1>7, <1>8, Sets

-----------------------------------------------------------------------------
\* What a transaction reads is well typed.
LEMMA ItemFacts ==
  ASSUME TypeOK, PcInv, NEW w \in Workers, tx[w].pc \in Busy
  PROVE  /\ tx[w].job \in Jobs /\ tx[w].job.kind \in Kinds
         /\ tx[w].i \in 1..Len(tx[w].job.items) /\ tx[w].i \in Nat /\ tx[w].number \in Nat
         /\ Item(w) \in Items /\ Cell(w) \in Cells
<1>1. tx[w].job \in Jobs /\ tx[w].i \in 1..Len(tx[w].job.items)
  BY DEF PcInv, PcAt, Busy
<1>2. tx[w].job.kind \in Kinds /\ tx[w].job.items \in Seq(Items)
  BY <1>1, JobsAssumption DEF Items
<1>3. Item(w) \in Items
  BY <1>1, <1>2 DEF Item
<1>4. Item(w).cell \in Cells
  BY <1>3 DEF Items
<1>5. tx[w].i \in Nat /\ tx[w].number \in Nat
  BY DEF TypeOK, Tx
<1> QED
  BY <1>1, <1>2, <1>3, <1>4, <1>5 DEF Cell

\* Key makes a database key.
LEMMA KeyType ==
  ASSUME TypeOK, PcInv, NEW w \in Workers, tx[w].pc \in Busy,
         NEW st, tx[w].job.kind = "ingest" => st \in Verdicts
  PROVE  Key(w, st) \in DbKeys
<1>1. CASE tx[w].job.kind = "schedule"
  BY <1>1, ItemFacts DEF Key, DbKeys
<1>2. CASE tx[w].job.kind = "ingest"
  BY <1>2, ItemFacts DEF Key, DbKeys
<1>3. CASE tx[w].job.kind \in {"single", "batch"}
  <2>1. Item(w).key \in {"none", "k"} /\ Cell(w) \in Cells
    BY ItemFacts DEF Items
  <2>2. CASE Item(w).key = "none"
    BY <1>3, <2>1, <2>2 DEF Key, DbKeys
  <2>3. CASE Item(w).key = "k"
    BY <1>3, <2>1, <2>3 DEF Key, DbKeys
  <2> QED
    BY <2>1, <2>2, <2>3
<1> QED
  BY <1>1, <1>2, <1>3, ItemFacts DEF Kinds

\* The records a worker sees are records.
LEMMA ExistingType ==
  ASSUME TypeOK, NEW w \in Workers, NEW k, NEW b \in BOOLEAN
  PROVE  /\ IdemSeen(w) \in Partial(DbKeys, Nat)
         /\ DOMAIN IdemSeen(w) = DOMAIN idem \cup DOMAIN tx[w].own.idem
         /\ Existing(w, k, b) \in SUBSET Nat
<1>1. idem \in Partial(DbKeys, Nat) /\ tx[w].own.idem \in Partial(DbKeys, Nat)
  BY DEF TypeOK, Tx, Own
<1>2. Over(idem, tx[w].own.idem) \in Partial(DbKeys, Nat)
  BY <1>1, OverType
<1>3. DOMAIN IdemSeen(w) = DOMAIN idem \cup DOMAIN tx[w].own.idem
  BY DEF IdemSeen, Over
<1>4. \A x \in DOMAIN IdemSeen(w) : IdemSeen(w)[x] \in Nat
  BY <1>2 DEF IdemSeen, Partial
<1> QED
  BY <1>2, <1>3, <1>4 DEF IdemSeen, Existing

\* A status seen comes from a posture row.
LEMMA SeenType ==
  ASSUME Shape, NEW w \in Workers, NEW c \in Cells
  PROVE  /\ PostureSeen(w, c) \in Marks
         /\ PostureSeen(w, c) # "none" => c \in DOMAIN posture \cup DOMAIN tx[w].own.posture
<1>1. PICK D \in SUBSET Cells : posture \in [D -> PostureRow]
  BY DEF Shape, TypeOK, Partial
<1>0. tx[w].own \in Own
  BY DEF Shape, TypeOK, Tx
<1>2. PICK E \in SUBSET Cells : tx[w].own.posture \in [E -> PostureWrite]
  BY <1>0 DEF Own, Partial
<1>3. \A x \in D : posture[x].status \in Statuses
  BY <1>1 DEF PostureRow
<1>4. \A x \in E : /\ tx[w].own.posture[x].status \in Statuses \cup {"unchanged"}
                   /\ tx[w].own.posture[x].status = "unchanged" => x \in D
  BY <1>1, <1>2 DEF PostureWrite, Shape, PcInv, PcAt
<1> QED
  BY <1>1, <1>2, <1>3, <1>4 DEF PostureSeen, Marks

\* Lookup answers with a record it found, or goes on with its key.
LEMMA LookupFound ==
  ASSUME Shape, NEW w \in Workers, Lookup(w)
  PROVE  \E st \in Marks, k \in DbKeys, renew \in BOOLEAN :
           /\ k = Key(w, st) /\ renew = StaleRecord(w, k)
           /\ tx[w].job.kind # "ingest" => st = "none"
           /\ \/ /\ ~renew
                 /\ \E r \in SUBSET Nat :
                      /\ r = IF tx[w].unverifiable THEN {} ELSE Existing(w, k, TRUE)
                      /\ Existing(w, k, TRUE) # {}
                      /\ Answer(w, r)
              \/ /\ renew \/ Existing(w, k, TRUE) = {}
                 /\ WentOn(w, k, renew, st)
<1>1. PICK st \in IF tx[w].job.kind = "ingest" THEN Verdicts ELSE {"none"} :
       LET k == Key(w, st)
           renew == StaleRecord(w, k)
           found == Existing(w, k, TRUE)
       IN  \/ /\ ~renew /\ found # {}
              /\ Answer(w, IF tx[w].unverifiable THEN {} ELSE found)
           \/ /\ renew \/ found = {}
              /\ tx' = [tx EXCEPT ![w].key = k, ![w].renew = renew,
                    ![w].status = IF tx[w].unverifiable THEN "error" ELSE st,
                    ![w].pc = IF tx[w].unverifiable \/ st # "none" THEN "store" ELSE "collect"]
              /\ UNCHANGED <<artifact, promised>>
  BY DEF Lookup
<1>2. tx[w].pc = "item" /\ tx[w].pc \in Busy
  BY DEF Lookup, Busy
<1>3. tx[w].job.kind = "ingest" => st \in Verdicts
  BY <1>1
<1>4. PICK k \in DbKeys : k = Key(w, st)
  BY <1>2, <1>3, KeyType DEF Shape
<1>5. PICK renew \in BOOLEAN : renew = StaleRecord(w, k)
  BY DEF StaleRecord
<1>6. st \in Marks /\ k \in Keys
  BY <1>1 DEF Marks, Statuses, Keys, Verdicts
<1>7. PICK r \in SUBSET Nat : r = IF tx[w].unverifiable THEN {} ELSE Existing(w, k, TRUE)
  BY ExistingType DEF Shape
<1>8. CASE ~renew /\ Existing(w, k, TRUE) # {} /\ Answer(w, r)
  BY <1>1, <1>4, <1>5, <1>6, <1>7, <1>8
<1>9. CASE (renew \/ Existing(w, k, TRUE) = {}) /\ GoesOn(w, k, renew, st)
  <2>1. WentOn(w, k, renew, st)
    BY <1>6, <1>9, LookupFacts DEF Shape
  <2> QED
    BY <1>1, <1>4, <1>5, <1>6, <1>9, <2>1
<1> QED
  BY <1>1, <1>4, <1>5, <1>7, <1>8, <1>9 DEF GoesOn

\* What ReadPosture and CloseHistory do to the transaction.
ReadTo(w, seen) ==
  /\ Goes(w)
  /\ seen = PostureSeen(w, Cell(w)) /\ tx'[w].seen = seen
  /\ tx'[w].pc = IF seen = tx[w].status THEN "write" ELSE "close"
  /\ tx'[w].id = tx[w].id /\ tx'[w].status = tx[w].status
  /\ tx'[w].key = tx[w].key /\ tx'[w].renew = tx[w].renew
  /\ tx'[w].unverifiable = tx[w].unverifiable /\ tx'[w].targets = tx[w].targets
ClosedTo(w) ==
  /\ Goes(w)
  /\ tx'[w].pc = "write"
  /\ tx'[w].targets = {h \in (history \cup tx[w].own.opened) \ tx[w].own.closed :
                         h.cell = Cell(w) /\ h.open}
  /\ tx'[w].seen = tx[w].seen /\ tx'[w].id = tx[w].id /\ tx'[w].status = tx[w].status
  /\ tx'[w].key = tx[w].key /\ tx'[w].renew = tx[w].renew
  /\ tx'[w].unverifiable = tx[w].unverifiable

\* ReadPosture reads what the worker sees.
LEMMA ReadMove ==
  ASSUME Shape, NEW w \in Workers, ReadPosture(w)
  PROVE  \E seen \in Marks : ReadTo(w, seen)
<1>1. tx[w].pc \in Busy
  BY DEF ReadPosture, Busy
<1>2. PICK seen \in Marks : seen = PostureSeen(w, Cell(w))
  BY <1>1, SeenType, ItemFacts DEF Shape
<1>3. tx' = [tx EXCEPT ![w].seen = seen,
                       ![w].pc = IF seen = tx[w].status THEN "write" ELSE "close"]
  BY <1>2 DEF ReadPosture
<1>4. TypeOK
  BY DEF Shape
<1>5. /\ Goes(w)
      /\ tx'[w].pc = IF seen = tx[w].status THEN "write" ELSE "close"
      /\ tx'[w].seen = seen /\ tx'[w].id = tx[w].id /\ tx'[w].status = tx[w].status
      /\ tx'[w].key = tx[w].key /\ tx'[w].renew = tx[w].renew
      /\ tx'[w].unverifiable = tx[w].unverifiable /\ tx'[w].targets = tx[w].targets
  BY <1>2, <1>3, <1>4, ReadFacts, Zenon
<1> QED
  BY <1>2, <1>5, Zenon DEF ReadTo

\* CloseHistory takes the open intervals of the cell.
LEMMA CloseMove ==
  ASSUME Shape, NEW w \in Workers, CloseHistory(w)
  PROVE  ClosedTo(w)
<1>1. PICK targets \in SUBSET IntervalRow :
        targets = {h \in (history \cup tx[w].own.opened) \ tx[w].own.closed :
                     h.cell = Cell(w) /\ h.open}
  BY DEF Shape, TypeOK, Tx, Own
<1>2. tx' = [tx EXCEPT ![w].pc = "write", ![w].targets = targets]
  BY <1>1 DEF CloseHistory
<1> QED
  BY <1>1, <1>2, CloseFacts DEF Shape, ClosedTo

-----------------------------------------------------------------------------
\* What one savepoint adds to the rows of worker w.
RowOf(w) == [id |-> tx[w].id, cell |-> Cell(w), status |-> tx[w].status, key |-> tx[w].key]
OpenedBy(w) == [cell |-> Cell(w), finding |-> tx[w].id, status |-> tx[w].status, open |-> TRUE]
Kept(w) ==
  LET o == tx[w].own.posture
      before == IF Cell(w) \in DOMAIN o THEN o[Cell(w)].status ELSE "unchanged"
  IN  [status |-> IF tx[w].seen = tx[w].status THEN before ELSE tx[w].status,
       finding |-> tx[w].id]

\* The savepoint of w has been released.
Saved(w, o) ==
  /\ o.findings = tx[w].own.findings \cup {RowOf(w)}
  /\ o.idem = Over(tx[w].own.idem, Entry(tx[w].key, tx[w].id))
  /\ o.posture = Over(tx[w].own.posture, Entry(Cell(w), Kept(w)))
  /\ o.closed = tx[w].own.closed \cup tx[w].targets
  /\ o.opened = IF tx[w].seen = tx[w].status THEN tx[w].own.opened
                ELSE tx[w].own.opened \cup {OpenedBy(w)}

\* The posture rows of worker w with every column filled in.
Filled(w) == [c \in DOMAIN tx[w].own.posture |->
                [tx[w].own.posture[c] EXCEPT !.status = IF @ = "unchanged" THEN posture[c].status ELSE @]]
VPosture(w) == Over(posture, Filled(w))

\* The three ways a step of worker w treats rows.  It leaves the committed rows
\* alone and keeps its own, or drops them all;
Light(w) ==
  /\ Moves(w) /\ UNCHANGED <<findings, idem, posture, history>>
  /\ tx'[w].own = tx[w].own \/ tx'[w].own = NoWrites
  /\ lastId' = lastId \/ lastId' = lastId + 1
  /\ tx'[w].pc \in Rcw =>
       \/ tx[w].pc \in Rcw /\ tx'[w].id = tx[w].id
       \/ tx'[w].id = lastId + 1 /\ lastId' = lastId + 1

\* it releases a savepoint;
Wrote(w) ==
  /\ Moves(w) /\ UNCHANGED <<findings, idem, posture, history, lastId>>
  /\ tx[w].pc = "write"
  /\ \A v \in Workers : ~Blocks(v, w)
  /\ ~Conflict(w)
  /\ Saved(w, tx'[w].own)
  /\ ItemDone(tx'[w], w, {tx[w].id})

\* or it commits.
Committed(w) ==
  /\ Moves(w) /\ UNCHANGED lastId
  /\ tx[w].pc = "commit" /\ tx'[w].pc = "done" /\ tx'[w].job = tx[w].job
  /\ tx'[w].own = NoWrites
  /\ findings' = findings \cup tx[w].own.findings
  /\ idem' = Over(idem, tx[w].own.idem)
  /\ posture' = VPosture(w)
  /\ history' = {IF h \in tx[w].own.closed THEN [h EXCEPT !.open = FALSE] ELSE h :
                   h \in history \cup tx[w].own.opened}

\* WithFinding keeps the type and adds one finding.
LEMMA WithFindingFacts ==
  ASSUME Shape, NEW w \in Workers, tx[w].pc = "write"
  PROVE  WithFinding(w) \in Own /\ Saved(w, WithFinding(w))
<1>1. /\ tx[w].key \in DbKeys /\ tx[w].status \in Statuses /\ Cell(w) \in Cells
      /\ tx[w].pc \in Busy
  BY ItemFacts DEF Shape, PcInv, PcAt, Busy, Keyed, Rcw
<1>2. tx[w] \in Tx /\ tx[w].own \in Own
  BY DEF Shape, TypeOK, Tx
<1>3. tx[w].id \in Nat /\ tx[w].targets \in SUBSET IntervalRow
  BY <1>2 DEF Tx
<1>4. PICK fs \in SUBSET FindingRow : fs = tx[w].own.findings \cup {RowOf(w)}
  <2>1. RowOf(w) \in FindingRow
    BY <1>1, <1>3 DEF FindingRow, RowOf
  <2> QED
    BY <1>2, <2>1 DEF Own
<1>5. PICK cs \in SUBSET IntervalRow : cs = tx[w].own.closed \cup tx[w].targets
  BY <1>2, <1>3 DEF Own
<1>6. OpenedBy(w) \in IntervalRow
  BY <1>1, <1>3 DEF IntervalRow, OpenedBy
<1>7. PICK os \in SUBSET IntervalRow :
        os = IF tx[w].seen = tx[w].status THEN tx[w].own.opened
             ELSE tx[w].own.opened \cup {OpenedBy(w)}
  BY <1>2, <1>6 DEF Own
<1>8. PICK is \in Partial(DbKeys, Nat) : is = Over(tx[w].own.idem, Entry(tx[w].key, tx[w].id))
  <2>1. tx[w].own.idem \in Partial(DbKeys, Nat)
    BY <1>2 DEF Own
  <2>2. Entry(tx[w].key, tx[w].id) \in Partial(DbKeys, Nat)
    BY <1>1, <1>3, EntryType
  <2> QED
    BY <2>1, <2>2, OverType
<1>9. PICK ps \in Partial(Cells, PostureWrite) :
        ps = Over(tx[w].own.posture, Entry(Cell(w), Kept(w)))
  <2>1. tx[w].own.posture \in Partial(Cells, PostureWrite)
    BY <1>2 DEF Own
  <2>2. Kept(w) \in PostureWrite
    <3>1. PICK E \in SUBSET Cells : tx[w].own.posture \in [E -> PostureWrite]
      BY <2>1 DEF Partial
    <3>2. \A x \in E : tx[w].own.posture[x].status \in Statuses \cup {"unchanged"}
      BY <3>1 DEF PostureWrite
    <3> QED
      BY <1>1, <1>3, <3>1, <3>2 DEF PostureWrite, Kept
  <2>3. Entry(Cell(w), Kept(w)) \in Partial(Cells, PostureWrite)
    BY <1>1, <2>2, EntryType
  <2> QED
    BY <2>1, <2>3, OverType
<1> DEFINE u == [findings |-> fs, idem |-> is, posture |-> ps, closed |-> cs, opened |-> os]
<1>10. u \in Own
  BY DEF Own
<1>11. u = WithFinding(w)
  BY <1>4, <1>5, <1>7, <1>8, <1>9, Zenon DEF WithFinding, RowOf, OpenedBy, Kept
<1>12. Saved(w, u)
  BY <1>4, <1>5, <1>7, <1>8, <1>9 DEF Saved
<1> QED
  BY <1>10, <1>11, <1>12

\* A savepoint that is released Wrote.
LEMMA WrittenRows ==
  ASSUME Shape, NEW w \in Workers, Written(w), ~Conflict(w), tx[w].pc = "write",
         \A v \in Workers : ~Blocks(v, w),
         UNCHANGED <<findings, idem, posture, history, lastId>>
  PROVE  Wrote(w)
<1>1. PICK o \in Own : o = WithFinding(w) /\ Saved(w, o)
  BY WithFindingFacts
<1>2. PICK r \in SUBSET Nat : r = {tx[w].id}
  BY DEF Shape, TypeOK, Tx
<1>3. /\ NextItem(w, r, o) \in Tx
      /\ NextItem(w, r, o).own = o
      /\ ItemDone(NextItem(w, r, o), w, r)
  BY NextItemFacts DEF Shape
<1>4. tx' = [tx EXCEPT ![w] = NextItem(w, r, o)]
  BY <1>1, <1>2 DEF Written
<1>5. Moves(w) /\ tx'[w] = NextItem(w, r, o)
  BY <1>3, <1>4, Sets DEF Shape
<1> QED
  BY <1>1, <1>2, <1>3, <1>5 DEF Wrote

\* A commit Committed.
LEMMA CommitRows ==
  ASSUME Shape, NEW w \in Workers, Commit(w)
  PROVE  Committed(w)
<1>1. tx' = [tx EXCEPT ![w].pc = "done", ![w].own = NoWrites]
  BY DEF Commit
<1>2. Moves(w) /\ tx'[w].pc = "done" /\ tx'[w].own = NoWrites /\ tx'[w].job = tx[w].job
  BY <1>1, CommitFacts DEF Shape
<1> QED
  BY <1>2 DEF Commit, Committed, VPosture, Filled, begins

\* A row that kept its status fills it from the committed one.
LEMMA FilledType ==
  ASSUME Shape, NEW w \in Workers
  PROVE  Filled(w) \in Partial(Cells, PostureRow) /\ VPosture(w) \in Partial(Cells, PostureRow)
<1>1. PICK D \in SUBSET Cells : posture \in [D -> PostureRow]
  BY DEF Shape, TypeOK, Partial
<1>2. tx[w].own \in Own
  BY DEF Shape, TypeOK, Tx
<1>3. PICK E \in SUBSET Cells : tx[w].own.posture \in [E -> PostureWrite]
  BY <1>2 DEF Own, Partial
<1>4. \A x \in D : posture[x].status \in Statuses
  BY <1>1 DEF PostureRow
<1>5. ASSUME NEW c \in E
      PROVE  [tx[w].own.posture[c] EXCEPT !.status = IF @ = "unchanged" THEN posture[c].status ELSE @]
               \in PostureRow
  <2>1. tx[w].own.posture[c].status = "unchanged" => c \in D
    BY <1>1, <1>3 DEF Shape, PcInv, PcAt
  <2>2. tx[w].own.posture[c] \in PostureWrite
    BY <1>3
  <2>3. PICK s \in Statuses : s = IF tx[w].own.posture[c].status = "unchanged"
                                   THEN posture[c].status ELSE tx[w].own.posture[c].status
    BY <1>4, <2>1, <2>2 DEF PostureWrite
  <2> QED
    BY <2>2, <2>3 DEF PostureWrite, PostureRow
<1>6. Filled(w) \in [E -> PostureRow]
  BY <1>3, <1>5 DEF Filled
<1>7. Filled(w) \in Partial(Cells, PostureRow)
  BY <1>6 DEF Partial
<1>8. posture \in Partial(Cells, PostureRow)
  BY DEF Shape, TypeOK
<1>9. Over(posture, Filled(w)) \in Partial(Cells, PostureRow)
  BY <1>7, <1>8, OverType
<1> QED
  BY <1>7, <1>9 DEF VPosture

-----------------------------------------------------------------------------
\* Shape is inductive: one lemma for each action.
LEMMA Locally ==
  ASSUME Shape, NEW w \in Workers, Moves(w), PcAt(w)',
         UNCHANGED <<findings, idem, posture, history>>,
         lastId' \in Nat, begun' \in Nat, overlapped' \in BOOLEAN
  PROVE  Shape'
<1>1. TypeOK'
  BY DEF Shape, TypeOK, Moves
<1>2. ASSUME NEW v \in Workers, v # w PROVE PcAt(v)'
  BY <1>2 DEF Shape, PcInv, PcAt, Moves, Cell, Item
<1> QED
  BY <1>1, <1>2 DEF Shape, PcInv

\* Answer keeps the worker in shape.
LEMMA AnswerShape ==
  ASSUME Shape, NEW w \in Workers, NEW r \in SUBSET Nat, Answer(w, r), tx[w].pc \in Busy,
         UNCHANGED posture
  PROVE  Moves(w) /\ PcAt(w)'
<1>1. Moves(w) /\ tx'[w].own = tx[w].own /\ ItemDone(tx'[w], w, r)
  BY AnswerFacts DEF Shape
<1>2. tx[w].job \in Jobs /\ tx[w].i \in 1..Len(tx[w].job.items)
  BY DEF Shape, PcInv, PcAt, Busy
<1>3. Len(tx[w].job.items) \in Nat
  BY <1>2, JobsAssumption
<1>4. ~Last(w) => tx[w].i + 1 \in 1..Len(tx[w].job.items)
  BY <1>2, <1>3 DEF Last
<1>5. PcAt(w)
  BY DEF Shape, PcInv
<1> QED
  BY <1>1, <1>2, <1>4, <1>5 DEF PcAt, ItemDone, Busy, Keyed, Rcw

\* So does Rollback,
LEMMA RollbackShape ==
  ASSUME Shape, NEW w \in Workers, Rollback(w)
  PROVE  Moves(w) /\ PcAt(w)'
  BY RollbackFacts DEF Shape, PcAt, Idle, NoWrites, Empty, Busy, Keyed, Rcw

\* and an exception.
LEMMA RaisedShape ==
  ASSUME Shape, NEW w \in Workers, Raised(w), tx[w].pc \in Busy, UNCHANGED posture
  PROVE  Moves(w) /\ PcAt(w)'
<1>1. CASE /\ tx[w].job.kind = "batch" /\ ~tx[w].unverifiable
           /\ Goes(w)
           /\ tx'[w].pc = "item" /\ tx'[w].unverifiable = TRUE /\ tx'[w].renew = FALSE
           /\ tx'[w].targets = {}
  <2>1. PcAt(w)
    BY DEF Shape, PcInv
  <2> QED
    BY <1>1, <2>1 DEF PcAt, Goes, Busy, Keyed, Rcw
<1>2. CASE Answer(w, {})
  BY <1>2, AnswerShape
<1>3. CASE Rollback(w)
  BY <1>3, RollbackShape
<1> QED
  BY <1>1, <1>2, <1>3, RaisedFacts DEF Shape

\* Begin.
LEMMA BeginShape ==
  ASSUME Shape, NEW w \in Workers, Begin(w)
  PROVE  Shape'
<1>1. /\ UNCHANGED <<findings, idem, posture, history, lastId>>
      /\ begun' = begun + 1
      /\ overlapped' = (overlapped \/ \E v \in Workers : tx[v].pc # "idle")
  BY DEF Begin, db
<1>2. begun' \in Nat /\ overlapped' \in BOOLEAN
  BY <1>1 DEF Shape, TypeOK
<1>3. PICK j \in Jobs : tx' = [tx EXCEPT ![w] = [Idle EXCEPT !.pc = "item", !.job = j,
                                                   !.number = begun + 1, !.i = 1]]
  BY DEF Begin
<1>4. /\ Moves(w)
      /\ tx'[w].pc = "item" /\ tx'[w].own = NoWrites /\ tx'[w].job = j /\ tx'[w].i = 1
      /\ tx'[w].renew = FALSE /\ tx'[w].unverifiable = FALSE /\ tx'[w].targets = {}
  BY <1>3, BeginFacts DEF Shape
<1>5. 1 \in 1..Len(j.items)
  BY JobsAssumption
<1>6. PcAt(w)'
  BY <1>4, <1>5 DEF PcAt, NoWrites, Empty, Busy, Keyed, Rcw
<1> QED
  BY <1>1, <1>2, <1>4, <1>6, Locally DEF Shape, TypeOK

\* Lookup.
LEMMA LookupShape ==
  ASSUME Shape, NEW w \in Workers, Lookup(w)
  PROVE  Shape'
<1>1. /\ UNCHANGED <<findings, idem, posture, history, lastId, begun, overlapped>>
      /\ tx[w].pc = "item" /\ tx[w].pc \in Busy
  BY DEF Lookup, db, begins, Busy
<1>2. CASE \E r \in SUBSET Nat : Answer(w, r)
  <2>1. Moves(w) /\ PcAt(w)'
    BY <1>1, <1>2, AnswerShape
  <2> QED
    BY <1>1, <2>1, Locally DEF Shape, TypeOK
<1>3. CASE ~\E r \in SUBSET Nat : Answer(w, r)
  <2>1. PICK st \in Marks, k \in DbKeys, renew \in BOOLEAN :
          renew = StaleRecord(w, k) /\ WentOn(w, k, renew, st)
    BY <1>3, LookupFound
  <2>2. renew => k[1] = "derived"
    BY <2>1 DEF StaleRecord
  <2>3. st # "none" => st \in Statuses
    BY DEF Marks
  <2>4. PcAt(w)
    BY DEF Shape, PcInv
  <2>5. PcAt(w)'
    BY <1>1, <2>1, <2>2, <2>3, <2>4 DEF PcAt, WentOn, Goes, Busy, Keyed, Rcw, Statuses
  <2> QED
    BY <1>1, <2>1, <2>5, Locally DEF WentOn, Goes, Shape, TypeOK
<1> QED
  BY <1>2, <1>3

\* Collect.
LEMMA CollectShape ==
  ASSUME Shape, NEW w \in Workers, Collect(w)
  PROVE  Shape'
<1>1. /\ UNCHANGED <<findings, idem, posture, history, lastId, begun, overlapped>>
      /\ tx[w].pc = "collect" /\ tx[w].pc \in Busy
  BY DEF Collect, db, begins, Busy
<1>2. Moves(w) /\ PcAt(w)'
  <2>1. CASE \E v \in Verdicts : tx' = [tx EXCEPT ![w].pc = "store", ![w].status = v]
    <3>1. PICK v \in Verdicts : tx' = [tx EXCEPT ![w].pc = "store", ![w].status = v]
      BY <2>1
    <3>2. /\ Goes(w)
          /\ tx'[w].pc = "store" /\ tx'[w].status = v
          /\ tx'[w].key = tx[w].key /\ tx'[w].renew = tx[w].renew
          /\ tx'[w].unverifiable = tx[w].unverifiable /\ tx'[w].targets = tx[w].targets
      BY <3>1, CollectFacts DEF Shape
    <3>3. PcAt(w)
      BY DEF Shape, PcInv
    <3> QED
      BY <1>1, <3>2, <3>3 DEF PcAt, Goes, Busy, Keyed, Rcw, Statuses
  <2>2. CASE Raised(w)
    BY <1>1, <2>2, RaisedShape
  <2> QED
    BY <2>1, <2>2 DEF Collect
<1> QED
  BY <1>1, <1>2, Locally DEF Shape, TypeOK

\* StoreArtifact.
LEMMA StoreShape ==
  ASSUME Shape, NEW w \in Workers, StoreArtifact(w)
  PROVE  Shape'
<1>1. /\ UNCHANGED <<findings, idem, posture, history, begun, overlapped>>
      /\ tx[w].pc = "store" /\ tx[w].pc \in Busy
  BY DEF StoreArtifact, db, begins, Busy
<1>0. lastId' \in Nat
  <2>1. lastId' = lastId \/ lastId' = lastId + 1
    BY Zenon DEF StoreArtifact
  <2> QED
    BY <2>1 DEF Shape, TypeOK
<1>2. Moves(w) /\ PcAt(w)'
  <2>1. CASE Answer(w, IF tx[w].renew THEN {} ELSE Existing(w, tx[w].key, FALSE))
    <3>1. PICK r \in SUBSET Nat : r = IF tx[w].renew THEN {} ELSE Existing(w, tx[w].key, FALSE)
      BY ExistingType DEF Shape
    <3>2. Answer(w, r)
      BY <2>1, <3>1
    <3> QED
      BY <1>1, <3>2, AnswerShape
  <2>2. CASE tx' = [tx EXCEPT ![w].pc = "read", ![w].id = lastId + 1]
    <3>1. /\ Goes(w)
          /\ tx'[w].pc = "read" /\ tx'[w].status = tx[w].status
          /\ tx'[w].key = tx[w].key /\ tx'[w].renew = tx[w].renew
          /\ tx'[w].unverifiable = tx[w].unverifiable /\ tx'[w].targets = tx[w].targets
      BY <2>2, StoreFacts DEF Shape
    <3>2. PcAt(w)
      BY DEF Shape, PcInv
    <3> QED
      BY <1>1, <3>1, <3>2 DEF PcAt, Goes, Busy, Keyed, Rcw
  <2>3. CASE Raised(w)
    BY <1>1, <2>3, RaisedShape
  <2> QED
    BY <2>1, <2>2, <2>3 DEF StoreArtifact
<1> QED
  BY <1>0, <1>1, <1>2, Locally DEF Shape, TypeOK

\* ReadPosture.
LEMMA ReadShape ==
  ASSUME Shape, NEW w \in Workers, ReadPosture(w)
  PROVE  Shape'
<1>1. /\ UNCHANGED <<findings, idem, posture, history, lastId, begun, overlapped>>
      /\ tx[w].pc = "read" /\ tx[w].pc \in Busy
  BY DEF ReadPosture, db, begins, Busy
<1>2. PICK seen \in Marks : ReadTo(w, seen)
  BY ReadMove
<1>3. seen # "none" => Cell(w) \in DOMAIN posture \cup DOMAIN tx[w].own.posture
  BY <1>1, <1>2, SeenType, ItemFacts DEF Shape, ReadTo
<1>4. PcAt(w)
  BY DEF Shape, PcInv
<1>5. Cell(w)' = Cell(w)
  BY <1>2 DEF ReadTo, Cell, Item, Goes
<1>6. PcAt(w)'
  BY <1>1, <1>2, <1>3, <1>4, <1>5 DEF ReadTo, PcAt, Goes, Busy, Keyed, Rcw
<1> QED
  BY <1>1, <1>2, <1>6, Locally DEF ReadTo, Shape, TypeOK, Goes

\* CloseHistory.
LEMMA CloseShape ==
  ASSUME Shape, NEW w \in Workers, CloseHistory(w)
  PROVE  Shape'
<1>1. /\ UNCHANGED <<findings, idem, posture, history, lastId, begun, overlapped>>
      /\ tx[w].pc = "close" /\ tx[w].pc \in Busy
  BY DEF CloseHistory, db, begins, Busy
<1>2. ClosedTo(w)
  BY CloseMove
<1>3. PcAt(w)
  BY DEF Shape, PcInv
<1>4. Cell(w)' = Cell(w)
  BY <1>2 DEF ClosedTo, Cell, Item, Goes
<1>5. PcAt(w)'
  BY <1>1, <1>2, <1>3, <1>4 DEF ClosedTo, PcAt, Goes, Busy, Keyed, Rcw
<1> QED
  BY <1>1, <1>2, <1>5, Locally DEF ClosedTo, Shape, TypeOK, Goes

\* Write.
LEMMA WriteShape ==
  ASSUME Shape, NEW w \in Workers, Write(w)
  PROVE  Shape'
<1>1. /\ UNCHANGED <<findings, idem, posture, history, lastId, begun, overlapped>>
      /\ tx[w].pc = "write" /\ tx[w].pc \in Busy /\ \A v \in Workers : ~Blocks(v, w)
  BY DEF Write, db, begins, Busy
<1>2. Moves(w) /\ PcAt(w)'
  <2>1. CASE ~Conflict(w) /\ Written(w)
    <3>1. Moves(w) /\ Saved(w, tx'[w].own) /\ ItemDone(tx'[w], w, {tx[w].id})
      BY <1>1, <2>1, WrittenRows DEF Wrote
    <3> DEFINE o == tx'[w].own
    <3>2. \A c \in DOMAIN o.posture : o.posture[c].status = "unchanged" => c \in DOMAIN posture
      <4>1. PcAt(w) /\ tx[w].status \in Statuses
        BY <1>1 DEF Shape, PcInv, PcAt, Rcw
      <4>2. Kept(w).status = "unchanged" => Cell(w) \in DOMAIN posture
        BY <1>1, <4>1 DEF PcAt, Kept, Statuses, Verdicts
      <4>3. ASSUME NEW c \in DOMAIN o.posture, c # Cell(w)
            PROVE  c \in DOMAIN tx[w].own.posture /\ o.posture[c] = tx[w].own.posture[c]
        BY <3>1, <4>3 DEF Saved, Over, Entry
      <4>4. Cell(w) \in DOMAIN o.posture => o.posture[Cell(w)] = Kept(w)
        BY <3>1 DEF Saved, Over, Entry
      <4> QED
        BY <4>1, <4>2, <4>3, <4>4 DEF PcAt
    <3>3. tx[w].job \in Jobs /\ tx[w].i \in 1..Len(tx[w].job.items)
      BY <1>1, ItemFacts DEF Shape
    <3>4. Len(tx[w].job.items) \in Nat
      BY <3>3, JobsAssumption
    <3>5. ~Last(w) => tx[w].i + 1 \in 1..Len(tx[w].job.items)
      BY <3>3, <3>4 DEF Last
    <3> QED
      BY <1>1, <3>1, <3>2, <3>3, <3>5 DEF PcAt, ItemDone, Busy, Keyed, Rcw
  <2>2. CASE Answer(w, Existing(w, tx[w].key, FALSE))
    <3>1. PICK r \in SUBSET Nat : r = Existing(w, tx[w].key, FALSE)
      BY ExistingType DEF Shape
    <3> QED
      BY <1>1, <2>2, <3>1, AnswerShape
  <2>3. CASE Raised(w)
    BY <1>1, <2>3, RaisedShape
  <2> QED
    BY <2>1, <2>2, <2>3 DEF Write
<1> QED
  BY <1>1, <1>2, Locally DEF Shape, TypeOK

\* Deadlock.
LEMMA DeadlockShape ==
  ASSUME Shape, NEW w \in Workers, Deadlock(w)
  PROVE  Shape'
<1>1. /\ UNCHANGED <<findings, idem, posture, history, lastId, begun, overlapped>>
      /\ tx[w].pc = "write" /\ tx[w].pc \in Busy /\ Raised(w)
  BY DEF Deadlock, Blocks, db, begins, Busy
<1> QED
  BY <1>1, RaisedShape, Locally DEF Shape, TypeOK

\* Commit: DOMAIN posture grows, so no other worker loses a row it relies on.
LEMMA CommitShape ==
  ASSUME Shape, NEW w \in Workers, Commit(w)
  PROVE  Shape'
<1>1. /\ Committed(w) /\ UNCHANGED <<begun, overlapped>>
      /\ tx' = [tx EXCEPT ![w].pc = "done", ![w].own = NoWrites]
  BY CommitRows DEF Commit, begins
<1>2. tx[w].own \in Own
  BY DEF Shape, TypeOK, Tx
<1>3. /\ Moves(w)
      /\ tx'[w].pc = "done" /\ tx'[w].own = NoWrites
      /\ tx'[w].job = tx[w].job /\ tx'[w].i = tx[w].i
      /\ tx'[w].key = tx[w].key /\ tx'[w].renew = tx[w].renew
      /\ tx'[w].unverifiable = tx[w].unverifiable /\ tx'[w].targets = tx[w].targets
  BY <1>1, CommitFacts DEF Shape
<1>4. findings' \subseteq FindingRow
  BY <1>1, <1>2 DEF Committed, Shape, TypeOK, Own
<1>5. idem' \in Partial(DbKeys, Nat)
  <2>1. idem \in Partial(DbKeys, Nat) /\ tx[w].own.idem \in Partial(DbKeys, Nat)
    BY <1>2 DEF Shape, TypeOK, Own
  <2> QED
    BY <1>1, <2>1, OverType DEF Committed
<1>6. posture' \in Partial(Cells, PostureRow)
  BY <1>1, FilledType DEF Committed
<1>7. history' \subseteq IntervalRow
  <2>1. \A h \in IntervalRow : [h EXCEPT !.open = FALSE] \in IntervalRow
    BY DEF IntervalRow
  <2>2. history \cup tx[w].own.opened \subseteq IntervalRow
    BY <1>2 DEF Shape, TypeOK, Own
  <2> QED
    BY <1>1, <2>1, <2>2 DEF Committed
<1>8. TypeOK'
  BY <1>1, <1>3, <1>4, <1>5, <1>6, <1>7 DEF Committed, TypeOK, Moves, Shape
<1>9. DOMAIN posture \subseteq DOMAIN posture'
  BY <1>1 DEF Committed, VPosture, Over
<1>10. PcAt(w)'
  <2>1. PcAt(w)
    BY DEF Shape, PcInv
  <2>2. DOMAIN NoWrites.posture = {} /\ tx[w].pc = "commit"
    BY <1>1, NoRows DEF Committed
  <2> QED
    BY <1>3, <2>1, <2>2 DEF PcAt, Busy, Keyed, Rcw
<1>11. ASSUME NEW v \in Workers, v # w PROVE PcAt(v)'
  <2>1. PcAt(v) /\ tx'[v] = tx[v]
    BY <1>3, <1>11 DEF Shape, PcInv, Moves
  <2>2. Cell(v)' = Cell(v)
    BY <2>1 DEF Cell, Item
  <2> QED
    BY <1>9, <2>1, <2>2 DEF PcAt
<1> QED
  BY SMTT(45), <1>8, <1>10, <1>11 DEF Shape, PcInv

\* Respond and Abort.
LEMMA RollbackKeepsShape ==
  ASSUME Shape, NEW w \in Workers, Respond(w) \/ Abort(w)
  PROVE  Shape'
<1>1. /\ UNCHANGED <<findings, idem, posture, history, lastId, begun, overlapped>>
      /\ Rollback(w)
  BY DEF Respond, Abort, db, begins
<1> QED
  BY <1>1, RollbackShape, Locally DEF Shape, TypeOK

\* Shape holds at first,
LEMMA StartShape == Init => Shape
<1> SUFFICES ASSUME Init PROVE Shape
  OBVIOUS
<1>1. findings \subseteq FindingRow /\ history \subseteq IntervalRow
  <2>1. \A c \in Legacy : c \in Cells /\ <<"legacy", c, 0>> \in DbKeys
    BY LegacyAssumption DEF DbKeys
  <2>2. "fail" \in Statuses
    BY DEF Statuses, Verdicts
  <2>3. findings \subseteq FindingRow
    BY <2>1, <2>2 DEF Init, FindingRow
  <2>4. history \subseteq IntervalRow
    <3>1. ASSUME NEW c \in Cells
          PROVE  [cell |-> c, finding |-> 0, status |-> "fail", open |-> TRUE] \in IntervalRow
      BY <2>2 DEF IntervalRow
    <3> QED
      BY <2>1, <3>1, Zenon DEF Init
  <2> QED
    BY <2>3, <2>4
<1>2. idem \in Partial(DbKeys, Nat)
  <2>1. idem \in [{<<"legacy", c, 0>> : c \in Legacy} -> Nat]
    BY DEF Init
  <2>2. {<<"legacy", c, 0>> : c \in Legacy} \subseteq DbKeys
    BY LegacyAssumption DEF DbKeys
  <2> QED
    BY <2>1, <2>2 DEF Partial
<1>3. posture \in Partial(Cells, PostureRow)
  <2>1. posture \in [Legacy -> PostureRow]
    BY DEF Init, PostureRow, Statuses, Verdicts
  <2> QED
    BY <2>1, LegacyAssumption DEF Partial
<1>4. tx \in [Workers -> Tx]
  BY IdleType DEF Init
<1>5. lastId \in Nat /\ begun \in Nat /\ overlapped \in BOOLEAN
  BY DEF Init
<1>6. TypeOK
  BY <1>1, <1>2, <1>3, <1>4, <1>5 DEF TypeOK
<1>7. ASSUME NEW w \in Workers PROVE PcAt(w)
  BY DEF Init, PcAt, Idle, NoWrites, Empty, Busy, Keyed, Rcw
<1> QED
  BY <1>6, <1>7 DEF Shape, PcInv

\* every step keeps it,
LEMMA StepShape == Shape /\ [Next]_vars => Shape'
<1> SUFFICES ASSUME Shape, [Next]_vars PROVE Shape'
  OBVIOUS
<1>1. ASSUME NEW w \in Workers, Begin(w) \/ Step(w) \/ Abort(w) PROVE Shape'
  BY <1>1, BeginShape, LookupShape, CollectShape, StoreShape, ReadShape, CloseShape,
     WriteShape, DeadlockShape, CommitShape, RollbackKeepsShape DEF Step
<1>2. CASE UNCHANGED <<findings, idem, posture, history, lastId, begun, overlapped, tx>>
  <2>1. TypeOK'
    BY <1>2 DEF Shape, TypeOK
  <2>2. ASSUME NEW w \in Workers PROVE PcAt(w)'
    BY <1>2 DEF Shape, PcInv, PcAt, Cell, Item
  <2> QED
    BY <2>1, <2>2 DEF Shape, PcInv
<1>3. CASE Age \/ Quiet \/ UNCHANGED vars
  BY <1>2, <1>3 DEF Age, Quiet, vars, db, local, begins
<1> QED
  BY <1>1, <1>3 DEF Next

\* so it is an invariant.
LEMMA ShapeInv == Spec => []Shape
  BY StartShape, StepShape, PTL DEF Spec

-----------------------------------------------------------------------------
\* Every step is one of the three kinds.
LEMMA AnswerLight ==
  ASSUME Shape, NEW w \in Workers, NEW r \in SUBSET Nat, Answer(w, r),
         UNCHANGED <<findings, idem, posture, history, lastId>>
  PROVE  Light(w)
<1>1. Moves(w) /\ tx'[w].own = tx[w].own /\ ItemDone(tx'[w], w, r)
  BY AnswerFacts DEF Shape
<1> QED
  BY <1>1 DEF Light, ItemDone, Rcw

\* A rollback only drops rows.
LEMMA RollbackLight ==
  ASSUME Shape, NEW w \in Workers, Rollback(w),
         UNCHANGED <<findings, idem, posture, history, lastId>>
  PROVE  Light(w)
<1>1. Moves(w) /\ tx'[w] = Idle
  BY RollbackFacts DEF Shape
<1> QED
  BY <1>1, IdleType DEF Light, Idle, Rcw

\* An exception writes nothing.
LEMMA RaisedLight ==
  ASSUME Shape, NEW w \in Workers, Raised(w),
         UNCHANGED <<findings, idem, posture, history, lastId>>
  PROVE  Light(w)
<1>1. CASE Goes(w) /\ tx'[w].pc = "item"
  BY <1>1 DEF Light, Goes, Rcw
<1>2. CASE Answer(w, {})
  BY <1>2, AnswerLight
<1>3. CASE Rollback(w)
  BY <1>3, RollbackLight
<1> QED
  BY <1>1, <1>2, <1>3, RaisedFacts DEF Shape

\* Every step of a worker is one of the three kinds.
LEMMA StepKinds ==
  ASSUME Shape, NEW w \in Workers, Begin(w) \/ Step(w) \/ Abort(w)
  PROVE  Light(w) \/ Wrote(w) \/ Committed(w)
<1>1. CASE Begin(w)
  <2>1. UNCHANGED <<findings, idem, posture, history, lastId>>
    BY <1>1 DEF Begin, db
  <2>2. PICK j \in Jobs : tx' = [tx EXCEPT ![w] = [Idle EXCEPT !.pc = "item", !.job = j,
                                                     !.number = begun + 1, !.i = 1]]
    BY <1>1 DEF Begin
  <2>3. Moves(w) /\ tx'[w].pc = "item" /\ tx'[w].own = NoWrites
    BY <2>2, BeginFacts DEF Shape
  <2> QED
    BY <2>1, <2>3 DEF Light, Rcw
<1>2. CASE Lookup(w)
  <2>1. UNCHANGED <<findings, idem, posture, history, lastId>>
    BY <1>2 DEF Lookup, db
  <2>2. CASE \E r \in SUBSET Nat : Answer(w, r)
    BY <2>1, <2>2, AnswerLight
  <2>3. CASE \E k \in DbKeys, renew \in BOOLEAN, st \in Marks : WentOn(w, k, renew, st)
    BY <2>1, <2>3 DEF WentOn, Goes, Light, Rcw
  <2> QED
    BY <1>2, <2>2, <2>3, LookupFound
<1>3. CASE Collect(w)
  <2>1. UNCHANGED <<findings, idem, posture, history, lastId>>
    BY <1>3 DEF Collect, db
  <2>2. CASE Raised(w)
    BY <2>1, <2>2, RaisedLight
  <2>3. CASE \E v \in Verdicts : tx' = [tx EXCEPT ![w].pc = "store", ![w].status = v]
    <3>1. Goes(w) /\ tx'[w].pc = "store"
      BY <2>3, CollectFacts DEF Shape
    <3> QED
      BY <2>1, <3>1 DEF Light, Goes, Rcw
  <2> QED
    BY <1>3, <2>2, <2>3 DEF Collect
<1>4. CASE StoreArtifact(w)
  <2>1. UNCHANGED <<findings, idem, posture, history>>
    BY <1>4 DEF StoreArtifact, db
  <2>2. CASE UNCHANGED lastId /\ Answer(w, IF tx[w].renew THEN {} ELSE Existing(w, tx[w].key, FALSE))
    <3>1. PICK r \in SUBSET Nat : r = IF tx[w].renew THEN {} ELSE Existing(w, tx[w].key, FALSE)
      BY ExistingType DEF Shape
    <3>2. Answer(w, r)
      BY <2>2, <3>1
    <3> QED
      BY <2>1, <2>2, <3>2, AnswerLight
  <2>3. CASE lastId' = lastId + 1 /\ tx' = [tx EXCEPT ![w].pc = "read", ![w].id = lastId + 1]
    <3>1. Goes(w) /\ tx'[w].id = lastId + 1
      BY <2>3, StoreFacts DEF Shape
    <3> QED
      BY <2>1, <2>3, <3>1 DEF Light, Goes
  <2>4. CASE UNCHANGED lastId /\ Raised(w)
    BY <2>1, <2>4, RaisedLight
  <2> QED
    BY <1>4, <2>2, <2>3, <2>4 DEF StoreArtifact
<1>5. CASE ReadPosture(w)
  <2>1. UNCHANGED <<findings, idem, posture, history, lastId>> /\ tx[w].pc = "read"
    BY <1>5 DEF ReadPosture, db
  <2> QED
    BY <1>5, <2>1, ReadMove DEF ReadTo, Light, Goes, Rcw
<1>6. CASE CloseHistory(w)
  <2>1. UNCHANGED <<findings, idem, posture, history, lastId>> /\ tx[w].pc = "close"
    BY <1>6 DEF CloseHistory, db
  <2> QED
    BY <1>6, <2>1, CloseMove DEF ClosedTo, Light, Goes, Rcw
<1>7. CASE Write(w)
  <2>1. /\ UNCHANGED <<findings, idem, posture, history, lastId>>
        /\ tx[w].pc = "write" /\ \A v \in Workers : ~Blocks(v, w)
    BY <1>7 DEF Write, db
  <2>2. CASE ~Conflict(w) /\ Written(w)
    BY <2>1, <2>2, WrittenRows
  <2>3. CASE Answer(w, Existing(w, tx[w].key, FALSE))
    <3>1. PICK r \in SUBSET Nat : r = Existing(w, tx[w].key, FALSE)
      BY ExistingType DEF Shape
    <3> QED
      BY <2>1, <2>3, <3>1, AnswerLight
  <2>4. CASE Raised(w)
    BY <2>1, <2>4, RaisedLight
  <2> QED
    BY <1>7, <2>2, <2>3, <2>4 DEF Write
<1>8. CASE Deadlock(w)
  <2>1. UNCHANGED <<findings, idem, posture, history, lastId>> /\ Raised(w)
    BY <1>8 DEF Deadlock, db
  <2> QED
    BY <2>1, RaisedLight
<1>9. CASE Commit(w)
  BY <1>9, CommitRows
<1>10. CASE Respond(w) \/ Abort(w)
  <2>1. UNCHANGED <<findings, idem, posture, history, lastId>> /\ Rollback(w)
    BY <1>10 DEF Respond, Abort, db
  <2> QED
    BY <2>1, RollbackLight
<1> QED
  BY <1>1, <1>2, <1>3, <1>4, <1>5, <1>6, <1>7, <1>8, <1>9, <1>10 DEF Step

-----------------------------------------------------------------------------
\* Every finding holds a key, and an explicit key is held once: among the
\* committed rows, among a transaction's own, and between the two.
Once(F) == \A f, g \in F : f.key = g.key /\ f.key[1] # "derived" => f = g
KeyAt(w) ==
  LET o == tx[w].own IN
    /\ \A f \in o.findings : f.key \in DOMAIN o.idem
    /\ Once(o.findings)
    /\ \A k \in DOMAIN o.idem \cap DOMAIN idem : k[1] = "derived"
Apart(v, w) == DOMAIN tx[v].own.idem \cap DOMAIN tx[w].own.idem = {}
KeyInv ==
  /\ \A f \in findings : f.key \in DOMAIN idem
  /\ Once(findings)
  /\ \A w \in Workers : KeyAt(w)
  /\ \A v, w \in Workers : v # w => Apart(v, w)

\* A savepoint adds one finding and its key.
LEMMA SavedKeys ==
  ASSUME NEW w \in Workers, NEW o, Saved(w, o)
  PROVE  /\ o.findings = tx[w].own.findings \cup {RowOf(w)} /\ RowOf(w).key = tx[w].key
         /\ DOMAIN o.idem = DOMAIN tx[w].own.idem \cup {tx[w].key}
  BY DEF Saved, RowOf, Over, Entry

\* KeyInv survives a step that only keeps or drops rows,
LEMMA KeyLight ==
  ASSUME KeyInv, NEW w \in Workers, Light(w)
  PROVE  KeyInv'
<1>1. \A v \in Workers : tx'[v].own = tx[v].own \/ tx'[v].own = NoWrites
  BY DEF Light, Moves
<1>2. /\ (\A f \in findings : f.key \in DOMAIN idem)' /\ Once(findings)'
  BY DEF KeyInv, Light, Once
<1>3. ASSUME NEW v \in Workers PROVE KeyAt(v)'
  <2>1. CASE tx'[v].own = NoWrites
    BY <2>1, NoRows DEF KeyAt, Once
  <2>2. CASE tx'[v].own = tx[v].own
    BY <2>2 DEF KeyInv, KeyAt, Once, Light
  <2> QED
    BY <1>1, <2>1, <2>2
<1>4. ASSUME NEW u \in Workers, NEW v \in Workers, u # v PROVE Apart(u, v)'
  <2>1. Apart(u, v)
    BY <1>4 DEF KeyInv
  <2> QED
    BY <1>1, <2>1, NoRows DEF Apart
<1> QED
  BY <1>2, <1>3, <1>4 DEF KeyInv

\* a savepoint, since Conflict and Blocks keep an explicit key to its first finding,
LEMMA KeyWrote ==
  ASSUME Shape, KeyInv, NEW w \in Workers, Wrote(w)
  PROVE  KeyInv'
<1>1. /\ tx'[w].own.findings = tx[w].own.findings \cup {RowOf(w)} /\ RowOf(w).key = tx[w].key
      /\ DOMAIN tx'[w].own.idem = DOMAIN tx[w].own.idem \cup {tx[w].key}
  BY SavedKeys DEF Wrote
<1>2. tx[w].key \in DOMAIN idem \cup DOMAIN tx[w].own.idem => tx[w].key[1] = "derived"
  <2>1. tx[w].renew => tx[w].key[1] = "derived"
    BY DEF Shape, PcInv, PcAt
  <2>2. ~tx[w].renew => tx[w].key \notin DOMAIN IdemSeen(w)
    BY DEF Wrote, Conflict
  <2> QED
    BY <2>1, <2>2 DEF IdemSeen, Over
<1>3. UNCHANGED <<findings, idem>> /\ Moves(w) /\ tx[w].pc = "write"
  BY DEF Wrote
<1>4. (\A f \in findings : f.key \in DOMAIN idem)' /\ Once(findings)'
  BY <1>3 DEF KeyInv, Once
<1>5. KeyAt(w)'
  <2>1. KeyAt(w)
    BY DEF KeyInv
  <2>2. Once(tx'[w].own.findings)
    BY <1>1, <1>2, <2>1 DEF KeyAt, Once
  <2>3. \A f \in tx'[w].own.findings : f.key \in DOMAIN tx'[w].own.idem
    BY <1>1, <2>1 DEF KeyAt
  <2>4. \A k \in DOMAIN tx'[w].own.idem \cap DOMAIN idem : k[1] = "derived"
    BY <1>1, <1>2, <2>1 DEF KeyAt
  <2> QED
    BY <1>3, <2>2, <2>3, <2>4 DEF KeyAt, Once
<1>6. ASSUME NEW v \in Workers, v # w PROVE KeyAt(v)' /\ Apart(v, w)' /\ Apart(w, v)'
  <2>1. tx'[v] = tx[v] /\ KeyAt(v) /\ Apart(v, w)
    BY <1>3, <1>6 DEF KeyInv, Moves
  <2>2. tx[w].key \notin DOMAIN tx[v].own.idem
    BY <1>6 DEF Wrote, Blocks
  <2>3. KeyAt(v)'
    BY <1>3, <2>1 DEF KeyAt, Once
  <2> QED
    BY <1>1, <2>1, <2>2, <2>3 DEF Apart
<1>7. ASSUME NEW u \in Workers, NEW v \in Workers, u # v, u # w, v # w PROVE Apart(u, v)'
  BY <1>3, <1>7 DEF KeyInv, Moves, Apart
<1> QED
  BY <1>4, <1>5, <1>6, <1>7 DEF KeyInv

\* and a commit.
LEMMA KeyCommitted ==
  ASSUME KeyInv, NEW w \in Workers, Committed(w)
  PROVE  KeyInv'
<1>1. /\ findings' = findings \cup tx[w].own.findings
      /\ DOMAIN idem' = DOMAIN idem \cup DOMAIN tx[w].own.idem
      /\ Moves(w) /\ tx'[w].own = NoWrites
  BY DEF Committed, Over
<1>2. KeyAt(w)
  BY DEF KeyInv
<1>3. (\A f \in findings : f.key \in DOMAIN idem)'
  BY <1>1, <1>2 DEF KeyInv, KeyAt
<1>4. Once(findings')
  BY <1>1, <1>2 DEF KeyInv, KeyAt, Once
<1>5. KeyAt(w)'
  BY <1>1, NoRows DEF KeyAt, Once
<1>6. ASSUME NEW v \in Workers, v # w PROVE KeyAt(v)' /\ Apart(v, w)' /\ Apart(w, v)'
  <2>1. tx'[v] = tx[v] /\ KeyAt(v) /\ Apart(v, w)
    BY <1>1, <1>6 DEF KeyInv, Moves
  <2>2. KeyAt(v)'
    BY <1>1, <2>1 DEF KeyAt, Once, Apart
  <2> QED
    BY <1>1, <2>1, <2>2, NoRows DEF Apart
<1>7. ASSUME NEW u \in Workers, NEW v \in Workers, u # v, u # w, v # w PROVE Apart(u, v)'
  BY <1>1, <1>7 DEF KeyInv, Moves, Apart
<1> QED
  BY <1>3, <1>4, <1>5, <1>6, <1>7 DEF KeyInv, Once

\* KeyInv is an invariant.
LEMMA KeyInvariant == Spec => []KeyInv
<1>1. Init => KeyInv
  <2> SUFFICES ASSUME Init PROVE KeyInv
    OBVIOUS
  <2>1. \A f \in findings : f.key \in DOMAIN idem
    BY DEF Init
  <2>2. Once(findings)
    BY LegacyAssumption DEF Init, Once
  <2>3. \A w \in Workers : tx[w].own = NoWrites
    BY IdleType DEF Init
  <2>4. \A w \in Workers : KeyAt(w)
    BY <2>3, NoRows DEF KeyAt, Once
  <2>5. \A v, w \in Workers : Apart(v, w)
    BY <2>3, NoRows DEF Apart
  <2> QED
    BY <2>1, <2>2, <2>4, <2>5 DEF KeyInv
<1>2. Shape /\ KeyInv /\ [Next]_vars => KeyInv'
  <2> SUFFICES ASSUME Shape, KeyInv, [Next]_vars PROVE KeyInv'
    OBVIOUS
  <2>1. ASSUME NEW w \in Workers, Begin(w) \/ Step(w) \/ Abort(w) PROVE KeyInv'
    BY <2>1, StepKinds, KeyLight, KeyWrote, KeyCommitted
  <2>2. CASE UNCHANGED <<findings, idem, tx>>
    BY <2>2 DEF KeyInv, KeyAt, Once, Apart
  <2>3. CASE Age \/ Quiet \/ UNCHANGED vars
    BY <2>2, <2>3 DEF Age, Quiet, vars, db, local
  <2> QED
    BY <2>1, <2>3 DEF Next
<1> QED
  BY <1>1, <1>2, ShapeInv, PTL DEF Spec

\* A key supplied by a caller names one finding for ever.
THEOREM KeysAreSpentOnce == Spec => []ExplicitKeyOnce
<1>1. KeyInv => ExplicitKeyOnce
  BY DEF KeyInv, Once, ExplicitKeyOnce
<1> QED
  BY <1>1, KeyInvariant, PTL

-----------------------------------------------------------------------------
\* A number belongs to one record: a minted one is above every other, and no
\* two keys and no two transactions share one.
Rows(w) == tx[w].own.idem
Fresh(n, f) == \A k \in DOMAIN f : f[k] # n
Injective(f) == \A k, l \in DOMAIN f : f[k] = f[l] => k = l
Distinct(f, g) == \A k \in DOMAIN f, l \in DOMAIN g : f[k] # g[l]
Minted(f) == \A k \in DOMAIN f : f[k] \in 0..lastId
IdAt(w) ==
  /\ Minted(Rows(w)) /\ Injective(Rows(w)) /\ Distinct(Rows(w), idem)
  /\ tx[w].pc \in Rcw =>
       tx[w].id \in 0..lastId /\ Fresh(tx[w].id, idem) /\ Fresh(tx[w].id, Rows(w))
IdApart(v, w) ==
  /\ Distinct(Rows(v), Rows(w))
  /\ tx[v].pc \in Rcw => Fresh(tx[v].id, Rows(w))
  /\ tx[v].pc \in Rcw /\ tx[w].pc \in Rcw => tx[v].id # tx[w].id
IdInv ==
  /\ Minted(idem) /\ Injective(idem)
  /\ \A w \in Workers : IdAt(w)
  /\ \A v, w \in Workers : v # w => IdApart(v, w)

\* IdInv survives a step that mints a number or drops rows,
LEMMA IdLight ==
  ASSUME Shape, IdInv, NEW w \in Workers, Light(w)
  PROVE  IdInv'
<1>1. lastId \in Nat /\ 0..lastId \subseteq 0..lastId' /\ UNCHANGED idem
  BY DEF Shape, TypeOK, Light
<1>2. Rows(w)' = Rows(w) \/ DOMAIN Rows(w)' = {}
  BY NoRows DEF Light, Rows
<1>3. tx'[w].pc \in Rcw =>
        \/ tx[w].pc \in Rcw /\ tx'[w].id = tx[w].id
        \/ tx'[w].id = lastId + 1 /\ lastId' = lastId + 1
  BY DEF Light
<1>4. ASSUME NEW f, Minted(f) PROVE Fresh(lastId + 1, f)
  BY <1>1, <1>4 DEF Minted, Fresh
<1>5. (Minted(idem) /\ Injective(idem))'
  BY <1>1 DEF IdInv, Minted, Injective
<1>6. IdAt(w)'
  <2>1. IdAt(w)
    BY DEF IdInv
  <2>2. (Minted(Rows(w)) /\ Injective(Rows(w)) /\ Distinct(Rows(w), idem))'
    BY <1>1, <1>2, <2>1 DEF IdAt, Minted, Injective, Distinct
  <2>3. ASSUME tx'[w].pc \in Rcw
        PROVE  tx'[w].id \in 0..lastId' /\ Fresh(tx'[w].id, idem)
               /\ Fresh(tx'[w].id, Rows(w))
    BY <1>1, <1>3, <1>4, <2>1, <2>3 DEF IdAt, IdInv
  <2>4. tx'[w].pc \in Rcw => Fresh(tx'[w].id, idem') /\ Fresh(tx'[w].id, Rows(w)')
    BY <1>1, <1>2, <2>3 DEF Fresh
  <2> QED
    BY <2>2, <2>3, <2>4 DEF IdAt, Fresh
<1>7. ASSUME NEW v \in Workers, v # w PROVE IdAt(v)' /\ IdApart(v, w)' /\ IdApart(w, v)'
  <2>1. tx'[v] = tx[v] /\ Rows(v)' = Rows(v)
    BY <1>7 DEF Light, Moves, Rows
  <2>2. IdAt(v) /\ IdAt(w) /\ IdApart(v, w) /\ IdApart(w, v)
    BY <1>7 DEF IdInv
  <2>3. IdAt(v)'
    BY <1>1, <2>1, <2>2 DEF IdAt, Minted, Injective, Distinct, Fresh
  <2>4. IdApart(v, w)'
    <3>1. Distinct(Rows(v), Rows(w)')
      BY <1>2, <2>2 DEF IdApart, Distinct
    <3>2. tx[v].pc \in Rcw => Fresh(tx[v].id, Rows(w)')
      BY <1>2, <2>2 DEF IdApart, Fresh
    <3>3. tx[v].pc \in Rcw /\ tx'[w].pc \in Rcw => tx[v].id # tx'[w].id
      BY <1>1, <1>3, <2>2 DEF IdApart, IdAt
    <3> QED
      BY <2>1, <3>1, <3>2, <3>3 DEF IdApart, Distinct, Fresh
  <2>5. IdApart(w, v)'
    <3>1. tx'[w].pc \in Rcw => Fresh(tx'[w].id, Rows(v))
      BY <1>1, <1>3, <1>4, <2>2 DEF IdApart, IdAt
    <3> QED
      BY <2>1, <2>4, <3>1 DEF IdApart, Distinct, Fresh
  <2> QED
    BY <2>3, <2>4, <2>5
<1>8. ASSUME NEW u \in Workers, NEW v \in Workers, u # v, u # w, v # w PROVE IdApart(u, v)'
  <2>1. IdApart(u, v) /\ tx'[u] = tx[u] /\ tx'[v] = tx[v]
    BY <1>8 DEF IdInv, Light, Moves
  <2> QED
    BY <2>1 DEF IdApart, Distinct, Fresh, Rows
<1> QED
  BY <1>5, <1>6, <1>7, <1>8 DEF IdInv

\* a savepoint, which uses the number in hand,
LEMMA IdWrote ==
  ASSUME Shape, IdInv, NEW w \in Workers, Wrote(w)
  PROVE  IdInv'
<1>1. UNCHANGED <<idem, lastId>> /\ Moves(w) /\ tx[w].pc \in Rcw /\ tx'[w].pc \notin Rcw
  BY DEF Wrote, ItemDone, Rcw
<1>2. /\ DOMAIN Rows(w)' = DOMAIN Rows(w) \cup {tx[w].key}
      /\ \A k \in DOMAIN Rows(w)' :
           IF k = tx[w].key THEN Rows(w)'[k] = tx[w].id ELSE Rows(w)'[k] = Rows(w)[k]
  <2>1. Rows(w)' = Over(Rows(w), Entry(tx[w].key, tx[w].id))
    BY DEF Wrote, Saved, Rows
  <2> QED
    BY <2>1 DEF Over, Entry
<1>3. IdAt(w) /\ Minted(idem) /\ Injective(idem)
  BY DEF IdInv
<1>4. tx[w].id \in 0..lastId /\ Fresh(tx[w].id, idem) /\ Fresh(tx[w].id, Rows(w))
  BY <1>1, <1>3 DEF IdAt
<1>5. IdAt(w)'
  <2>1. Minted(Rows(w)')
    BY <1>2, <1>3, <1>4 DEF IdAt, Minted
  <2>2. Injective(Rows(w)')
    BY <1>2, <1>3, <1>4 DEF IdAt, Injective, Fresh
  <2>3. Distinct(Rows(w)', idem)
    BY <1>2, <1>3, <1>4 DEF IdAt, Distinct, Fresh
  <2> QED
    BY <1>1, <2>1, <2>2, <2>3 DEF IdAt, Minted, Injective, Distinct
<1>6. ASSUME NEW v \in Workers, v # w PROVE IdAt(v)' /\ IdApart(v, w)' /\ IdApart(w, v)'
  <2>1. tx'[v] = tx[v] /\ Rows(v)' = Rows(v)
    BY <1>1, <1>6 DEF Moves, Rows
  <2>2. IdAt(v) /\ IdApart(v, w) /\ IdApart(w, v)
    BY <1>6 DEF IdInv
  <2>3. IdAt(v)'
    BY <1>1, <2>1, <2>2 DEF IdAt, Minted, Injective, Distinct, Fresh
  <2>4. Fresh(tx[w].id, Rows(v)) /\ (tx[v].pc \in Rcw => tx[v].id # tx[w].id)
    BY <1>1, <2>2 DEF IdApart
  <2>5. Distinct(Rows(v), Rows(w)') /\ Distinct(Rows(w)', Rows(v))
    BY <1>2, <2>2, <2>4 DEF IdApart, Distinct, Fresh
  <2>6. tx[v].pc \in Rcw => Fresh(tx[v].id, Rows(w)')
    BY <1>2, <2>2, <2>4 DEF IdApart, Fresh
  <2> QED
    BY <1>1, <2>1, <2>3, <2>5, <2>6 DEF IdApart, Distinct, Fresh
<1>7. ASSUME NEW u \in Workers, NEW v \in Workers, u # v, u # w, v # w PROVE IdApart(u, v)'
  <2>1. IdApart(u, v) /\ tx'[u] = tx[u] /\ tx'[v] = tx[v]
    BY <1>1, <1>7 DEF IdInv, Moves
  <2> QED
    BY <2>1 DEF IdApart, Distinct, Fresh, Rows
<1>8. (Minted(idem) /\ Injective(idem))'
  BY <1>1, <1>3 DEF Minted, Injective
<1> QED
  BY <1>5, <1>6, <1>7, <1>8 DEF IdInv

\* and a commit.
LEMMA IdCommitted ==
  ASSUME Shape, IdInv, NEW w \in Workers, Committed(w)
  PROVE  IdInv'
<1>1. UNCHANGED lastId /\ Moves(w) /\ DOMAIN Rows(w)' = {} /\ tx'[w].pc \notin Rcw
  BY NoRows DEF Committed, Rows, Rcw
<1>2. idem' = Over(idem, Rows(w))
  BY DEF Committed, Rows
<1>3. /\ DOMAIN idem' = DOMAIN idem \cup DOMAIN Rows(w)
      /\ \A k \in DOMAIN idem' :
           IF k \in DOMAIN Rows(w) THEN idem'[k] = Rows(w)[k] ELSE idem'[k] = idem[k]
  BY <1>2 DEF Over
<1>4. IdAt(w) /\ Minted(idem) /\ Injective(idem)
  BY DEF IdInv
<1>5. Minted(idem')
  BY <1>3, <1>4 DEF IdAt, Minted
<1>6. Injective(idem')
  BY <1>3, <1>4 DEF IdAt, Injective, Distinct
<1>7. IdAt(w)'
  BY <1>1 DEF IdAt, Minted, Injective, Distinct
<1>8. ASSUME NEW v \in Workers, v # w PROVE IdAt(v)' /\ IdApart(v, w)' /\ IdApart(w, v)'
  <2>1. tx'[v] = tx[v] /\ Rows(v)' = Rows(v)
    BY <1>1, <1>8 DEF Moves, Rows
  <2>2. IdAt(v) /\ IdApart(v, w) /\ IdApart(w, v)
    BY <1>8 DEF IdInv
  <2>3. Distinct(Rows(v), idem')
    BY <1>3, <2>2 DEF IdAt, IdApart, Distinct
  <2>4. tx[v].pc \in Rcw => Fresh(tx[v].id, idem')
    BY <1>3, <2>2 DEF IdAt, IdApart, Fresh
  <2>5. IdAt(v)'
    BY <1>1, <2>1, <2>2, <2>3, <2>4 DEF IdAt, Minted, Injective, Distinct, Fresh
  <2> QED
    BY <1>1, <2>1, <2>5 DEF IdApart, Distinct, Fresh
<1>9. ASSUME NEW u \in Workers, NEW v \in Workers, u # v, u # w, v # w PROVE IdApart(u, v)'
  <2>1. IdApart(u, v) /\ tx'[u] = tx[u] /\ tx'[v] = tx[v]
    BY <1>1, <1>9 DEF IdInv, Moves
  <2> QED
    BY <2>1 DEF IdApart, Distinct, Fresh, Rows
<1> QED
  BY <1>1, <1>5, <1>6, <1>7, <1>8, <1>9 DEF IdInv, Minted, Injective

\* IdInv is an invariant.
LEMMA IdInvariant == Spec => []IdInv
<1>1. Init => IdInv
  <2> SUFFICES ASSUME Init PROVE IdInv
    OBVIOUS
  <2>1. Minted(idem) /\ lastId = 0
    BY DEF Init, Minted
  <2>2. Injective(idem)
    BY LegacyAssumption DEF Init, Injective
  <2>3. \A w \in Workers : DOMAIN Rows(w) = {} /\ tx[w].pc \notin Rcw
    BY IdleType, NoRows DEF Init, Rows, Idle, Rcw
  <2>4. \A w \in Workers : IdAt(w)
    BY <2>3 DEF IdAt, Minted, Injective, Distinct
  <2>5. \A v, w \in Workers : IdApart(v, w)
    BY <2>3 DEF IdApart, Distinct
  <2> QED
    BY <2>1, <2>2, <2>4, <2>5 DEF IdInv
<1>2. Shape /\ IdInv /\ [Next]_vars => IdInv'
  <2> SUFFICES ASSUME Shape, IdInv, [Next]_vars PROVE IdInv'
    OBVIOUS
  <2>1. ASSUME NEW w \in Workers, Begin(w) \/ Step(w) \/ Abort(w) PROVE IdInv'
    BY <2>1, StepKinds, IdLight, IdWrote, IdCommitted
  <2>2. CASE UNCHANGED <<idem, tx, lastId>>
    BY <2>2 DEF IdInv, IdAt, IdApart, Minted, Injective, Distinct, Fresh, Rows
  <2>3. CASE Age \/ Quiet \/ UNCHANGED vars
    BY <2>2, <2>3 DEF Age, Quiet, vars, db, local
  <2> QED
    BY <2>1, <2>3 DEF Next
<1> QED
  BY <1>1, <1>2, ShapeInv, PTL DEF Spec

HitIsFresh(w) ==
  /\ tx[w].pc = "item" /\ ~tx[w].unverifiable
  /\ tx[w].job.kind \in {"single", "batch"} /\ Item(w).key = "none"
  => \A n \in tx'[w].results \ tx[w].results :
       \A k \in DOMAIN idem : idem[k] = n /\ k[1] = "derived" => k \notin stale

\* A request without a key that is answered with an old finding found a record
\* inside the window, or one in the pre-hash format.
THEOREM OldAnswersAreFresh == Spec => ImplicitHitIsFresh
<1>1. ASSUME Shape, IdInv, [Next]_vars, NEW w \in Workers PROVE HitIsFresh(w)
  <2>1. CASE ~(Begin(w) \/ Step(w) \/ Abort(w))
    <3>1. tx'[w] = tx[w]
      <4>1. ASSUME NEW v \in Workers, Begin(v) \/ Step(v) \/ Abort(v) PROVE tx'[w] = tx[w]
        BY <1>1, <2>1, <4>1, StepKinds DEF Light, Wrote, Committed, Moves
      <4>2. CASE Age \/ Quiet \/ UNCHANGED vars
        BY <4>2 DEF Age, Quiet, vars, local
      <4> QED
        BY <1>1, <4>1, <4>2 DEF Next
    <3> QED
      BY <3>1 DEF HitIsFresh
  <2>2. CASE (Begin(w) \/ Step(w) \/ Abort(w)) /\ tx[w].pc = "item"
    <3>1. CASE Abort(w)
      <4>1. tx'[w] = Idle
        BY <1>1, <3>1, RollbackFacts DEF Abort, Shape
      <4> QED
        BY <4>1 DEF Idle, HitIsFresh
    <3>2. CASE Lookup(w)
      <4> SUFFICES ASSUME ~tx[w].unverifiable, tx[w].job.kind \in {"single", "batch"},
                          Item(w).key = "none",
                          NEW n \in tx'[w].results, n \notin tx[w].results,
                          NEW l \in DOMAIN idem, idem[l] = n, l[1] = "derived"
                   PROVE  l \notin stale
        BY DEF HitIsFresh
      <4> DEFINE k == <<"derived", Cell(w), 0>>
                 m == <<"legacy", Cell(w), 0>>
      <4>1. /\ \A st : Key(w, st) = k
            /\ LegacyKey(k) = m /\ k[1] = "derived" /\ m # l
        BY DEF Key, LegacyKey
      <4> HIDE DEF k, m
      <4>2. \A renew \in BOOLEAN, st \in Marks : ~WentOn(w, k, renew, st)
        BY DEF WentOn, Goes
      <4>3. PICK r \in SUBSET Nat : ~StaleRecord(w, k) /\ r = Existing(w, k, TRUE) /\ Answer(w, r)
        BY <1>1, <3>2, <4>1, <4>2, LookupFound
      <4>4. ItemDone(tx'[w], w, r)
        BY <1>1, <4>3, AnswerFacts DEF Shape
      <4>5. n \in Existing(w, k, TRUE)
        BY <4>3, <4>4 DEF ItemDone
      <4>6. \/ k \in DOMAIN IdemSeen(w) /\ n = IdemSeen(w)[k]
            \/ m \in DOMAIN IdemSeen(w) /\ n = IdemSeen(w)[m]
        BY <4>1, <4>5 DEF Existing
      <4>7. ASSUME NEW x \in DOMAIN IdemSeen(w), IdemSeen(w)[x] = n
            PROVE  x \notin DOMAIN Rows(w) /\ x = l
        <5>1. /\ DOMAIN IdemSeen(w) = DOMAIN idem \cup DOMAIN Rows(w)
              /\ x \in DOMAIN Rows(w) => IdemSeen(w)[x] = Rows(w)[x]
              /\ x \notin DOMAIN Rows(w) => IdemSeen(w)[x] = idem[x]
          BY DEF IdemSeen, Over, Rows
        <5>2. Distinct(Rows(w), idem) /\ Injective(idem)
          BY <1>1 DEF IdInv, IdAt
        <5> QED
          BY <4>7, <5>1, <5>2 DEF Distinct, Injective
      <4>8. l = k /\ k \notin DOMAIN Rows(w)
        BY <4>1, <4>6, <4>7
      <4> QED
        BY <4>1, <4>3, <4>8 DEF StaleRecord, Rows
    <3> QED
      BY <2>2, <3>1, <3>2 DEF Begin, Step, Collect, StoreArtifact, ReadPosture,
         CloseHistory, Write, Deadlock, Blocks, Commit, Respond
  <2>3. CASE tx[w].pc # "item"
    BY <2>3 DEF HitIsFresh
  <2> QED
    BY <2>1, <2>2, <2>3
<1>2. Shape /\ IdInv /\ [Next]_vars => \A w \in Workers : HitIsFresh(w)
  BY <1>1
<1> QED
  BY <1>2, ShapeInv, IdInvariant, PTL DEF Spec, ImplicitHitIsFresh, HitIsFresh

-----------------------------------------------------------------------------
\* While transactions follow one another: what a transaction sees of the rows.
VFindings(w) == findings \cup tx[w].own.findings
VHistory(w) == (history \cup tx[w].own.opened) \ tx[w].own.closed
\* The open intervals of a cell, and rows that agree about every cell.
OpenIn(H, c) == {h \in H : h.cell = c /\ h.open}
Consistent(F, P, H) ==
  \A c \in DOMAIN P :
    /\ \A f \in F : f.id = P[c].finding => P[c].status = f.status
    /\ \E h \in H : OpenIn(H, c) = {h} /\ h.status = P[c].status
\* The status the next ReadPosture reads.
Seen(w) == IF Cell(w) \in DOMAIN VPosture(w) THEN VPosture(w)[Cell(w)].status ELSE "none"

\* The cells a key stands for, if each key of a caller stands for one.
Claims(c) == \E j \in Jobs : \E n \in DOMAIN j.items : j.items[n] = [cell |-> c, key |-> "k"]
KeysNameCells == \A c, d \in Cells : Claims(c) /\ Claims(d) => c = d
\* A key that stands for cell c: its record implies a posture row of c.
Names(k, c) == \/ k = <<"derived", c, 0>> \/ k = <<"legacy", c, 0>>
               \/ k = <<"client", "k", 0>> /\ Claims(c)
Homed(D, P) == KeysNameCells => \A k \in D : \A c \in Cells : Names(k, c) => c \in DOMAIN P

\* The numbers of w's rows are below n.
Below(w, n) ==
  /\ \A f \in VFindings(w) : f.id < n
  /\ \A c \in DOMAIN VPosture(w) : VPosture(w)[c].finding < n
  /\ \A h \in history \cup tx[w].own.opened \cup tx[w].own.closed : h.finding < n
Roof(w) == IF tx[w].pc \in Rcw THEN tx[w].id ELSE lastId + 1
\* What the transaction would commit is consistent;
View(w) == /\ Consistent(VFindings(w), VPosture(w), VHistory(w))
           /\ Homed(DOMAIN IdemSeen(w), VPosture(w))
           /\ Below(w, Roof(w))
\* what it has read is still what it sees;
Plan(w) ==
  LET t == tx[w] IN
    /\ t.pc \in Keyed => \E st \in Marks : t.key = Key(w, st)
    /\ t.pc \in {"close", "write"} => t.seen = Seen(w)
    /\ t.pc = "close" => t.seen # t.status
    /\ t.pc = "write" => t.targets = IF t.seen = t.status THEN {} ELSE OpenIn(VHistory(w), Cell(w))
    /\ t.pc \in Rcw => t.renew \/ t.key \notin DOMAIN IdemSeen(w)
    /\ t.pc = "done" => t.own = NoWrites
\* and every cell of a batch that is behind it has a posture row.
Behind(w, n) == n < tx[w].i \/ tx[w].pc \in {"commit", "done"}
Covered(w) == KeysNameCells /\ tx[w].job.kind = "batch" =>
             \A n \in DOMAIN tx[w].job.items :
               Behind(w, n) => tx[w].job.items[n].cell \in DOMAIN VPosture(w)
\* The same of the committed rows.
Base == /\ Consistent(findings, posture, history)
        /\ Homed(DOMAIN idem, posture)
        /\ \A f \in findings : f.id < lastId + 1
        /\ \A c \in DOMAIN posture : posture[c].finding < lastId + 1
        /\ \A h \in history : h.finding < lastId + 1
At(w) == IF tx[w].pc = "idle" THEN tx[w].own = NoWrites ELSE View(w) /\ Plan(w) /\ Covered(w)
\* At most one transaction is open.
Solo == \A v, w \in Workers : tx[v].pc # "idle" /\ tx[w].pc # "idle" => v = w
Alone == Solo /\ Base /\ \A w \in Workers : At(w)
AloneInv == overlapped \/ Alone

\* The posture rows worker w sees.
LEMMA ViewFacts ==
  ASSUME Shape, NEW w \in Workers
  PROVE  /\ DOMAIN VPosture(w) = DOMAIN posture \cup DOMAIN tx[w].own.posture
         /\ \A c \in DOMAIN VPosture(w) :
              VPosture(w)[c].status \in Statuses /\ VPosture(w)[c].finding \in Nat
         /\ \A c \in DOMAIN posture \ DOMAIN tx[w].own.posture : VPosture(w)[c] = posture[c]
         /\ \A c \in DOMAIN tx[w].own.posture :
              /\ VPosture(w)[c].finding = tx[w].own.posture[c].finding
              /\ VPosture(w)[c].status = IF tx[w].own.posture[c].status = "unchanged"
                                         THEN posture[c].status ELSE tx[w].own.posture[c].status
<1>1. /\ DOMAIN VPosture(w) = DOMAIN posture \cup DOMAIN tx[w].own.posture
      /\ \A c \in DOMAIN posture \ DOMAIN tx[w].own.posture : VPosture(w)[c] = posture[c]
      /\ \A c \in DOMAIN tx[w].own.posture : VPosture(w)[c] = Filled(w)[c]
  BY DEF VPosture, Over, Filled
<1>2. VPosture(w) \in Partial(Cells, PostureRow)
  BY FilledType
<1>3. \A c \in DOMAIN VPosture(w) : VPosture(w)[c] \in PostureRow
  BY <1>2 DEF Partial
<1>4. \A c \in DOMAIN VPosture(w) :
        VPosture(w)[c].status \in Statuses /\ VPosture(w)[c].finding \in Nat
  BY <1>3 DEF PostureRow
<1>5. tx[w].own \in Own
  BY DEF Shape, TypeOK, Tx
<1>6. PICK E \in SUBSET Cells : tx[w].own.posture \in [E -> PostureWrite]
  BY <1>5 DEF Own, Partial
<1>7. ASSUME NEW c \in E
      PROVE  /\ Filled(w)[c].finding = tx[w].own.posture[c].finding
             /\ Filled(w)[c].status = IF tx[w].own.posture[c].status = "unchanged"
                                      THEN posture[c].status ELSE tx[w].own.posture[c].status
  <2>1. tx[w].own.posture[c] \in PostureWrite
    BY <1>6
  <2> QED
    BY <1>6, <2>1 DEF Filled, PostureWrite
<1> QED
  BY SMTT(45), <1>1, <1>4, <1>6, <1>7

\* PostureSeen is what the transaction would commit.
LEMMA SeenIsStatus ==
  ASSUME Shape, NEW w \in Workers
  PROVE  PostureSeen(w, Cell(w)) = Seen(w)
  BY ViewFacts DEF PostureSeen, Seen

\* The view depends on the rows alone.
LEMMA SameView ==
  ASSUME NEW w \in Workers, tx'[w].own = tx[w].own, UNCHANGED <<findings, idem, posture, history>>
  PROVE  /\ VFindings(w)' = VFindings(w) /\ VPosture(w)' = VPosture(w)
         /\ VHistory(w)' = VHistory(w) /\ IdemSeen(w)' = IdemSeen(w)
  BY DEF VFindings, VPosture, VHistory, IdemSeen, Filled

\* Without rows of its own a worker sees the committed ones.
LEMMA NoView ==
  ASSUME Shape', NEW w \in Workers, tx'[w].own = NoWrites
  PROVE  /\ VFindings(w)' = findings' /\ VPosture(w)' = posture'
         /\ VHistory(w)' = history' /\ IdemSeen(w)' = idem'
<1>1. VFindings(w)' = findings' /\ VHistory(w)' = history'
  BY NoRows DEF VFindings, VHistory
<1>2. PICK D \in SUBSET Cells : posture' \in [D -> PostureRow]
  BY DEF Shape, TypeOK, Partial
<1>3. PICK E \in SUBSET DbKeys : idem' \in [E -> Nat]
  BY DEF Shape, TypeOK, Partial
<1>4. DOMAIN Filled(w)' = {}
  BY NoRows DEF Filled
<1>5. VPosture(w)' = posture'
  BY <1>2, <1>4 DEF VPosture, Over
<1>6. IdemSeen(w)' = idem'
  BY <1>3, NoRows DEF IdemSeen, Over
<1> QED
  BY <1>1, <1>5, <1>6

\* A bound on the numbers may grow.
LEMMA BelowLater ==
  ASSUME Shape, NEW w \in Workers, NEW n \in Nat, NEW m \in Nat, n <= m, Below(w, n)
  PROVE  Below(w, m)
<1>1. tx[w].own \in Own
  BY DEF Shape, TypeOK, Tx
<1>2. \A f \in VFindings(w) : f.id \in Nat
  BY <1>1 DEF VFindings, Own, FindingRow, Shape, TypeOK
<1>3. \A h \in history \cup tx[w].own.opened \cup tx[w].own.closed : h.finding \in Nat
  BY <1>1 DEF Own, IntervalRow, Shape, TypeOK
<1>4. \A c \in DOMAIN VPosture(w) : VPosture(w)[c].finding \in Nat
  BY ViewFacts
<1>5. \A x \in Nat : x < n => x < m
  OBVIOUS
<1> QED
  BY <1>2, <1>3, <1>4, <1>5 DEF Below

\* A step that keeps all rows keeps the view.
LEMMA ViewLight ==
  ASSUME Shape, Shape', IdInv, NEW w \in Workers, Light(w), View(w), tx'[w].own = tx[w].own
  PROVE  View(w)'
<1>1. UNCHANGED <<findings, idem, posture, history>>
  BY DEF Light
<1>2. /\ VFindings(w)' = VFindings(w) /\ VPosture(w)' = VPosture(w)
      /\ VHistory(w)' = VHistory(w) /\ IdemSeen(w)' = IdemSeen(w)
  BY <1>1, SameView
<1>3. Roof(w) \in Nat /\ Roof(w)' \in Nat /\ Roof(w) <= Roof(w)'
  <2>1. lastId \in Nat /\ lastId' \in Nat /\ lastId <= lastId'
    BY DEF Shape, TypeOK, Light
  <2>2. tx[w].pc \in Rcw => tx[w].id \in 0..lastId
    BY DEF IdInv, IdAt
  <2>3. tx'[w].pc \in Rcw =>
          \/ tx[w].pc \in Rcw /\ tx'[w].id = tx[w].id
          \/ tx'[w].id = lastId + 1 /\ lastId' = lastId + 1
    BY DEF Light
  <2> QED
    BY <2>1, <2>2, <2>3 DEF Roof
<1>4. PICK m \in Nat : m = Roof(w)'
  BY <1>3
<1>5. Below(w, m)'
  <2>1. Below(w, m)
    BY <1>3, <1>4, BelowLater DEF View
  <2> QED
    BY <1>1, <1>2, <2>1 DEF Below
<1>6. Consistent(VFindings(w), VPosture(w), VHistory(w))'
  BY <1>2 DEF View, Consistent, OpenIn
<1>7. Homed(DOMAIN IdemSeen(w), VPosture(w))'
  BY <1>2 DEF View, Homed, Names, Claims, KeysNameCells
<1> QED
  BY <1>4, <1>5, <1>6, <1>7 DEF View, Below

\* A key stands for the cell of its item, and for no other.
LEMMA KeyMeaning ==
  ASSUME Shape, NEW w \in Workers, tx[w].pc \in Busy, NEW st
  PROVE  /\ KeysNameCells => \A c \in Cells : Names(Key(w, st), c) => c = Cell(w)
         /\ tx[w].job.kind = "batch" =>
              Names(Key(w, st), Cell(w)) /\ Names(LegacyKey(Key(w, st)), Cell(w))
<1>1. /\ tx[w].job \in Jobs /\ tx[w].job.kind \in Kinds
      /\ Item(w) \in Items /\ Cell(w) \in Cells /\ Cell(w) = Item(w).cell
      /\ tx[w].i \in DOMAIN tx[w].job.items
  BY ItemFacts, JobsAssumption DEF Shape, Cell
<1>2. CASE tx[w].job.kind \in {"schedule", "ingest"}
  <2>3. /\ tx[w].job.kind = "schedule" => Key(w, st) = <<"sched", tx[w].number, tx[w].i>>
        /\ tx[w].job.kind = "ingest" => Key(w, st) = <<"external", Cell(w), st>>
    BY DEF Key
  <2>1. \/ Key(w, st) = <<"sched", tx[w].number, tx[w].i>>
        \/ Key(w, st) = <<"external", Cell(w), st>>
    BY <1>2, <2>3
  <2>2. \A a, b, c : ~Names(<<"sched", a, b>>, c) /\ ~Names(<<"external", a, b>>, c)
    BY DEF Names
  <2> QED
    BY <1>2, <2>1, <2>2
<1>3. CASE tx[w].job.kind \in {"single", "batch"} /\ Item(w).key = "none"
  <2>1. Key(w, st) = <<"derived", Cell(w), 0>> /\ LegacyKey(Key(w, st)) = <<"legacy", Cell(w), 0>>
    BY <1>3 DEF Key, LegacyKey
  <2>2. \A c \in Cells : Names(<<"derived", Cell(w), 0>>, c) => c = Cell(w)
    BY DEF Names
  <2> QED
    BY <2>1, <2>2 DEF Names
<1>4. CASE tx[w].job.kind \in {"single", "batch"} /\ Item(w).key = "k"
  <2>1. Key(w, st) = <<"client", "k", 0>> /\ LegacyKey(Key(w, st)) = <<"client", "k", 0>>
    BY <1>4 DEF Key, LegacyKey
  <2>2. Item(w) = [cell |-> Cell(w), key |-> "k"]
    BY <1>1, <1>4 DEF Items
  <2>3. Claims(Cell(w))
    BY <1>1, <2>2 DEF Claims, Item
  <2>4. \A c \in Cells : Names(<<"client", "k", 0>>, c) => Claims(c)
    BY DEF Names
  <2> QED
    BY <1>1, <2>1, <2>3, <2>4 DEF Names, KeysNameCells
<1> QED
  BY <1>1, <1>2, <1>3, <1>4 DEF Items, Kinds

\* The item in hand is the same.
LEMMA SameItem ==
  ASSUME NEW w \in Workers, Goes(w)
  PROVE  Cell(w)' = Cell(w) /\ \A st : Key(w, st)' = Key(w, st)
  BY DEF Goes, Cell, Item, Key

\* An item answered with a finding of its cell leaves the cell covered.
LEMMA AnswerAlone ==
  ASSUME Shape, Shape', IdInv, NEW w \in Workers, NEW r \in SUBSET Nat, Answer(w, r),
         tx[w].pc \in Busy, UNCHANGED <<findings, idem, posture, history, lastId>>,
         View(w), Covered(w),
         KeysNameCells /\ tx[w].job.kind = "batch" => Cell(w) \in DOMAIN VPosture(w)
  PROVE  At(w)'
<1>1. Moves(w) /\ tx'[w].own = tx[w].own /\ ItemDone(tx'[w], w, r) /\ Light(w)
  BY AnswerFacts, AnswerLight DEF Shape
<1>2. View(w)'
  BY <1>1, ViewLight
<1>3. Plan(w)'
  BY <1>1 DEF ItemDone, Plan, Keyed, Rcw
<1>4. VPosture(w)' = VPosture(w) /\ tx'[w].job = tx[w].job
  BY <1>1, SameView DEF ItemDone
<1>5. tx[w].i \in Nat /\ tx[w].job.items \in Seq(Items) /\ Cell(w) = tx[w].job.items[tx[w].i].cell
  BY ItemFacts, JobsAssumption DEF Shape, Items, Cell, Item
<1>6. ASSUME NEW n \in DOMAIN tx[w].job.items, Behind(w, n)' PROVE n < tx[w].i \/ n = tx[w].i
  BY <1>1, <1>5, <1>6 DEF Behind, ItemDone, Last
<1>7. Covered(w)'
  BY <1>4, <1>5, <1>6 DEF Covered, Behind, KeysNameCells, Claims
<1> QED
  BY <1>1, <1>2, <1>3, <1>7 DEF At, ItemDone

\* A step inside an item needs its Plan only.
LEMMA ForwardAlone ==
  ASSUME Shape, Shape', IdInv, NEW w \in Workers, Light(w), Goes(w),
         tx[w].pc \in Busy, tx'[w].pc \in Busy, Plan(w)', View(w), Covered(w)
  PROVE  At(w)'
<1>1. View(w)'
  BY ViewLight DEF Goes
<1>2. VPosture(w)' = VPosture(w) /\ tx'[w].job = tx[w].job /\ tx'[w].i = tx[w].i
  BY SameView DEF Goes, Light
<1>3. Covered(w)'
  BY <1>2 DEF Covered, Behind, KeysNameCells, Claims, Busy
<1> QED
  BY <1>1, <1>3 DEF At, Busy

\* Leaving takes the view along.
LEMMA LeaveAlone ==
  ASSUME Shape, NEW w \in Workers, Rollback(w)
  PROVE  At(w)'
<1>1. tx'[w] = Idle
  BY RollbackFacts DEF Shape
<1> QED
  BY <1>1, IdleType DEF At, Idle

\* An exception loses no cell: a batch tries it again as unverifiable.
LEMMA RaisedAlone ==
  ASSUME Shape, Shape', IdInv, NEW w \in Workers, Raised(w), ~tx[w].unverifiable,
         tx[w].pc \in Busy, UNCHANGED <<findings, idem, posture, history, lastId>>,
         View(w), Covered(w)
  PROVE  At(w)'
<1>1. CASE Goes(w) /\ tx'[w].pc = "item"
  <2>1. Plan(w)'
    BY <1>1 DEF Plan, Keyed, Rcw
  <2>2. Light(w)
    BY RaisedLight
  <2> QED
    BY <1>1, <2>1, <2>2, ForwardAlone DEF Busy
<1>2. CASE tx[w].job.kind = "schedule" /\ Answer(w, {})
  BY <1>2, AnswerAlone
<1>3. CASE Rollback(w)
  BY <1>3, LeaveAlone
<1> QED
  BY <1>1, <1>2, <1>3, RaisedFacts DEF Shape

\* A record found by a key of the cell: the cell has a posture row.
LEMMA FoundIsCovered ==
  ASSUME Shape, NEW w \in Workers, tx[w].pc \in Busy, View(w), NEW st, NEW b \in BOOLEAN,
         Existing(w, Key(w, st), b) # {}, KeysNameCells, tx[w].job.kind = "batch"
  PROVE  Cell(w) \in DOMAIN VPosture(w)
<1>1. \E k \in DOMAIN IdemSeen(w) : Names(k, Cell(w))
  BY KeyMeaning DEF Existing
<1> QED
  BY <1>1, ItemFacts DEF View, Homed, Shape

\* A request begins on what was committed.
LEMMA BeginAlone ==
  ASSUME Shape, Shape', NEW w \in Workers, Base, Begin(w)
  PROVE  At(w)'
<1>1. UNCHANGED <<findings, idem, posture, history, lastId>>
  BY DEF Begin, db
<1>2. PICK j \in Jobs : tx' = [tx EXCEPT ![w] = [Idle EXCEPT !.pc = "item", !.job = j,
                                                   !.number = begun + 1, !.i = 1]]
  BY DEF Begin
<1>3. tx'[w].pc = "item" /\ tx'[w].own = NoWrites /\ tx'[w].job = j /\ tx'[w].i = 1
  BY <1>2, BeginFacts DEF Shape
<1>4. /\ VFindings(w)' = findings /\ VPosture(w)' = posture
      /\ VHistory(w)' = history /\ IdemSeen(w)' = idem
  BY <1>1, <1>3, NoView
<1>5. Consistent(VFindings(w), VPosture(w), VHistory(w))'
  BY <1>4 DEF Base, Consistent, OpenIn
<1>6. Homed(DOMAIN IdemSeen(w), VPosture(w))'
  BY <1>4 DEF Base, Homed, Names, Claims, KeysNameCells
<1>7. Roof(w)' = lastId + 1
  BY <1>1, <1>3 DEF Roof, Rcw
<1>8. View(w)'
  BY <1>1, <1>3, <1>4, <1>5, <1>6, <1>7, NoRows DEF Base, Below, View
<1>9. Plan(w)' /\ Covered(w)'
  <2>1. \A n \in DOMAIN j.items : ~(n < 1)
    BY JobsAssumption
  <2> QED
    BY <1>3, <2>1 DEF Plan, Covered, Behind, Keyed, Rcw
<1> QED
  BY <1>3, <1>8, <1>9 DEF At

\* Lookup.
LEMMA LookupAlone ==
  ASSUME Shape, Shape', IdInv, NEW w \in Workers, Lookup(w), View(w), Plan(w), Covered(w)
  PROVE  At(w)'
<1>1. /\ UNCHANGED <<findings, idem, posture, history, lastId>>
      /\ tx[w].pc = "item" /\ tx[w].pc \in Busy
  BY DEF Lookup, db, Busy
<1>2. PICK st \in Marks, k \in DbKeys, renew \in BOOLEAN :
           /\ k = Key(w, st)
           /\ \/ /\ \E r \in SUBSET Nat : Answer(w, r)
                 /\ Existing(w, k, TRUE) # {}
              \/ WentOn(w, k, renew, st)
  BY LookupFound
<1>3. CASE (\E r \in SUBSET Nat : Answer(w, r)) /\ Existing(w, k, TRUE) # {}
  <2>1. KeysNameCells /\ tx[w].job.kind = "batch" => Cell(w) \in DOMAIN VPosture(w)
    BY <1>1, <1>2, <1>3, FoundIsCovered
  <2> QED
    BY <1>1, <1>3, <2>1, AnswerAlone
<1>4. CASE WentOn(w, k, renew, st)
  <2>1. Goes(w) /\ tx'[w].pc \in {"collect", "store"} /\ tx'[w].key = k
    BY <1>4 DEF WentOn
  <2>2. Light(w)
    BY <1>1, <2>1 DEF Light, Goes, Rcw
  <2>3. Plan(w)'
    BY <1>2, <2>1, SameItem DEF Plan, Keyed, Rcw
  <2> QED
    BY <1>1, <2>1, <2>2, <2>3, ForwardAlone DEF Busy
<1> QED
  BY <1>2, <1>3, <1>4

\* Collect.
LEMMA CollectAlone ==
  ASSUME Shape, Shape', IdInv, NEW w \in Workers, Collect(w), View(w), Plan(w), Covered(w)
  PROVE  At(w)'
<1>1. /\ UNCHANGED <<findings, idem, posture, history, lastId>>
      /\ tx[w].pc = "collect" /\ tx[w].pc \in Busy
  BY DEF Collect, db, Busy
<1>2. CASE Raised(w)
  <2>1. ~tx[w].unverifiable
    BY <1>1 DEF Shape, PcInv, PcAt
  <2> QED
    BY <1>1, <1>2, <2>1, RaisedAlone
<1>3. CASE \E v \in Verdicts : tx' = [tx EXCEPT ![w].pc = "store", ![w].status = v]
  <2>1. Goes(w) /\ tx'[w].pc = "store" /\ tx'[w].key = tx[w].key
    BY <1>3, CollectFacts DEF Shape
  <2>2. Light(w)
    BY <1>1, <2>1 DEF Light, Goes, Rcw
  <2>3. Plan(w)'
    BY <1>1, <2>1, SameItem DEF Plan, Keyed, Rcw
  <2> QED
    BY <1>1, <2>1, <2>2, <2>3, ForwardAlone DEF Busy
<1> QED
  BY <1>2, <1>3 DEF Collect

\* StoreArtifact.
LEMMA StoreAlone ==
  ASSUME Shape, Shape', IdInv, NEW w \in Workers, StoreArtifact(w), View(w), Plan(w), Covered(w)
  PROVE  At(w)'
<1>1. /\ UNCHANGED <<findings, idem, posture, history>>
      /\ tx[w].pc = "store" /\ tx[w].pc \in Busy
  BY DEF StoreArtifact, db, Busy
<1>2. PICK st \in Marks : tx[w].key = Key(w, st)
  BY <1>1 DEF Plan, Keyed
<1>3. CASE ~tx[w].renew /\ Existing(w, tx[w].key, FALSE) # {} /\ UNCHANGED lastId
           /\ Answer(w, IF tx[w].renew THEN {} ELSE Existing(w, tx[w].key, FALSE))
  <2>1. PICK r \in SUBSET Nat : r = IF tx[w].renew THEN {} ELSE Existing(w, tx[w].key, FALSE)
    BY ExistingType DEF Shape
  <2>2. Answer(w, r)
    BY <1>3, <2>1
  <2>3. KeysNameCells /\ tx[w].job.kind = "batch" => Cell(w) \in DOMAIN VPosture(w)
    BY <1>1, <1>2, <1>3, FoundIsCovered
  <2> QED
    BY <1>1, <1>3, <2>2, <2>3, AnswerAlone
<1>4. CASE /\ tx[w].renew \/ Existing(w, tx[w].key, FALSE) = {}
           /\ lastId' = lastId + 1 /\ tx' = [tx EXCEPT ![w].pc = "read", ![w].id = lastId + 1]
  <2>1. /\ Goes(w) /\ tx'[w].pc = "read" /\ tx'[w].key = tx[w].key /\ tx'[w].id = lastId + 1
        /\ tx'[w].renew = tx[w].renew
    BY <1>4, StoreFacts DEF Shape
  <2>2. Light(w)
    BY <1>1, <1>4, <2>1 DEF Light, Goes
  <2>3. IdemSeen(w)' = IdemSeen(w)
    BY <1>1, <2>1, SameView DEF Goes
  <2>4. tx[w].renew \/ tx[w].key \notin DOMAIN IdemSeen(w)
    BY <1>4 DEF Existing
  <2>5. Plan(w)'
    BY <1>2, <2>1, <2>3, <2>4, SameItem DEF Plan, Keyed, Rcw
  <2> QED
    BY <1>1, <2>1, <2>2, <2>5, ForwardAlone DEF Busy
<1>5. CASE ~tx[w].unverifiable /\ UNCHANGED lastId /\ Raised(w)
  BY <1>1, <1>5, RaisedAlone
<1> QED
  BY <1>3, <1>4, <1>5 DEF StoreArtifact

\* ReadPosture.
LEMMA ReadAlone ==
  ASSUME Shape, Shape', IdInv, NEW w \in Workers, ReadPosture(w), View(w), Plan(w), Covered(w)
  PROVE  At(w)'
<1>1. /\ UNCHANGED <<findings, idem, posture, history, lastId>>
      /\ tx[w].pc = "read" /\ tx[w].pc \in Busy
  BY DEF ReadPosture, db, Busy
<1>2. PICK seen \in Marks : ReadTo(w, seen)
  BY ReadMove
<1>3. Goes(w) /\ Light(w)
  BY <1>1, <1>2 DEF ReadTo, Light, Goes, Rcw
<1>4. IdemSeen(w)' = IdemSeen(w) /\ VPosture(w)' = VPosture(w)
  BY <1>1, <1>3, SameView DEF Goes
<1>5. seen = Seen(w)' /\ tx[w].targets = {}
  BY <1>1, <1>2, <1>3, <1>4, SeenIsStatus, SameItem DEF ReadTo, Seen, Shape, PcInv, PcAt
<1>6. Plan(w)'
  <2>1. PICK st \in Marks : tx[w].key = Key(w, st)
    BY <1>1 DEF Plan, Keyed, Rcw
  <2>2. tx[w].renew \/ tx[w].key \notin DOMAIN IdemSeen(w)
    BY <1>1 DEF Plan, Rcw
  <2> QED
    BY <1>2, <1>3, <1>4, <1>5, <2>1, <2>2, SameItem DEF ReadTo, Plan, Keyed, Rcw
<1>7. tx'[w].pc \in Busy
  BY <1>2 DEF ReadTo, Busy
<1> QED
  BY <1>1, <1>3, <1>6, <1>7, ForwardAlone

\* CloseHistory.
LEMMA CloseAlone ==
  ASSUME Shape, Shape', IdInv, NEW w \in Workers, CloseHistory(w), View(w), Plan(w), Covered(w)
  PROVE  At(w)'
<1>1. /\ UNCHANGED <<findings, idem, posture, history, lastId>>
      /\ tx[w].pc = "close" /\ tx[w].pc \in Busy
  BY DEF CloseHistory, db, Busy
<1>2. ClosedTo(w)
  BY CloseMove
<1>3. Goes(w) /\ Light(w)
  BY <1>1, <1>2 DEF ClosedTo, Light, Goes, Rcw
<1>4. IdemSeen(w)' = IdemSeen(w) /\ VPosture(w)' = VPosture(w) /\ VHistory(w)' = VHistory(w)
  BY <1>1, <1>3, SameView DEF Goes
<1>5. Seen(w)' = Seen(w) /\ OpenIn(VHistory(w), Cell(w))' = tx'[w].targets
  BY <1>2, <1>3, <1>4, SameItem DEF ClosedTo, Seen, OpenIn, VHistory
<1>6. Plan(w)'
  <2>1. PICK st \in Marks : tx[w].key = Key(w, st)
    BY <1>1 DEF Plan, Keyed, Rcw
  <2>2. /\ tx[w].renew \/ tx[w].key \notin DOMAIN IdemSeen(w)
        /\ tx[w].seen = Seen(w) /\ tx[w].seen # tx[w].status
    BY <1>1 DEF Plan, Rcw
  <2> QED
    BY <1>2, <1>3, <1>4, <1>5, <2>1, <2>2, SameItem DEF ClosedTo, Plan, Keyed, Rcw
<1>7. tx'[w].pc \in Busy
  BY <1>2 DEF ClosedTo, Busy
<1> QED
  BY <1>1, <1>3, <1>6, <1>7, ForwardAlone

\* A savepoint gives its cell the finding and the status; other cells keep theirs.
LEMMA WroteRows ==
  ASSUME Shape, IdInv, NEW w \in Workers, Wrote(w), Plan(w)
  PROVE  /\ VFindings(w)' = VFindings(w) \cup {RowOf(w)}
         /\ DOMAIN IdemSeen(w)' = DOMAIN IdemSeen(w) \cup {tx[w].key}
         /\ DOMAIN VPosture(w)' = DOMAIN VPosture(w) \cup {Cell(w)}
         /\ \A c \in DOMAIN VPosture(w) : c # Cell(w) => VPosture(w)'[c] = VPosture(w)[c]
         /\ VPosture(w)'[Cell(w)].status = tx[w].status
         /\ VPosture(w)'[Cell(w)].finding = tx[w].id
         /\ tx[w].seen = tx[w].status =>
              Cell(w) \in DOMAIN VPosture(w) /\ VPosture(w)[Cell(w)].status = tx[w].status
<1>1. /\ UNCHANGED <<findings, idem, posture, history, lastId>>
      /\ Saved(w, tx'[w].own) /\ tx[w].pc = "write"
  BY DEF Wrote
<1>2. VFindings(w)' = VFindings(w) \cup {RowOf(w)}
  BY <1>1 DEF VFindings, Saved
<1>3. DOMAIN IdemSeen(w)' = DOMAIN IdemSeen(w) \cup {tx[w].key}
  BY <1>1 DEF IdemSeen, Saved, Over, Entry
<1> DEFINE p == tx[w].own.posture
           c == Cell(w)
           q == tx'[w].own.posture
<1>4. /\ DOMAIN q = DOMAIN p \cup {c} /\ q[c] = Kept(w)
      /\ \A x \in DOMAIN p : x # c => q[x] = p[x]
  BY <1>1 DEF Saved, Over, Entry
<1>5. DOMAIN VPosture(w)' = DOMAIN VPosture(w) \cup {c}
  BY SMTT(45), <1>1, <1>4 DEF VPosture, Filled, Over
<1>6. ASSUME NEW x \in DOMAIN VPosture(w), x # c PROVE VPosture(w)'[x] = VPosture(w)[x]
  BY <1>1, <1>4, <1>6 DEF VPosture, Filled, Over
<1>7. VPosture(w)'[c] = [Kept(w) EXCEPT !.status = IF @ = "unchanged" THEN posture[c].status ELSE @]
  BY <1>1, <1>4 DEF VPosture, Filled, Over
<1>8. /\ VPosture(w)'[c].finding = tx[w].id
      /\ VPosture(w)'[c].status =
           IF Kept(w).status = "unchanged" THEN posture[c].status ELSE Kept(w).status
  BY <1>7 DEF Kept
<1>9. tx[w].status \in Statuses /\ "unchanged" \notin Statuses /\ "none" \notin Statuses
  BY <1>1 DEF Shape, PcInv, PcAt, Rcw, Statuses, Verdicts
<1>10. tx[w].seen = tx[w].status => c \in DOMAIN VPosture(w) /\ VPosture(w)[c].status = tx[w].status
  BY <1>1, <1>9 DEF Plan, Seen
<1>11. VPosture(w)'[c].status = tx[w].status
  <2>1. CASE tx[w].seen # tx[w].status
    BY <1>8, <1>9, <2>1 DEF Kept
  <2>2. CASE tx[w].seen = tx[w].status /\ c \in DOMAIN p
    <3>1. Kept(w).status = p[c].status
      BY <2>2 DEF Kept
    <3>2. VPosture(w)[c].status = IF p[c].status = "unchanged" THEN posture[c].status ELSE p[c].status
      BY <2>2, ViewFacts
    <3> QED
      BY <1>8, <1>10, <2>2, <3>1, <3>2
  <2>3. CASE tx[w].seen = tx[w].status /\ c \notin DOMAIN p
    <3>1. Kept(w).status = "unchanged"
      BY <2>3 DEF Kept
    <3>2. VPosture(w)[c] = posture[c]
      BY <1>10, <2>3, ViewFacts
    <3> QED
      BY <1>8, <1>10, <2>3, <3>1, <3>2
  <2> QED
    BY <2>1, <2>2, <2>3
<1> QED
  BY <1>2, <1>3, <1>5, <1>6, <1>8, <1>10, <1>11

\* On a transition it closes the open interval of the cell and opens one.
LEMMA WroteHistory ==
  ASSUME Shape, NEW w \in Workers, Wrote(w), Plan(w), Below(w, tx[w].id)
  PROVE  /\ \A c \in Cells : c # Cell(w) \/ tx[w].seen = tx[w].status =>
              OpenIn(VHistory(w)', c) = OpenIn(VHistory(w), c)
         /\ tx[w].seen # tx[w].status => OpenIn(VHistory(w)', Cell(w)) = {OpenedBy(w)}
         /\ tx[w].targets \subseteq history \cup tx[w].own.opened
<1>1. /\ history' = history /\ tx[w].pc = "write"
      /\ tx'[w].own.closed = tx[w].own.closed \cup tx[w].targets
      /\ tx'[w].own.opened = IF tx[w].seen = tx[w].status THEN tx[w].own.opened
                             ELSE tx[w].own.opened \cup {OpenedBy(w)}
  BY DEF Wrote, Saved
<1>2. tx[w].targets = IF tx[w].seen = tx[w].status THEN {} ELSE OpenIn(VHistory(w), Cell(w))
  BY <1>1 DEF Plan
<1>3. tx[w].targets \subseteq history \cup tx[w].own.opened
  BY <1>2 DEF OpenIn, VHistory
<1>4. CASE tx[w].seen = tx[w].status
  <2>1. VHistory(w)' = VHistory(w)
    BY <1>1, <1>2, <1>4 DEF VHistory
  <2> QED
    BY <1>3, <1>4, <2>1
<1>5. CASE tx[w].seen # tx[w].status
  <2>1. /\ OpenedBy(w).cell = Cell(w) /\ OpenedBy(w).open /\ OpenedBy(w).finding = tx[w].id
    BY DEF OpenedBy
  <2>2. tx[w].id \in Nat /\ ~(tx[w].id < tx[w].id)
    BY DEF Shape, TypeOK, Tx
  <2>3. OpenedBy(w) \notin tx[w].own.closed \cup tx[w].targets
    BY <1>3, <2>1, <2>2 DEF Below
  <2>4. VHistory(w)' = (VHistory(w) \ tx[w].targets) \cup {OpenedBy(w)}
    BY <1>1, <1>5, <2>3 DEF VHistory
  <2>5. OpenIn(VHistory(w)', Cell(w)) = {OpenedBy(w)}
    BY <1>2, <1>5, <2>1, <2>4 DEF OpenIn
  <2>6. ASSUME NEW c \in Cells, c # Cell(w)
        PROVE  OpenIn(VHistory(w)', c) = OpenIn(VHistory(w), c)
    BY <1>2, <1>5, <2>1, <2>4, <2>6 DEF OpenIn
  <2> QED
    BY <1>3, <1>5, <2>5, <2>6
<1> QED
  BY <1>4, <1>5

\* So it keeps the view consistent.
LEMMA WroteAlone ==
  ASSUME Shape, Shape', IdInv, NEW w \in Workers, Wrote(w), View(w), Plan(w), Covered(w)
  PROVE  At(w)'
<1>1. /\ UNCHANGED <<findings, idem, posture, history, lastId>>
      /\ Saved(w, tx'[w].own) /\ tx[w].pc = "write" /\ tx[w].pc \in Busy
      /\ ItemDone(tx'[w], w, {tx[w].id}) /\ tx'[w].pc \notin Rcw
  BY DEF Wrote, Busy, ItemDone, Rcw
<1>2. tx[w].id \in 0..lastId /\ lastId \in Nat /\ Below(w, tx[w].id)
  BY <1>1 DEF IdInv, IdAt, View, Roof, Rcw, Shape, TypeOK
<1>3. /\ VFindings(w)' = VFindings(w) \cup {RowOf(w)}
      /\ DOMAIN IdemSeen(w)' = DOMAIN IdemSeen(w) \cup {tx[w].key}
      /\ DOMAIN VPosture(w)' = DOMAIN VPosture(w) \cup {Cell(w)}
      /\ \A c \in DOMAIN VPosture(w) : c # Cell(w) => VPosture(w)'[c] = VPosture(w)[c]
      /\ VPosture(w)'[Cell(w)].status = tx[w].status
      /\ VPosture(w)'[Cell(w)].finding = tx[w].id
      /\ tx[w].seen = tx[w].status =>
           Cell(w) \in DOMAIN VPosture(w) /\ VPosture(w)[Cell(w)].status = tx[w].status
  BY WroteRows
<1>4. /\ \A c \in Cells : c # Cell(w) \/ tx[w].seen = tx[w].status =>
           OpenIn(VHistory(w)', c) = OpenIn(VHistory(w), c)
      /\ tx[w].seen # tx[w].status => OpenIn(VHistory(w)', Cell(w)) = {OpenedBy(w)}
      /\ tx[w].targets \subseteq history \cup tx[w].own.opened
  BY <1>2, WroteHistory
<1>5. /\ DOMAIN VPosture(w) \subseteq Cells /\ Cell(w) \in Cells
      /\ \A c \in DOMAIN VPosture(w) : VPosture(w)[c].finding \in Nat
  BY ZenonT(60), <1>1, FilledType, ViewFacts, ItemFacts DEF Partial, Shape
<1>6. RowOf(w).id = tx[w].id /\ RowOf(w).status = tx[w].status
      /\ OpenedBy(w).status = tx[w].status /\ OpenedBy(w).finding = tx[w].id
  BY DEF RowOf, OpenedBy
<1>7. \A H, c : OpenIn(H, c) \subseteq H
  BY DEF OpenIn
<1>8. ASSUME NEW c \in DOMAIN VPosture(w)'
      PROVE  /\ \A f \in VFindings(w)' :
                  f.id = VPosture(w)'[c].finding => VPosture(w)'[c].status = f.status
             /\ \E h \in VHistory(w)' : OpenIn(VHistory(w)', c) = {h} /\ h.status = VPosture(w)'[c].status
  <2>1. CASE c = Cell(w)
    <3>1. \A f \in VFindings(w) : f.id # tx[w].id
      BY <1>2 DEF Below
    <3>2. CASE tx[w].seen = tx[w].status
      BY <1>3, <1>4, <1>5, <1>6, <1>7, <2>1, <3>1, <3>2 DEF View, Consistent
    <3>3. CASE tx[w].seen # tx[w].status
      BY <1>3, <1>4, <1>6, <1>7, <2>1, <3>1, <3>3
    <3> QED
      BY <3>2, <3>3
  <2>2. CASE c # Cell(w)
    <3>1. c \in DOMAIN VPosture(w) /\ VPosture(w)'[c] = VPosture(w)[c]
      BY <1>3, <2>2
    <3>2. VPosture(w)[c].finding # tx[w].id
      BY <1>2, <1>5, <3>1 DEF Below
    <3>3. OpenIn(VHistory(w)', c) = OpenIn(VHistory(w), c)
      BY <1>4, <1>5, <2>2, <3>1
    <3> QED
      BY <1>3, <1>6, <1>7, <3>1, <3>2, <3>3 DEF View, Consistent
  <2> QED
    BY <2>1, <2>2
<1>9. Consistent(VFindings(w), VPosture(w), VHistory(w))'
  BY <1>8 DEF Consistent, OpenIn
<1>10. Homed(DOMAIN IdemSeen(w), VPosture(w))'
  <2> SUFFICES ASSUME KeysNameCells, NEW k \in DOMAIN IdemSeen(w)', NEW c \in Cells, Names(k, c)
               PROVE  c \in DOMAIN VPosture(w)'
    BY DEF Homed, KeysNameCells, Names, Claims
  <2>1. PICK st \in Marks : tx[w].key = Key(w, st)
    BY <1>1 DEF Plan, Keyed, Rcw
  <2>2. CASE k = tx[w].key
    BY <1>1, <1>3, <2>1, <2>2, KeyMeaning
  <2>3. CASE k \in DOMAIN IdemSeen(w)
    BY <1>3, <2>3 DEF View, Homed
  <2> QED
    BY <1>3, <2>2, <2>3
<1>11. Below(w, lastId + 1)'
  <2>0. Below(w, lastId + 1)
    BY <1>2, BelowLater
  <2>1. tx[w].id < lastId + 1
    BY <1>2
  <2>2. \A f \in VFindings(w)' : f.id < lastId + 1
    BY <1>3, <1>6, <2>0, <2>1 DEF Below
  <2>3. \A c \in DOMAIN VPosture(w)' : VPosture(w)'[c].finding < lastId + 1
    BY <1>3, <2>0, <2>1 DEF Below
  <2>4. \A h \in (history \cup tx[w].own.opened \cup tx[w].own.closed)' : h.finding < lastId + 1
    BY <1>1, <1>4, <1>6, <2>0, <2>1 DEF Below, Saved
  <2> QED
    BY <1>1, <2>2, <2>3, <2>4 DEF Below
<1>12. View(w)'
  BY <1>1, <1>9, <1>10, <1>11 DEF View, Roof
<1>13. Plan(w)'
  BY SMTT(45), <1>1 DEF ItemDone, Plan, Keyed, Rcw
<1>14. Covered(w)'
  <2>1. tx[w].i \in Nat /\ tx[w].job.items \in Seq(Items) /\ Cell(w) = tx[w].job.items[tx[w].i].cell
    BY <1>1, ItemFacts, JobsAssumption DEF Shape, Items, Cell, Item
  <2>2. ASSUME NEW n \in DOMAIN tx[w].job.items, Behind(w, n)' PROVE n < tx[w].i \/ n = tx[w].i
    BY <1>1, <2>1, <2>2 DEF Behind, ItemDone, Last
  <2> QED
    BY <1>1, <1>3, <2>1, <2>2 DEF Covered, Behind, KeysNameCells, Claims, ItemDone
<1> QED
  BY <1>1, <1>12, <1>13, <1>14 DEF At, ItemDone

\* Alone, a savepoint meets no conflict.
LEMMA WriteAlone ==
  ASSUME Shape, Shape', IdInv, NEW w \in Workers, Write(w), View(w), Plan(w), Covered(w)
  PROVE  At(w)'
<1>1. /\ UNCHANGED <<findings, idem, posture, history, lastId>>
      /\ tx[w].pc = "write" /\ \A v \in Workers : ~Blocks(v, w)
  BY DEF Write, db
<1>2. ~Conflict(w)
  <2>1. tx[w].renew \/ tx[w].key \notin DOMAIN IdemSeen(w)
    BY <1>1 DEF Plan, Rcw
  <2>2. Cell(w) \in DOMAIN posture => tx[w].seen # "none"
    BY <1>1, ViewFacts DEF Plan, Seen, Statuses, Verdicts
  <2> QED
    BY <2>1, <2>2 DEF Conflict
<1>3. Written(w)
  BY <1>2 DEF Write
<1>4. Wrote(w)
  BY <1>1, <1>2, <1>3, WrittenRows
<1> QED
  BY <1>4, WroteAlone

\* A commit makes the view the committed state.
LEMMA CommitAlone ==
  ASSUME Shape, Shape', NEW w \in Workers, Committed(w), View(w), Plan(w), Covered(w)
  PROVE  Base' /\ At(w)'
<1>1. /\ tx[w].pc = "commit" /\ tx'[w].pc = "done" /\ tx'[w].own = NoWrites
      /\ UNCHANGED lastId /\ tx'[w].job = tx[w].job
      /\ findings' = VFindings(w) /\ posture' = VPosture(w) /\ idem' = IdemSeen(w)
      /\ history' = {IF h \in tx[w].own.closed THEN [h EXCEPT !.open = FALSE] ELSE h :
                       h \in history \cup tx[w].own.opened}
  BY DEF Committed, VFindings, IdemSeen
<1>2. /\ VFindings(w)' = findings' /\ VPosture(w)' = posture'
      /\ VHistory(w)' = history' /\ IdemSeen(w)' = idem'
  BY <1>1, NoView
<1>3. \A h \in history \cup tx[w].own.opened :
        LET g == [h EXCEPT !.open = FALSE]
        IN  ~g.open /\ g.finding = h.finding
  <2>1. history \cup tx[w].own.opened \subseteq IntervalRow
    BY DEF Shape, TypeOK, Tx, Own
  <2>2. \A h \in IntervalRow : LET g == [h EXCEPT !.open = FALSE] IN ~g.open /\ g.finding = h.finding
    BY DEF IntervalRow
  <2> QED
    BY <2>1, <2>2
<1>4. ASSUME NEW c \in Cells PROVE OpenIn(history', c) = OpenIn(VHistory(w), c)
  BY <1>1, <1>3 DEF OpenIn, VHistory
<1>5. \A h \in history' : h.finding < lastId + 1
  <2>1. \A h \in history \cup tx[w].own.opened : h.finding < lastId + 1
    BY <1>1 DEF View, Below, Roof, Rcw
  <2> QED
    BY <1>1, <1>3, <2>1
<1>6. Consistent(findings', posture', history')
  <2>1. DOMAIN VPosture(w) \subseteq Cells
    BY FilledType DEF Partial
  <2>2. ASSUME NEW c \in DOMAIN VPosture(w)
        PROVE  \E h \in history' : OpenIn(history', c) = {h} /\ h.status = VPosture(w)[c].status
    <3>1. PICK h \in VHistory(w) : OpenIn(VHistory(w), c) = {h} /\ h.status = VPosture(w)[c].status
      BY DEF View, Consistent
    <3>2. OpenIn(history', c) = {h}
      BY <1>4, <2>1, <3>1
    <3>3. h \in history'
      BY <3>2 DEF OpenIn
    <3> QED
      BY <3>1, <3>2, <3>3
  <2> QED
    BY <1>1, <2>2 DEF View, Consistent
<1>7. Homed(DOMAIN idem', posture')
  BY <1>1 DEF View
<1>8. Base'
  <2>1. /\ \A f \in findings' : f.id < lastId + 1
        /\ \A c \in DOMAIN posture' : posture'[c].finding < lastId + 1
    BY <1>1 DEF View, Below, Roof, Rcw
  <2> QED
    BY <1>1, <1>5, <1>6, <1>7, <2>1 DEF Base, Consistent, OpenIn, Homed, Names, Claims, KeysNameCells
<1>9. View(w)'
  <2>1. Consistent(VFindings(w)', VPosture(w)', VHistory(w)')
    BY <1>2, <1>6
  <2>2. Homed(DOMAIN IdemSeen(w)', VPosture(w)')
    BY <1>2, <1>7
  <2>3. Below(w, lastId + 1)'
    BY <1>1, <1>2, <1>8, NoRows DEF Below, Base
  <2>4. Roof(w)' = lastId + 1
    BY <1>1 DEF Roof, Rcw
  <2> QED
    BY <1>1, <2>1, <2>2, <2>3, <2>4 DEF View, Consistent, OpenIn, Homed, Names, Claims, KeysNameCells
<1>10. Plan(w)' /\ Covered(w)'
  BY <1>1, <1>2 DEF Plan, Covered, Behind, Keyed, Rcw, KeysNameCells, Claims
<1> QED
  BY <1>1, <1>8, <1>9, <1>10 DEF At

\* A step that commits nothing keeps the committed state.
LEMMA BaseStays ==
  ASSUME Shape, Base, UNCHANGED <<findings, idem, posture, history>>,
         lastId' = lastId \/ lastId' = lastId + 1
  PROVE  Base'
<1>1. lastId \in Nat
  BY DEF Shape, TypeOK
<1>2. \A n \in Nat : n < lastId + 1 => n < lastId' + 1
  BY <1>1
<1>3. \A f \in findings : f.id \in Nat
  BY DEF Shape, TypeOK, FindingRow
<1>4. \A h \in history : h.finding \in Nat
  BY DEF Shape, TypeOK, IntervalRow
<1>5. PICK D \in SUBSET Cells : posture \in [D -> PostureRow]
  BY DEF Shape, TypeOK, Partial
<1>6. \A c \in DOMAIN posture : posture[c].finding \in Nat
  BY <1>5 DEF PostureRow
<1>7. /\ (\A f \in findings : f.id < lastId + 1)'
      /\ (\A c \in DOMAIN posture : posture[c].finding < lastId + 1)'
      /\ (\A h \in history : h.finding < lastId + 1)'
  BY <1>2, <1>3, <1>4, <1>6 DEF Base
<1> QED
  BY <1>7 DEF Base, Consistent, OpenIn, Homed, Names, Claims, KeysNameCells

\* Every step of the only transaction keeps Alone.
LEMMA MoveAlone ==
  ASSUME Shape, Shape', IdInv, Alone, NEW w \in Workers, Begin(w) \/ Step(w) \/ Abort(w),
         ~overlapped'
  PROVE  Alone'
<1>1. \A v \in Workers \ {w} : tx[v].pc = "idle"
  <2>1. CASE Begin(w)
    <3>1. \A v \in Workers : tx[v].pc = "idle"
      BY <2>1 DEF Begin
    <3> QED
      BY <3>1
  <2>2. CASE tx[w].pc # "idle"
    BY <2>2 DEF Alone, Solo
  <2>3. tx[w].pc = "idle" => Begin(w)
    BY DEF Step, Abort, Lookup, Collect, StoreArtifact, ReadPosture, CloseHistory, Write,
       Deadlock, Blocks, Commit, Respond
  <2> QED
    BY <2>1, <2>2, <2>3
<1>2. \A v \in Workers \ {w} : tx[v].own = NoWrites
  BY <1>1 DEF Alone, At
<1>3. Moves(w)
  BY StepKinds DEF Light, Wrote, Committed
<1>4. Solo'
  BY <1>1, <1>3 DEF Solo, Moves
<1>5. ASSUME NEW v \in Workers, v # w PROVE At(v)'
  BY <1>1, <1>2, <1>3, <1>5 DEF At, Moves
<1>6. ~Deadlock(w)
  BY <1>2, NoRows DEF Deadlock, Blocks
<1>7. tx[w].pc # "idle" => View(w) /\ Plan(w) /\ Covered(w)
  BY DEF Alone, At
<1>8. Base' /\ At(w)'
  <2>1. CASE Commit(w)
    <3>1. tx[w].pc = "commit"
      BY <2>1 DEF Commit
    <3>2. Committed(w)
      BY <2>1, CommitRows
    <3> QED
      BY <1>7, <3>1, <3>2, CommitAlone
  <2>2. CASE ~Commit(w)
    <3>1. UNCHANGED <<findings, idem, posture, history>> /\ (lastId' = lastId \/ lastId' = lastId + 1)
      <4>1. tx[w].pc # "commit" \/ Abort(w)
        BY <2>2 DEF Begin, Step, Lookup, Collect, StoreArtifact, ReadPosture, CloseHistory, Write,
           Deadlock, Blocks, Commit, Respond
      <4>2. Abort(w) => UNCHANGED <<findings, idem, posture, history, lastId>>
        BY DEF Abort, db
      <4> QED
        BY <4>1, <4>2, StepKinds DEF Light, Wrote, Committed
    <3>2. Base'
      BY <3>1, BaseStays DEF Alone
    <3>3. CASE Begin(w)
      BY <3>2, <3>3, BeginAlone DEF Alone
    <3>4. CASE Respond(w) \/ Abort(w)
      BY <3>2, <3>4, LeaveAlone DEF Respond, Abort
    <3>5. CASE \/ Lookup(w) \/ Collect(w) \/ StoreArtifact(w) \/ ReadPosture(w)
               \/ CloseHistory(w) \/ Write(w)
      <4>1. View(w) /\ Plan(w) /\ Covered(w)
        BY <1>7, <3>5 DEF Lookup, Collect, StoreArtifact, ReadPosture, CloseHistory, Write
      <4> QED
        BY SMTT(45), <3>2, <3>5, <4>1, LookupAlone, CollectAlone, StoreAlone, ReadAlone, CloseAlone,
           WriteAlone
    <3> QED
      BY <1>6, <2>2, <3>3, <3>4, <3>5 DEF Step
  <2> QED
    BY <2>1, <2>2
<1> QED
  BY <1>4, <1>5, <1>8 DEF Alone

\* AloneInv is an invariant.
LEMMA AloneInvariant == Spec => []AloneInv
<1>1. Init => AloneInv
  <2> SUFFICES ASSUME Init PROVE Alone
    BY DEF AloneInv
  <2>1. Solo /\ \A w \in Workers : At(w)
    BY IdleType DEF Init, Solo, At, Idle
  <2>2. Consistent(findings, posture, history)
    <3> SUFFICES ASSUME NEW c \in Legacy
                 PROVE  /\ \A f \in findings : f.id = posture[c].finding => posture[c].status = f.status
                        /\ \E h \in history : OpenIn(history, c) = {h} /\ h.status = posture[c].status
      BY DEF Init, Consistent
    <3>1. posture[c].status = "fail" /\ \A f \in findings : f.status = "fail"
      BY DEF Init
    <3>2. PICK h \in history :
            h = [cell |-> c, finding |-> 0, status |-> "fail", open |-> TRUE]
      BY DEF Init
    <3>3. h.cell = c /\ h.open /\ h.status = "fail"
      BY <3>2
    <3>4. \A g \in history : g = h
      BY <3>2, LegacyAssumption DEF Init
    <3>5. OpenIn(history, c) = {h}
      BY <3>3, <3>4 DEF OpenIn
    <3> QED
      BY <3>1, <3>3, <3>5
  <2>3. Homed(DOMAIN idem, posture)
    BY DEF Init, Homed, Names
  <2>4. /\ \A f \in findings : f.id < lastId + 1
        /\ \A c \in DOMAIN posture : posture[c].finding < lastId + 1
        /\ \A h \in history : h.finding < lastId + 1
    BY DEF Init
  <2> QED
    BY <2>1, <2>2, <2>3, <2>4 DEF Alone, Base
<1>2. Shape /\ Shape' /\ IdInv /\ AloneInv /\ [Next]_vars => AloneInv'
  <2> SUFFICES ASSUME Shape, Shape', IdInv, AloneInv, [Next]_vars, ~overlapped' PROVE Alone'
    BY DEF AloneInv
  <2>1. ASSUME NEW w \in Workers, Begin(w) \/ Step(w) \/ Abort(w) PROVE Alone'
    <3>1. ~overlapped
      BY <2>1 DEF Begin, Step, Abort, Lookup, Collect, StoreArtifact, ReadPosture, CloseHistory,
         Write, Deadlock, Commit, Respond, begins
    <3> QED
      BY SMTT(45), <2>1, <3>1, MoveAlone DEF AloneInv
  <2>2. CASE UNCHANGED <<findings, idem, posture, history, lastId, overlapped, tx>>
    <3>1. Base'
      BY <2>2 DEF AloneInv, Alone, Base, Consistent, OpenIn, Homed, Names, Claims, KeysNameCells
    <3>2. Solo'
      BY <2>2 DEF AloneInv, Alone, Solo
    <3>3. ASSUME NEW w \in Workers PROVE At(w)'
      <4>1. /\ VFindings(w)' = VFindings(w) /\ VPosture(w)' = VPosture(w)
            /\ VHistory(w)' = VHistory(w) /\ IdemSeen(w)' = IdemSeen(w)
        BY <2>2, SameView
      <4>2. /\ Roof(w)' = Roof(w) /\ Cell(w)' = Cell(w) /\ Seen(w)' = Seen(w)
            /\ \A st : Key(w, st)' = Key(w, st)
        BY <2>2, <4>1 DEF Roof, Cell, Item, Seen, Key
      <4>3. At(w) /\ tx'[w] = tx[w] /\ UNCHANGED history
        BY <2>2 DEF AloneInv, Alone
      <4>4. View(w) => View(w)'
        BY <4>1, <4>2, <4>3 DEF View, Consistent, OpenIn, Homed, Names, Claims, KeysNameCells, Below
      <4>5. Plan(w) => Plan(w)'
        BY <4>1, <4>2, <4>3 DEF Plan, OpenIn
      <4>6. Covered(w) => Covered(w)'
        BY <4>1, <4>3 DEF Covered, Behind, KeysNameCells, Claims
      <4> QED
        BY <4>3, <4>4, <4>5, <4>6 DEF At
    <3> QED
      BY <3>1, <3>2, <3>3 DEF Alone
  <2>3. CASE Age \/ Quiet \/ UNCHANGED vars
    BY <2>2, <2>3 DEF Age, Quiet, vars, db, local, begins
  <2> QED
    BY <2>1, <2>3 DEF Next
<1> QED
  BY <1>1, <1>2, ShapeInv, IdInvariant, PTL DEF Spec

\* While transactions follow one another, the status of a cell is the status of
\* the finding it cites, and one open interval says the same.
THEOREM CellsAgreeAlone == Spec => []CellsAgree
<1>1. AloneInv => CellsAgree
  <2> SUFFICES ASSUME Alone
               PROVE  /\ CurrentIsCited
                      /\ \A c \in DOMAIN posture :
                           \E h \in history : /\ h.cell = c /\ h.open /\ h.status = posture[c].status
                                              /\ \A g \in history : g.cell = c /\ g.open => g = h
    BY DEF AloneInv, CellsAgree
  <2>1. Consistent(findings, posture, history)
    BY DEF Alone, Base
  <2>2. CurrentIsCited
    BY <2>1 DEF Consistent, CurrentIsCited
  <2>3. ASSUME NEW c \in DOMAIN posture
        PROVE  \E h \in history : /\ h.cell = c /\ h.open /\ h.status = posture[c].status
                                  /\ \A g \in history : g.cell = c /\ g.open => g = h
    <3>1. PICK h \in history : OpenIn(history, c) = {h} /\ h.status = posture[c].status
      BY <2>1 DEF Consistent
    <3>2. h \in OpenIn(history, c) /\ \A g \in OpenIn(history, c) : g = h
      BY <3>1
    <3> QED
      BY <3>1, <3>2 DEF OpenIn
  <2> QED
    BY <2>2, <2>3
<1> QED
  BY <1>1, AloneInvariant, PTL

\* A batch on its own leaves every cell it was asked about with a posture row,
\* if a key that callers give stands for one cell: a key reused for another cell
\* answers with the first one's finding.
THEOREM BatchCoversItsCells ==
  ASSUME KeysNameCells
  PROVE  Spec => []NoCellVanishes
<1>1. Shape /\ AloneInv => NoCellVanishes
  <2> SUFFICES ASSUME Shape, Alone, NEW w \in Workers, tx[w].pc = "done", tx[w].job.kind = "batch",
                      NEW n \in DOMAIN tx[w].job.items
               PROVE  tx[w].job.items[n].cell \in DOMAIN posture
    BY DEF AloneInv, NoCellVanishes
  <2>1. Plan(w) /\ Covered(w)
    BY DEF Alone, At
  <2>2. DOMAIN VPosture(w) = DOMAIN posture
    BY <2>1, NoRows, ViewFacts DEF Plan
  <2> QED
    BY <2>1, <2>2 DEF Covered, Behind
<1> QED
  BY <1>1, ShapeInv, AloneInvariant, PTL
=============================================================================

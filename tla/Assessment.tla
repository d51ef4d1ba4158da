------------------------------ MODULE Assessment ------------------------------
(***************************************************************************)
(* The write path of app/services/assessment.py under concurrent           *)
(* transactions at READ COMMITTED, one transaction per request or per      *)
(* scheduled run.  An item of a request is looked up by idempotency key,   *)
(* collected and evaluated, its artifact is put in the evidence store, and *)
(* one savepoint writes the EvidenceMeta, Finding, IdempotencyRecord,      *)
(* Posture and PostureHistory rows.                                        *)
(*                                                                         *)
(* A transaction reads committed rows under its own uncommitted ones.  A   *)
(* write waits for another transaction's uncommitted write to the same     *)
(* idempotency key or posture row; an ORM UPDATE carries only the columns  *)
(* that changed since the row was loaded.  Finding number n and evidence   *)
(* number n come from the same attempt.                                    *)
(***************************************************************************)
EXTENDS Naturals, Sequences, FiniteSets

CONSTANTS Workers,  \* concurrent requests and scheduler replicas
          Cells,    \* posture keys: tenant, control, source system, asset
          Jobs,     \* [kind, items]: what a request may ask for
          Legacy,   \* cells whose record has the pre-hash key format
          MaxTx     \* bound: transactions started in a behaviour

Kinds == {"single", "batch", "schedule", "ingest"}
Verdicts == {"pass", "fail"}
Statuses == Verdicts \cup {"error"}

\* A batch item whose connector does not resolve writes nothing: such a batch
\* is the batch without it.  An item names its cell and the idempotency key the caller gave, if any.
ASSUME JobsAssumption ==
  \A j \in Jobs : /\ j.kind \in Kinds
                  /\ j.items \in Seq([cell : Cells, key : {"none", "k"}])
                  /\ j.items # <<>>
ASSUME LegacyAssumption == Legacy \subseteq Cells /\ \A c, d \in Legacy : c = d

VARIABLES
  findings, \* committed Finding rows
  evidence, \* committed EvidenceMeta rows, by number
  idem,     \* committed IdempotencyRecord rows: key -> finding number
  stale,    \* keys whose record is older than IMPLICIT_IDEMPOTENCY_WINDOW
  posture,  \* committed Posture rows: cell -> [status, finding]
  history,  \* committed PostureHistory rows
  stored,   \* artifacts in the evidence store
  lastId,   \* attempts so far: the last uuid minted
  begun,    \* transactions so far
  overlapped, \* history variable: two transactions were once open together
  tx,       \* tx[w]: the transaction of worker w, its uncommitted rows in .own
  artifact, \* artifact[w]: the artifact stored for the item in hand, at most one
  promised  \* promised[w]: the uncommitted EvidenceMeta rows of worker w

db == <<findings, evidence, idem, stale, posture, history>>
local == <<tx, artifact, promised>>
begins == <<begun, overlapped>>
vars == <<db, stored, lastId, begins, local>>

-----------------------------------------------------------------------------
\* Partial functions: g's entries take the place of f's.
Over(f, g) == [x \in DOMAIN f \cup DOMAIN g |-> IF x \in DOMAIN g THEN g[x] ELSE f[x]]
Entry(x, v) == [y \in {x} |-> v]
Empty == [x \in {} |-> 0]

\* Uncommitted writes of a transaction that has written nothing.
NoWrites == [findings |-> {}, idem |-> Empty,
             posture |-> Empty, closed |-> {}, opened |-> {}]

Idle == [pc |-> "idle", job |-> [kind |-> "single", items |-> <<>>], number |-> 0,
         i |-> 0, key |-> <<>>, renew |-> FALSE, unverifiable |-> FALSE,
         status |-> "none", id |-> 0, seen |-> "none",
         targets |-> {}, results |-> {}, own |-> NoWrites]

Item(w) == tx[w].job.items[tx[w].i]
Cell(w) == Item(w).cell

\* _idem_key, the run_token of a scheduled run, and the external key, whose
\* default external_id carries the status.
Key(w, status) ==
  CASE tx[w].job.kind = "schedule" -> <<"sched", tx[w].number, tx[w].i>>
    [] tx[w].job.kind = "ingest" -> <<"external", Cell(w), status>>
    [] tx[w].job.kind \in {"single", "batch"} /\ Item(w).key = "none" -> <<"derived", Cell(w), 0>>
    [] OTHER -> <<"client", Item(w).key, 0>>

\* _legacy_idem_key of a derived key.
LegacyKey(k) == IF k[1] = "derived" THEN <<"legacy", k[2], 0>> ELSE k

\* The rows worker w sees.
IdemSeen(w) == Over(idem, tx[w].own.idem)
PostureSeen(w, c) ==
  LET o == tx[w].own.posture IN
    IF c \notin DOMAIN o THEN IF c \in DOMAIN posture THEN posture[c].status ELSE "none"
    ELSE IF o[c].status = "unchanged" THEN posture[c].status ELSE o[c].status

\* Mutant of StaleRecord: an explicit key ages like a derived one.
StaleAnyRecord(w, k) == k \in stale /\ k \notin DOMAIN tx[w].own.idem
\* Mutant of StaleRecord: a derived key binds for ever.
NeverStale(w, k) == k = <<>>

\* _stale_implicit_record: only a derived key stops binding.
StaleRecord(w, k) == k[1] = "derived" /\ k \in stale /\ k \notin DOMAIN tx[w].own.idem

\* _existing: the finding a key answers with, as a set of at most one.
Existing(w, k, legacy) ==
  LET seen == IdemSeen(w) IN
    IF k \in DOMAIN seen THEN {seen[k]}
    ELSE IF legacy /\ LegacyKey(k) \in DOMAIN seen THEN {seen[LegacyKey(k)]} ELSE {}

-----------------------------------------------------------------------------
Init ==
  /\ findings = {[id |-> 0, cell |-> c, status |-> "fail", key |-> <<"legacy", c, 0>>] : c \in Legacy}
  /\ evidence = IF Legacy = {} THEN {} ELSE {0}
  /\ idem = [k \in {<<"legacy", c, 0>> : c \in Legacy} |-> 0]
  /\ stale = {}
  /\ posture = [c \in Legacy |-> [status |-> "fail", finding |-> 0]]
  /\ history = {[cell |-> c, finding |-> 0, status |-> "fail", open |-> TRUE] : c \in Legacy}
  /\ stored = evidence
  /\ lastId = 0
  /\ begun = 0
  /\ overlapped = FALSE
  /\ tx = [w \in Workers |-> Idle]
  /\ artifact = [w \in Workers |-> {}]
  /\ promised = [w \in Workers |-> {}]

Begin(w) ==
  /\ tx[w].pc = "idle"
  /\ begun < MaxTx
  /\ begun' = begun + 1
  /\ overlapped' = (overlapped \/ \E v \in Workers : tx[v].pc # "idle")
  /\ \E j \in Jobs :
       tx' = [tx EXCEPT ![w] = [Idle EXCEPT !.pc = "item", !.job = j,
                                            !.number = begun + 1, !.i = 1]]
  /\ UNCHANGED <<db, stored, lastId, artifact, promised>>

\* The transaction record of w going on to its next item, or to commit.
NextItem(w, result, own) ==
  LET t == tx[w]
      last == t.i = Len(t.job.items)
  IN  [t EXCEPT !.pc = IF last THEN "commit" ELSE "item",
                !.i = IF last THEN t.i ELSE t.i + 1,
                !.key = <<>>, !.renew = FALSE, !.unverifiable = FALSE,
                !.status = "none", !.id = 0, !.seen = "none",
                !.targets = {}, !.results = t.results \cup result, !.own = own]

\* The item is answered with an earlier finding: nothing is written for it.
Answer(w, result) ==
  /\ tx' = [tx EXCEPT ![w] = NextItem(w, result, tx[w].own)]
  /\ artifact' = [artifact EXCEPT ![w] = {}]
  /\ UNCHANGED promised

\* Rollback: the uncommitted rows are gone.
Rollback(w) ==
  /\ tx' = [tx EXCEPT ![w] = Idle]
  /\ artifact' = [artifact EXCEPT ![w] = {}]
  /\ promised' = [promised EXCEPT ![w] = {}]

\* Mutant of Raised: a lost cell is only counted.
RaisedUnrecorded(w) ==
  IF tx[w].job.kind \in {"batch", "schedule"} THEN Answer(w, {}) ELSE Rollback(w)

\* The exception of an item reaches its caller: run_batch and bulk_assess
\* record the cell as unverifiable, once; _execute counts it; a single
\* assessment and an ingestion fail as a whole and roll back.
Raised(w) ==
  CASE tx[w].job.kind = "batch" /\ ~tx[w].unverifiable ->
         /\ tx' = [tx EXCEPT ![w].pc = "item", ![w].unverifiable = TRUE,
                             ![w].renew = FALSE, ![w].targets = {}]
         /\ artifact' = [artifact EXCEPT ![w] = {}]
         /\ UNCHANGED promised
    [] tx[w].job.kind = "schedule" \/ tx[w].unverifiable -> Answer(w, {})
    [] OTHER -> Rollback(w)

\* The lookup of _run_single_once, _record_unverifiable_once and
\* record_external_finding.  The status of an ingested item is in the report.
Lookup(w) ==
  /\ tx[w].pc = "item"
  /\ \E st \in IF tx[w].job.kind = "ingest" THEN Verdicts ELSE {"none"} :
       LET k == Key(w, st)
           renew == StaleRecord(w, k)
           found == Existing(w, k, TRUE)
       IN  \/ /\ ~renew /\ found # {}
              /\ Answer(w, IF tx[w].unverifiable THEN {} ELSE found)
           \/ /\ renew \/ found = {}
              /\ tx' = [tx EXCEPT ![w].key = k, ![w].renew = renew,
                    ![w].status = IF tx[w].unverifiable THEN "error" ELSE st,
                    ![w].pc = IF tx[w].unverifiable \/ st # "none" THEN "store" ELSE "collect"]
              /\ UNCHANGED <<artifact, promised>>
  /\ UNCHANGED <<db, stored, lastId, begins>>

\* collect_telemetry and evaluate return a verdict, or raise.
Collect(w) ==
  /\ tx[w].pc = "collect"
  /\ \/ /\ \E v \in Verdicts :
               tx' = [tx EXCEPT ![w].pc = "store", ![w].status = v]
        /\ UNCHANGED <<artifact, promised>>
     \/ Raised(w)
  /\ UNCHANGED <<db, stored, lastId, begins>>

\* Mutant of StoreArtifact: a failed write to the store goes unnoticed.
StoreArtifactUnchecked(w) ==
  /\ tx[w].pc = "store"
  /\ lastId' = lastId + 1
  /\ tx' = [tx EXCEPT ![w].pc = "read", ![w].id = lastId + 1]
  /\ artifact' = [artifact EXCEPT ![w] = {lastId + 1}]
  /\ stored' = stored \/ stored' = stored \cup {lastId + 1}
  /\ UNCHANGED <<db, begins, promised>>

\* _commit_finding up to evidence_store.store: the key is looked up again,
\* then the artifact is stored before any row is written.  An unverifiable
\* control has no telemetry, so no artifact.
StoreArtifact(w) ==
  LET t == tx[w]
      found == IF t.renew THEN {} ELSE Existing(w, t.key, FALSE)
      new == IF t.unverifiable THEN {} ELSE {lastId + 1}
  IN  /\ t.pc = "store"
      /\ \/ found # {} /\ Answer(w, found) /\ UNCHANGED <<stored, lastId>>
         \/ /\ found = {}
            /\ stored' = stored \cup new
            /\ artifact' = [artifact EXCEPT ![w] = new]
            /\ lastId' = lastId + 1
            /\ tx' = [tx EXCEPT ![w].pc = "read", ![w].id = lastId + 1]
            /\ UNCHANGED promised
         \/ /\ found = {} /\ ~t.unverifiable
            /\ Raised(w)
            /\ UNCHANGED <<stored, lastId>>
      /\ UNCHANGED <<db, begins>>

\* The SELECT of _upsert_posture.
ReadPosture(w) ==
  /\ tx[w].pc = "read"
  /\ LET seen == PostureSeen(w, Cell(w)) IN
       tx' = [tx EXCEPT ![w].seen = seen,
                        ![w].pc = IF seen = tx[w].status THEN "write" ELSE "close"]
  /\ UNCHANGED <<db, stored, lastId, begins, artifact, promised>>

\* On a transition the UPDATE of PostureHistory starts: it can close the open
\* intervals it sees now, and waits for their locks.
CloseHistory(w) ==
  /\ tx[w].pc = "close"
  /\ LET o == tx[w].own IN
       tx' = [tx EXCEPT ![w].pc = "write",
                ![w].targets = {h \in (history \cup o.opened) \ o.closed :
                                  h.cell = Cell(w) /\ h.open}]
  /\ UNCHANGED <<db, stored, lastId, begins, artifact, promised>>

\* Worker v holds a row lock that w's flush needs.
Blocks(v, w) ==
  /\ v # w
  /\ tx[w].pc = "write"
  /\ \/ tx[w].key \in DOMAIN tx[v].own.idem
     \/ Cell(w) \in DOMAIN tx[v].own.posture

\* A primary key or uq_posture_key violation by the rows of this savepoint.
Conflict(w) ==
  \/ ~tx[w].renew /\ tx[w].key \in DOMAIN IdemSeen(w)
  \/ tx[w].seen = "none" /\ Cell(w) \in DOMAIN posture

\* Mutant of WithFinding: an unchanged status leaves the posture row with the
\* previous finding's status.
WithFindingStaleStatus(w) ==
  LET t == tx[w]
      row == [id |-> t.id, cell |-> Cell(w), status |-> t.status, key |-> t.key]
      kept == IF t.seen = "none" THEN t.status ELSE "unchanged"
  IN  [t.own EXCEPT !.findings = @ \cup {row},
                    !.idem = Over(@, Entry(t.key, t.id)),
                    !.posture = Over(@, Entry(Cell(w), [status |-> kept, finding |-> t.id]))]

\* The rows of one finding added to the transaction's uncommitted writes.
WithFinding(w) ==
  LET t == tx[w]
      c == Cell(w)
      o == t.own
      opened == [cell |-> c, finding |-> t.id, status |-> t.status, open |-> TRUE]
      before == IF c \in DOMAIN o.posture THEN o.posture[c].status ELSE "unchanged"
  IN  [findings |-> o.findings \cup {[id |-> t.id, cell |-> c, status |-> t.status, key |-> t.key]},
       idem |-> Over(o.idem, Entry(t.key, t.id)),
       posture |-> Over(o.posture, Entry(c,
                     [status |-> IF t.seen = t.status THEN before ELSE t.status,
                      finding |-> t.id])),
       closed |-> o.closed \cup t.targets,
       opened |-> IF t.seen = t.status THEN o.opened ELSE o.opened \cup {opened}]

\* The savepoint is released: its rows join the transaction's.
Written(w) ==
  /\ tx' = [tx EXCEPT ![w] = NextItem(w, {tx[w].id}, WithFinding(w))]
  /\ promised' = [promised EXCEPT ![w] = @ \cup artifact[w]]
  /\ artifact' = [artifact EXCEPT ![w] = {}]

\* The savepoint.  On an IntegrityError it rolls back, and the winner is
\* looked up by key; without one the error propagates.
Write(w) ==
  /\ tx[w].pc = "write"
  /\ \A v \in Workers : ~Blocks(v, w)
  /\ LET winner == Existing(w, tx[w].key, FALSE) IN
       \/ ~Conflict(w) /\ Written(w)
       \/ Conflict(w) /\ winner # {} /\ Answer(w, winner)
       \/ Conflict(w) /\ winner = {} /\ Raised(w)
  /\ UNCHANGED <<db, stored, lastId, begins>>

\* The database breaks a cycle of waiting transactions: w's savepoint fails.
Deadlock(w) ==
  /\ \E v \in Workers : Blocks(v, w) /\ Blocks(w, v)
  /\ Raised(w)
  /\ UNCHANGED <<db, stored, lastId, begins>>

Commit(w) ==
  LET o == tx[w].own IN
    /\ tx[w].pc = "commit"
    /\ findings' = findings \cup o.findings
    /\ evidence' = evidence \cup promised[w]
    /\ idem' = Over(idem, o.idem)
    /\ stale' = stale \ DOMAIN o.idem
    /\ posture' = Over(posture, [c \in DOMAIN o.posture |->
                    [o.posture[c] EXCEPT !.status = IF @ = "unchanged" THEN posture[c].status ELSE @]])
    /\ history' = {IF h \in o.closed THEN [h EXCEPT !.open = FALSE] ELSE h :
                     h \in history \cup o.opened}
    /\ tx' = [tx EXCEPT ![w].pc = "done", ![w].own = NoWrites]
    /\ promised' = [promised EXCEPT ![w] = {}]
    /\ UNCHANGED <<stored, lastId, begins, artifact>>

\* The response is sent.
Respond(w) ==
  /\ tx[w].pc = "done"
  /\ Rollback(w)
  /\ UNCHANGED <<db, stored, lastId, begins>>

\* The process dies, or a later failure of the request rolls it back.
Abort(w) ==
  /\ tx[w].pc \notin {"idle", "done"}
  /\ Rollback(w)
  /\ UNCHANGED <<db, stored, lastId, begins>>

\* A record outlives IMPLICIT_IDEMPOTENCY_WINDOW.
Age ==
  /\ \E k \in DOMAIN idem \ stale : stale' = stale \cup {k}
  /\ UNCHANGED <<findings, evidence, idem, posture, history, stored, lastId, begins, local>>

Step(w) ==
  \/ Lookup(w) \/ Collect(w) \/ StoreArtifact(w)
  \/ ReadPosture(w) \/ CloseHistory(w) \/ Write(w) \/ Deadlock(w) \/ Commit(w) \/ Respond(w)

\* No request is left in this bounded behaviour; anything else that cannot
\* move is a deadlock.
Quiet == begun = MaxTx /\ (\A w \in Workers : tx[w].pc = "idle") /\ UNCHANGED vars

Next ==
  \/ \E w \in Workers : Begin(w) \/ Step(w) \/ Abort(w)
  \/ Age
  \/ Quiet

Spec == Init /\ [][Next]_vars

-----------------------------------------------------------------------------
\* Every committed EvidenceMeta row has its artifact in the evidence store,
\* whatever failed, raced or crashed on the way.
EvidenceBacked == evidence \subseteq stored

\* The write path implements the evidence ledger.
Ledger == INSTANCE EvidenceLedger
ImplementsLedger == Ledger!Spec

\* A key supplied by a caller, or minted for a scheduled item, names at most
\* one finding for ever, however requests race and however old the record is.
ExplicitKeyOnce ==
  \A f, g \in findings : f.key = g.key /\ f.key[1] # "derived" => f = g

\* The current status of a cell is the status of the finding it points at.
\* Two transactions that re-assess one cell together break this.
CurrentIsCited ==
  \A c \in DOMAIN posture : \A f \in findings :
    f.id = posture[c].finding => posture[c].status = f.status

\* Only they do: while transactions follow one another it holds, and the
\* history of a cell has exactly one open interval, with the current status: an
\* as-of query finds one answer.
CellsAgree ==
  ~overlapped =>
    /\ CurrentIsCited
    /\ \A c \in DOMAIN posture :
         \E h \in history : /\ h.cell = c /\ h.open /\ h.status = posture[c].status
                            /\ \A g \in history : g.cell = c /\ g.open => g = h

\* A batch on its own never loses a cell: when it commits, every cell it was
\* asked about has a posture row, so it stays in the denominator of the score.
\* (A scheduled run only counts a failed item; a batch that is twice the victim
\* of a deadlock leaves the cell to the other transaction.)
NoCellVanishes ==
  ~overlapped => \A w \in Workers :
    tx[w].pc = "done" /\ tx[w].job.kind = "batch" =>
      \A i \in DOMAIN tx[w].job.items : tx[w].job.items[i].cell \in DOMAIN posture

\* A request without a key is answered with an old finding only while that
\* finding's record is inside the window, or is in the pre-hash format.
ImplicitHitIsFresh ==
  [][\A w \in Workers :
       /\ tx[w].pc = "item" /\ ~tx[w].unverifiable
       /\ tx[w].job.kind \in {"single", "batch"} /\ Item(w).key = "none"
       => \A n \in tx'[w].results \ tx[w].results :
            \A k \in DOMAIN idem : idem[k] = n /\ k[1] = "derived" => k \notin stale]_vars
=============================================================================

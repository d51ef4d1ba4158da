------------------------------ MODULE AgentAudit ------------------------------
(***************************************************************************)
(* The hash-chained log of agent decisions (app/services/agent_audit.py)   *)
(* of one tenant, and its writer: drafting a policy                        *)
(* (app/services/policy_authoring.py) registers the agent identity,        *)
(* appends an action chained to the latest one and advances the signed     *)
(* head, in the request's one READ COMMITTED transaction.                  *)
(*                                                                         *)
(* A hash is injective, so a record is named by its hash and prev is the   *)
(* name of the record it is chained to.  The three changed columns of the  *)
(* head are written together, so its signature always fits them.           *)
(***************************************************************************)
EXTENDS Integers, FiniteSets

CONSTANTS Workers,    \* concurrent transactions
          None,       \* no predecessor, no head
          Skew,       \* how far two replicas' clocks may be apart
          Legacy,     \* records written before the head was introduced
          MaxActions, \* bound: records appended
          MaxDamage   \* bound: records lost from the table, or altered in it

ASSUME AuditAssumption ==
  /\ None \notin Int /\ None \notin [hash : Int, count : Int]
  /\ Skew \in Nat /\ Legacy \in Nat /\ MaxActions \in Nat /\ MaxDamage \in Nat

VARIABLES
  actions,  \* committed AgentAction rows: [hash, prev, at]
  head,     \* committed AgentChainHead row: [hash, count], or None
  agent,    \* the AgentIdentity row is committed
  clock,    \* time, one unit for each created_at that is stamped
  damaged,  \* hashes of the records lost or altered after they were committed
  altered,  \* those whose payload no longer matches their record_hash
  contended, \* history variable: appends overlapped, or clocks disagreed
  pc,       \* where each transaction is
  rec,      \* its uncommitted AgentAction row
  seen,     \* the head row it loaded
  newAgent  \* it inserted the AgentIdentity row

vars == <<actions, head, agent, clock, damaged, altered, contended,
          pc, rec, seen, newAgent>>
table == <<actions, head, agent>>
fault == <<damaged, altered, contended>>

Hashes == {r.hash : r \in actions}
Started == {w \in Workers : pc[w] # "idle"}
Blank == [hash |-> 0, prev |-> None, at |-> 0]

\* The rows ORDER BY created_at DESC may put first; ids break ties at random.
Latest(rows) == {r \in rows : \A q \in rows : q.at <= r.at}

-----------------------------------------------------------------------------
Init ==
  /\ actions = {[hash |-> n, prev |-> IF n = 1 THEN None ELSE n - 1, at |-> n] : n \in 1..Legacy}
  /\ head = None
  /\ agent \in IF Legacy > 0 THEN {TRUE} ELSE BOOLEAN
  /\ clock = Legacy
  /\ damaged = {}
  /\ altered = {}
  /\ contended = FALSE
  /\ pc = [w \in Workers |-> "idle"]
  /\ rec = [w \in Workers |-> Blank]
  /\ seen = [w \in Workers |-> None]
  /\ newAgent = [w \in Workers |-> FALSE]

Finish(w) ==
  /\ pc' = [pc EXCEPT ![w] = "idle"]
  /\ rec' = [rec EXCEPT ![w] = Blank]
  /\ seen' = [seen EXCEPT ![w] = None]
  /\ newAgent' = [newAgent EXCEPT ![w] = FALSE]

\* draft() adds its row and register_agent looks the identity up.
Begin(w) ==
  /\ pc[w] = "idle"
  /\ clock + Cardinality(Started) < Legacy + MaxActions
  /\ pc' = [pc EXCEPT ![w] = IF agent THEN "prev" ELSE "register"]
  /\ contended' = (contended \/ Started # {})
  /\ UNCHANGED <<table, clock, damaged, altered, rec, seen, newAgent>>

\* register_agent's INSERT waits for another transaction's; when that one has
\* committed, uq_agent_name_kind fails the whole request.
InsertAgent(w) ==
  /\ pc[w] = "register"
  /\ \A v \in Workers : ~newAgent[v]
  /\ \/ /\ ~agent
        /\ pc' = [pc EXCEPT ![w] = "prev"]
        /\ newAgent' = [newAgent EXCEPT ![w] = TRUE]
        /\ UNCHANGED <<rec, seen>>
     \/ agent /\ Finish(w)
  /\ UNCHANGED <<table, clock, fault>>

\* Mutant of ReadPrev: the tip is remembered in the process, not read from
\* committed rows.
ReadPrevUncommitted(w) ==
  /\ pc[w] = "prev"
  /\ \E d \in 0..Skew, prev \in {r.hash : r \in Latest(actions \cup {rec[v] : v \in Workers})} :
       /\ rec' = [rec EXCEPT ![w] = [hash |-> clock + 1, prev |-> IF prev = 0 THEN None ELSE prev,
                                     at |-> clock + 1 + d]]
       /\ contended' = (contended \/ d > 0)
  /\ clock' = clock + 1
  /\ pc' = [pc EXCEPT ![w] = "head"]
  /\ UNCHANGED <<table, damaged, altered, seen, newAgent>>

\* record_action selects the latest action, then stamps created_at.
ReadPrev(w) ==
  /\ pc[w] = "prev"
  /\ \E d \in 0..Skew,
        prev \in IF actions = {} THEN {None} ELSE {r.hash : r \in Latest(actions)} :
       /\ rec' = [rec EXCEPT ![w] = [hash |-> clock + 1, prev |-> prev, at |-> clock + 1 + d]]
       /\ contended' = (contended \/ d > 0)
  /\ clock' = clock + 1
  /\ pc' = [pc EXCEPT ![w] = "head"]
  /\ UNCHANGED <<table, damaged, altered, seen, newAgent>>

\* _upsert_head loads the head row.
ReadHead(w) ==
  /\ pc[w] = "head"
  /\ seen' = [seen EXCEPT ![w] = head]
  /\ pc' = [pc EXCEPT ![w] = "flush"]
  /\ UNCHANGED <<table, clock, fault, rec, newAgent>>

\* The head computed from the row that was loaded.
NewHead(w) ==
  [hash |-> rec[w].hash, count |-> IF seen[w] = None THEN 1 ELSE seen[w].count + 1]

\* Mutant of Flush: the head is committed ahead of the action.
FlushHeadFirst(w) ==
  /\ pc[w] = "flush"
  /\ \A v \in Workers : pc[v] # "commit"
  /\ head' = NewHead(w)
  /\ pc' = [pc EXCEPT ![w] = "commit"]
  /\ UNCHANGED <<actions, agent, clock, fault, rec, seen, newAgent>>

\* The flush writes the head row, and waits for another transaction's write
\* to it.  A first head inserted meanwhile fails the whole request.
Flush(w) ==
  /\ pc[w] = "flush"
  /\ \A v \in Workers : pc[v] # "commit"
  /\ \/ /\ (seen[w] = None) <=> (head = None)
        /\ pc' = [pc EXCEPT ![w] = "commit"]
        /\ UNCHANGED <<rec, seen, newAgent>>
     \/ seen[w] = None /\ head # None /\ Finish(w)
  /\ UNCHANGED <<table, clock, fault>>

Commit(w) ==
  /\ pc[w] = "commit"
  /\ actions' = actions \cup {rec[w]}
  /\ head' = NewHead(w)
  /\ agent' = (agent \/ newAgent[w])
  /\ Finish(w)
  /\ UNCHANGED <<clock, fault>>

\* The request fails anywhere, or its process dies: rollback.
Abort(w) ==
  /\ pc[w] # "idle"
  /\ Finish(w)
  /\ UNCHANGED <<table, clock, fault>>

\* A record is lost from the table (a partial restore, a stray DELETE).
Lose(r) ==
  /\ Cardinality(damaged) < MaxDamage
  /\ actions' = actions \ {r}
  /\ damaged' = damaged \cup {r.hash}
  /\ UNCHANGED <<head, agent, clock, altered, contended, pc, rec, seen, newAgent>>

\* A column of a record changes under its hash.
Alter(r) ==
  /\ Cardinality(damaged) < MaxDamage
  /\ altered' = altered \cup {r.hash}
  /\ damaged' = damaged \cup {r.hash}
  /\ UNCHANGED <<table, clock, contended, pc, rec, seen, newAgent>>

\* The bound is reached and nobody is at work.
Quiet ==
  /\ Started = {}
  /\ clock >= Legacy + MaxActions
  /\ UNCHANGED vars

WorkerStep(w) ==
  \/ Begin(w) \/ InsertAgent(w) \/ ReadPrev(w) \/ ReadHead(w) \/ Flush(w)
  \/ Commit(w) \/ Abort(w)

Next ==
  \/ \E w \in Workers : WorkerStep(w)
  \/ \E r \in actions : Lose(r) \/ Alter(r)
  \/ Quiet

Spec == Init /\ [][Next]_vars

-----------------------------------------------------------------------------
(* verify_chain *)

\* Payloads that no longer hash to record_hash, and dangling links.
Broken ==
  {r \in actions : r.hash \in altered \/ (r.prev # None /\ r.prev \notin Hashes)}

Forked == \E q, r \in actions : q # r /\ q.prev = r.prev /\ q.prev # None

\* Mutant of HeadVerified: the tip is compared, the number of records is not.
HeadVerifiedByHash ==
  IF head = None THEN actions = {} ELSE head.hash \in Hashes

HeadVerified ==
  IF head = None THEN actions = {}
  ELSE head.hash \in Hashes /\ Cardinality(actions) = head.count

VerifyOk == Broken = {} /\ ~Forked /\ HeadVerified

-----------------------------------------------------------------------------
Rows == [hash : Int, prev : Int \cup {None}, at : Int]
HeadRows == [hash : Int, count : Int] \cup {None}

TypeOK ==
  /\ actions \subseteq Rows
  /\ head \in HeadRows
  /\ agent \in BOOLEAN
  /\ clock \in Nat
  /\ damaged \subseteq Int
  /\ altered \subseteq damaged
  /\ pc \in [Workers -> {"idle", "register", "prev", "head", "flush", "commit"}]
  /\ rec \in [Workers -> Rows]
  /\ seen \in [Workers -> HeadRows]
  /\ newAgent \in [Workers -> BOOLEAN]

\* Concurrent appends, failed requests and skewed clocks never leave a record
\* chained to one that was rolled back, or a head that names one: verify_chain
\* finds no dangling link and no missing tail unless a record was lost.
ChainResolves ==
  damaged = {} =>
    /\ \A r \in actions : r.prev # None => r.prev \in Hashes
    /\ head # None => head.hash \in Hashes

\* However appends interleave, the head never counts more actions than there
\* are: a log shorter than expected_actions has lost some, and a lost update
\* of the head can only make it count too few.
OvercountMeansLoss ==
  damaged = {} /\ head # None => head.count <= Cardinality(actions)

\* A log nobody damaged verifies.  verify_chain's docstring calls what it
\* reports "tampering shapes"; appends that overlap produce them too.
HonestChainVerifies == damaged = {} => VerifyOk

\* Only they and skewed clocks do: after appends one at a time on one clock, an
\* undamaged log verifies, and once a record was lost or altered it never
\* verifies again, whatever is appended after.
OrderlyChainIsJudged == ~contended => (VerifyOk <=> damaged = {})
=============================================================================

---------------------------- MODULE EvidenceStore ----------------------------
(***************************************************************************)
(* The evidence store of app/evidence.py and its verification by           *)
(* app/services/integrity.py, for one tenant.  Writers store an artifact   *)
(* (one line of an append-only file under an exclusive lock, or one S3     *)
(* object put with retries) and then commit the EvidenceMeta row that      *)
(* promises it.  A check loads the rows and then reads the whole store.    *)
(* Artifacts and rows may be damaged meanwhile.                            *)
(***************************************************************************)
EXTENDS Naturals, FiniteSets

CONSTANTS Workers,       \* concurrent writers
          Nobody,        \* the lock is free
          Attempts,      \* settings.retry_attempts
          MaxIds,        \* bound: artifacts written
          MaxDamage,     \* bound: rows and artifacts damaged
          MaxChecks      \* bound: checks begun

ASSUME StoreAssumption ==
  /\ Nobody \notin Workers
  /\ Attempts \in Nat \ {0}
  /\ MaxIds \in Nat /\ MaxDamage \in Nat /\ MaxChecks \in Nat

\* What is damaged.  In the row: a hashed column is edited ("meta", or "pointer"
\* when it is the telemetry_hash itself), or its record_hash is gone ("cleared";
\* a row from before that column never had one).  In the store: the artifact's
\* hash or its telemetry is edited, or the artifact is gone.
RowKinds == {"meta", "pointer", "cleared"}
Kinds == RowKinds \cup {"hash", "telemetry", "lost"}

VARIABLES
  backend,  \* settings.evidence_backend, fixed for the life of the system
  torn,     \* history variable: writes that stopped in the middle of a line
  readable, \* evidence_ids of the artifacts a reader finds in the store
  tail,     \* ids whose bytes are in the file's unterminated last line
  lock,     \* holder of the flock
  rows,     \* committed EvidenceMeta rows
  acked,    \* ids for which store() returned
  lastId,   \* the last evidence_id minted
  pc, id,   \* each writer: where it is, its artifact
  tries,    \* and the puts it has attempted
  damage,   \* damage done so far: <<kind, evidence_id>>
  check,    \* "idle", "loaded" (rows in hand), "done", or "cut": done on a
            \* listing that failed part of the way
  loaded,   \* the rows the check loaded, and the damage done by then
  broken,   \* what the check reported: <<reason, evidence_id>>
  checks

store == <<readable, tail, lock>>
fixed == <<backend, torn>>
writers == <<pc, id, tries>>
checker == <<check, loaded, broken, checks>>
vars == <<fixed, store, rows, acked, lastId, writers, damage, checker>>

Damaged(kind) == {e \in 1..MaxIds : <<kind, e>> \in damage}

-----------------------------------------------------------------------------
Init ==
  /\ backend \in {"local", "s3"}
  /\ torn = 0
  /\ readable = {} /\ tail = {} /\ lock = Nobody
  /\ rows = {} /\ acked = {} /\ lastId = 0
  /\ pc = [w \in Workers |-> "idle"]
  /\ id = [w \in Workers |-> 0]
  /\ tries = [w \in Workers |-> 0]
  /\ damage = {}
  /\ check = "idle" /\ loaded = [rows |-> {}, damage |-> {}] /\ broken = {} /\ checks = 0

\* store(): the payload is built and handed to the backend.
Store(w) ==
  /\ pc[w] = "idle"
  /\ lastId < MaxIds
  /\ lastId' = lastId + 1
  /\ id' = [id EXCEPT ![w] = lastId + 1]
  /\ tries' = [tries EXCEPT ![w] = 0]
  /\ pc' = [pc EXCEPT ![w] = IF backend = "s3" THEN "put" ELSE "lock"]
  /\ UNCHANGED <<fixed, store, rows, acked, damage, checker>>

\* Mutant of Acquire: no flock.
AcquireAnyway(w) ==
  /\ pc[w] = "lock"
  /\ pc' = [pc EXCEPT ![w] = "append"]
  /\ UNCHANGED <<fixed, store, rows, acked, lastId, id, tries, damage, checker>>

\* _put_local opens the file and takes the lock.
Acquire(w) ==
  /\ pc[w] = "lock"
  /\ lock = Nobody
  /\ lock' = w
  /\ pc' = [pc EXCEPT ![w] = "append"]
  /\ UNCHANGED <<fixed, readable, tail, rows, acked, lastId, id, tries, damage, checker>>

\* The first bytes of the line reach the file.
AppendSome(w) ==
  /\ pc[w] = "append"
  /\ tail' = tail \cup {id[w]}
  /\ pc' = [pc EXCEPT ![w] = "rest"]
  /\ UNCHANGED <<fixed, readable, lock, rows, acked, lastId, id, tries, damage, checker>>

\* The rest of the line, its newline and the fsync.  The line parses only if
\* nothing else is in it.  The lock is released.
AppendRest(w) ==
  /\ pc[w] = "rest"
  /\ readable' = IF tail = {id[w]} THEN readable \cup {id[w]} ELSE readable
  /\ tail' = {}
  /\ lock' = Nobody
  /\ \/ /\ pc' = [pc EXCEPT ![w] = "stored"]
        /\ acked' = acked \cup {id[w]}
     \/ /\ pc' = [pc EXCEPT ![w] = "idle"] \* fsync raised
        /\ UNCHANGED acked
  /\ UNCHANGED <<fixed, rows, lastId, id, tries, damage, checker>>

\* _put_s3: a put lands or not, and its answer arrives or not; without an
\* answer it is repeated until the attempts are used up and it raises.
Put(w) ==
  /\ pc[w] = "put"
  /\ tries' = [tries EXCEPT ![w] = @ + 1]
  /\ \/ /\ readable' = readable \cup {id[w]}
        /\ pc' = [pc EXCEPT ![w] = "stored"]
        /\ acked' = acked \cup {id[w]}
     \/ /\ readable' \in {readable, readable \cup {id[w]}}
        /\ pc' = [pc EXCEPT ![w] = IF tries'[w] < Attempts THEN "put" ELSE "idle"]
        /\ UNCHANGED acked
  /\ UNCHANGED <<fixed, tail, lock, rows, lastId, id, damage, checker>>

\* The write path's transaction commits the row (see Assessment).
Commit(w) ==
  /\ pc[w] = "stored"
  /\ rows' = rows \cup {id[w]}
  /\ pc' = [pc EXCEPT ![w] = "idle"]
  /\ UNCHANGED <<fixed, store, acked, lastId, id, tries, damage, checker>>

\* The write raises or the process dies: what reached the file stays there,
\* and the kernel drops the lock.
Abort(w) ==
  /\ pc[w] # "idle"
  /\ torn' = IF pc[w] = "rest" THEN torn + 1 ELSE torn
  /\ lock' = IF lock = w THEN Nobody ELSE lock
  /\ pc' = [pc EXCEPT ![w] = "idle"]
  /\ UNCHANGED <<backend, readable, tail, rows, acked, lastId, id, tries, damage, checker>>

\* A committed row or its artifact is damaged.  Edits are made independently: two
\* edited hashes differ.
Damage(kind, e) ==
  /\ Cardinality(damage) < MaxDamage
  /\ <<kind, e>> \notin damage
  /\ IF kind \in RowKinds THEN e \in rows ELSE e \in readable \cap rows
  /\ damage' = damage \cup {<<kind, e>>}
  /\ readable' = IF kind = "lost" THEN readable \ {e} ELSE readable
  /\ UNCHANGED <<fixed, tail, lock, rows, acked, lastId, writers, checker>>

-----------------------------------------------------------------------------
\* verify (or verify_one) loads the rows.
LoadRows ==
  /\ check # "loaded"
  /\ checks < MaxChecks
  /\ checks' = checks + 1
  /\ check' = "loaded"
  /\ loaded' = [rows |-> rows, damage |-> damage]
  /\ broken' = {}
  /\ UNCHANGED <<fixed, store, rows, acked, lastId, writers, damage>>

\* The row as loaded was edited, or its telemetry_hash was.
Edited(e) == \E kind \in {"meta", "pointer"} : <<kind, e>> \in loaded.damage
Bare(e) == <<"cleared", e>> \in loaded.damage
Repointed(e) == <<"pointer", e>> \in loaded.damage

\* What is reported of row e when the store was read as found: a row without a
\* record_hash skips the first check.  The hash compared is the one recorded in
\* the artifact.
Verdict(e, found) ==
  IF Edited(e) /\ ~Bare(e) THEN {<<"metadata_tampered", e>>}
  ELSE IF e \notin found THEN {<<"missing_in_store", e>>}
  ELSE IF Repointed(e) \/ <<"hash", e>> \in damage THEN {<<"store_tampered", e>>} ELSE {}

\* stored_hashes reads every artifact, without the lock, and the verdicts
\* follow.  A listing that fails is cut short with a warning.
ReadStore ==
  /\ check = "loaded"
  /\ \/ /\ check' = "done"
        /\ broken' = UNION {Verdict(e, readable) : e \in loaded.rows}
     \/ /\ backend = "s3"
        /\ check' = "cut"
        /\ \E found \in SUBSET readable :
             broken' = UNION {Verdict(e, found) : e \in loaded.rows}
  /\ UNCHANGED <<fixed, store, rows, acked, lastId, writers, damage, loaded, checks>>

\* The bounds are reached.
Quiet ==
  /\ lastId = MaxIds /\ checks = MaxChecks /\ check # "loaded"
  /\ \A w \in Workers : pc[w] = "idle"
  /\ UNCHANGED vars

Write(w) ==
  \/ Store(w) \/ Acquire(w) \/ AppendSome(w) \/ AppendRest(w) \/ Put(w)
  \/ Commit(w) \/ Abort(w)

Next ==
  \/ \E w \in Workers : Write(w)
  \/ \E kind \in Kinds, e \in rows : Damage(kind, e)
  \/ LoadRows \/ ReadStore
  \/ Quiet

Spec == Init /\ [][Next]_vars

-----------------------------------------------------------------------------
\* Every artifact store() has acknowledged is found by a reader, unless it was
\* removed since: concurrent appends do not mix, a failed or unanswered put is
\* not taken for a success, and a line torn by a dying writer spoils at most
\* the one line that is appended to it.
AcknowledgedIsReadable ==
  Cardinality((acked \ Damaged("lost")) \ readable) <= torn

\* The damage to row e, or to its artifact, that the checks can see: an edited
\* telemetry_hash, on either side, and a removed artifact always; any other edited
\* column only as long as the row has its record_hash.
Visible(e, done) ==
  \/ \E kind \in {"pointer", "hash", "lost"} : <<kind, e>> \in done
  \/ <<"meta", e>> \in done /\ <<"cleared", e>> \notin done

\* verify reports only what was edited or cannot be read, although writers go on
\* storing and committing while it runs; and all visible damage that was there
\* when it loaded the rows is reported, even on a listing that was cut short.
VerifyIsExact ==
  /\ check = "done" =>
       \A b \in broken :
         b[2] \notin readable \/ \E kind \in {"meta", "pointer", "hash"} : <<kind, b[2]>> \in damage
  /\ check \in {"done", "cut"} =>
       \A e \in loaded.rows : Visible(e, loaded.damage) => \E b \in broken : b[2] = e

\* What the store acknowledges is there, and what verify reports is so.
StoreKeepsItsWord == AcknowledgedIsReadable /\ VerifyIsExact
=============================================================================

---------------------------- MODULE ConnectorSync ----------------------------
(***************************************************************************)
(* Evidence syncs of one marketplace connector, app/connectors/            *)
(* framework.py, behind the gate of app/connectors/safety.py.              *)
(*                                                                         *)
(* A sync collects live evidence type by type or falls back to demo        *)
(* evidence, then replaces the connector's items and its state row in one  *)
(* READ COMMITTED transaction.  A DELETE sees the rows committed when it   *)
(* starts, waits for another transaction that has deleted one of them, and *)
(* then deletes those of them that are left.  Rows stand for the batch of  *)
(* one sync: they are inserted and deleted together.  The environment does *)
(* not change while a process runs.                                        *)
(***************************************************************************)
EXTENDS Naturals, FiniteSets

CONSTANTS Calls,     \* the calls of sync
          LiveTypes, \* evidence types that map to a NIST control
          DemoTypes, \* evidence types of the demo evidence
          None

SyncAssumption == DemoTypes # {} /\ None \notin Calls

VARIABLES canGoLive, \* the environment lets a sync call the vendor
          items,   \* committed batches: [call, mode, types]
          state,   \* the committed state row: [mode, count, status, error], or None
          last,    \* the call that committed last
          phase, todo, attempt, got,   \* each sync's collection
          seen, held,   \* the batches its DELETE saw, and deleted
          loaded,  \* the state row as it loaded it; None if it inserts it
          overlapped  \* history variable: two syncs were once open together

rows  == <<items, state, last>>
live  == <<todo, attempt, got>>
trans == <<seen, held, loaded>>
vars  == <<canGoLive, rows, phase, live, trans, overlapped>>

Active == {k \in Calls : phase[k] \notin {"new", "done"}}

\* Layers 1 and 2 of the gate: the kill switch and the allowlist.
Allowed(synthetic, killSwitch, listed) == synthetic \/ (killSwitch /\ listed)

Init ==
  /\ \E synthetic, killSwitch, listed, credentials \in BOOLEAN :
       /\ synthetic => credentials  \* it needs no variable
       /\ canGoLive = (Allowed(synthetic, killSwitch, listed) /\ credentials)
  /\ items = {} /\ state = None /\ last = None
  /\ phase = [k \in Calls |-> "new"]
  /\ todo = [k \in Calls |-> {}] /\ got = [k \in Calls |-> {}]
  /\ attempt = [k \in Calls |-> 1]
  /\ seen = [k \in Calls |-> {}] /\ held = [k \in Calls |-> {}]
  /\ loaded = [k \in Calls |-> None]
  /\ overlapped = FALSE

-----------------------------------------------------------------------------
\* Collection.

Begin(k) ==
  /\ phase[k] = "new"
  /\ \/ /\ canGoLive /\ LiveTypes # {}
        /\ phase' = [phase EXCEPT ![k] = "collect"]
        /\ todo' = [todo EXCEPT ![k] = LiveTypes]
     \/ /\ phase' = [phase EXCEPT ![k] = "delete"]  \* not allowed, or force_demo
        /\ UNCHANGED todo
  /\ overlapped' = (overlapped \/ Active # {})
  /\ UNCHANGED <<canGoLive, rows, attempt, got, trans>>

Collected(k) ==
  /\ phase[k] = "collect"
  /\ \E t \in todo[k] :
       /\ got' = [got EXCEPT ![k] = @ \cup {t}]
       /\ todo' = [todo EXCEPT ![k] = @ \ {t}]
       /\ phase' = [phase EXCEPT ![k] = IF todo[k] = {t} THEN "delete" ELSE @]
  /\ attempt' = [attempt EXCEPT ![k] = 1]
  /\ UNCHANGED <<canGoLive, rows, trans, overlapped>>

Retry(k) ==
  /\ phase[k] = "collect" /\ attempt[k] = 1
  /\ attempt' = [attempt EXCEPT ![k] = 2]
  /\ UNCHANGED <<canGoLive, rows, phase, todo, got, trans, overlapped>>

\* The second failure of a type gives up the whole collection.
GiveUp(k) ==
  /\ phase[k] = "collect" /\ attempt[k] = 2
  /\ got' = [got EXCEPT ![k] = {}]
  /\ phase' = [phase EXCEPT ![k] = "delete"]
  /\ UNCHANGED <<canGoLive, rows, todo, attempt, trans, overlapped>>

Batch(k) ==
  IF got[k] = {} THEN [call |-> k, mode |-> "demo", types |-> DemoTypes]
                 ELSE [call |-> k, mode |-> "live", types |-> got[k]]

\* _try_live_collect raises nothing, so the status is always "ok".
Row(k) == [mode |-> Batch(k).mode, count |-> Cardinality(Batch(k).types),
           status |-> "ok", error |-> FALSE]

-----------------------------------------------------------------------------
\* Replacement.

StartDelete(k) ==
  /\ phase[k] = "delete"
  /\ seen' = [seen EXCEPT ![k] = items]
  /\ phase' = [phase EXCEPT ![k] = "wait"]
  /\ UNCHANGED <<canGoLive, rows, live, held, loaded, overlapped>>

Deleted(k) ==
  /\ phase[k] = "wait"
  /\ \A j \in Active \ {k} : held[j] \cap seen[k] = {}
  /\ held' = [held EXCEPT ![k] = seen[k] \cap items]
  /\ phase' = [phase EXCEPT ![k] = "row"]
  /\ UNCHANGED <<canGoLive, rows, live, seen, loaded, overlapped>>

Inserting(j) == phase[j] = "commit" /\ loaded[j] = None

\* get_or_create: an insert waits for another transaction's, then finds its row.
LoadRow(k) ==
  /\ phase[k] = "row"
  /\ state # None \/ \A j \in Active : ~Inserting(j)
  /\ loaded' = [loaded EXCEPT ![k] = state]
  /\ phase' = [phase EXCEPT ![k] = "commit"]
  /\ UNCHANGED <<canGoLive, rows, live, seen, held, overlapped>>

\* An UPDATE names the columns that differ from the row as it was loaded.
Written(k) ==
  IF state = None THEN Row(k)
  ELSE [f \in DOMAIN state |->
          IF loaded[k] # None /\ loaded[k][f] = Row(k)[f] THEN state[f] ELSE Row(k)[f]]

Ends(k) ==
  /\ phase' = [phase EXCEPT ![k] = "done"]
  /\ todo' = [todo EXCEPT ![k] = {}] /\ got' = [got EXCEPT ![k] = {}]
  /\ attempt' = [attempt EXCEPT ![k] = 1]
  /\ seen' = [seen EXCEPT ![k] = {}] /\ held' = [held EXCEPT ![k] = {}]
  /\ loaded' = [loaded EXCEPT ![k] = None]
  /\ UNCHANGED <<canGoLive, overlapped>>

\* MUTANT: the DELETE takes the new items with it.
CommitInsertsFirst(k) ==
  /\ phase[k] = "commit"
  /\ items' = IF held[k] = {} THEN items \cup {Batch(k)} ELSE items \ held[k]
  /\ state' = Written(k)
  /\ last' = k
  /\ Ends(k)

Commit(k) ==
  /\ phase[k] = "commit"
  /\ items' = (items \ held[k]) \cup {Batch(k)}
  /\ state' = Written(k)
  /\ last' = k
  /\ Ends(k)

\* The request ends without its commit.
Abort(k) == k \in Active /\ Ends(k) /\ UNCHANGED rows

Quiet == (\A k \in Calls : phase[k] = "done") /\ UNCHANGED vars

Next ==
  \/ Quiet
  \/ \E k \in Calls :
       \/ Begin(k) \/ Collected(k) \/ Retry(k) \/ GiveUp(k)
       \/ StartDelete(k) \/ Deleted(k) \/ LoadRow(k) \/ Commit(k) \/ Abort(k)

Spec == Init /\ [][Next]_vars

-----------------------------------------------------------------------------
\* While syncs follow one another, a sync replaces (framework.py:190) and the
\* state row describes the sync that committed last (status_one,
\* framework.py:82-97): its items are the only ones.
StatusIsTrue ==
  ~overlapped /\ state # None =>
    \E b \in items : /\ items = {b} /\ b.call = last
                     /\ b.mode = state.mode
                     /\ Cardinality(b.types) = state.count

\* However syncs overlap, the items of the sync that committed last are there,
\* and live evidence is never a part of the connector's evidence: a type that
\* cannot be collected sends the whole sync back to demo (framework.py:172).
EvidenceIsWhole ==
  /\ last # None => \E b \in items : b.call = last
  /\ \A b \in items : b.mode = "live" => b.types = LiveTypes

\* A sync leaves what it says it does: its items, and a status of them.
SyncIsTrue == StatusIsTrue /\ EvidenceIsWhole
=============================================================================

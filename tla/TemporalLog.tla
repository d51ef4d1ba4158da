----------------------------- MODULE TemporalLog -----------------------------
(***************************************************************************)
(* The append-only valid-time log of app/services/bitemporal.py, and the   *)
(* query that app/services/posture_history.py makes of such intervals.     *)
(*                                                                         *)
(* The intervals of a key are numbered in the order of their puts.  The    *)
(* code keeps them sorted by start, a later put behind an earlier one that *)
(* starts at the same time: Precedes is that order.  recorded_at is stored *)
(* and never read.                                                         *)
(***************************************************************************)
EXTENDS Naturals, Sequences

CONSTANTS Keys, Values, Times, None,
          BackDated,  \* a put may start before the latest one of its key
          MaxPuts     \* puts per key, a bound

ASSUME LogAssumption ==
  /\ Times \subseteq Nat /\ None \notin Nat /\ None \notin Values
  /\ BackDated \in BOOLEAN /\ MaxPuts \in Nat

VARIABLE log  \* log[k] is the sequence of intervals [from, to, value] of k

Intervals == [from : Times, to : Times \cup {None}, value : Values]

Init == log = [k \in Keys |-> <<>>]

\* MUTANT: an interval that starts with the new one stays open.
ClosedBefore(rows, t) ==
  [i \in 1..Len(rows) |->
     IF rows[i].to = None /\ rows[i].from < t THEN [rows[i] EXCEPT !.to = t] ELSE rows[i]]

Closed(rows, t) ==
  [i \in 1..Len(rows) |->
     IF rows[i].to = None /\ rows[i].from <= t THEN [rows[i] EXCEPT !.to = t] ELSE rows[i]]

InOrder(rows, t) == \A i \in 1..Len(rows) : rows[i].from <= t

Put(k, v, t) ==
  /\ BackDated \/ InOrder(log[k], t)
  /\ Len(log[k]) < MaxPuts
  /\ log' = [log EXCEPT ![k] =
               Append(Closed(log[k], t), [from |-> t, to |-> None, value |-> v])]

Next == \E k \in Keys, v \in Values, t \in Times : Put(k, v, t)

Spec == Init /\ [][Next]_log

-----------------------------------------------------------------------------
\* Readers.

\* MUTANT: an interval holds at its end too.
CoversEnd(iv, t) == iv.from <= t /\ (iv.to = None \/ t <= iv.to)

Covers(iv, t) == iv.from <= t /\ (iv.to = None \/ t < iv.to)

Covering(rows, t) == {i \in 1..Len(rows) : Covers(rows[i], t)}

Precedes(rows, i, j) ==
  \/ rows[i].from < rows[j].from
  \/ rows[i].from = rows[j].from /\ i < j

\* value_at and as_of return the first interval that covers the time.
FirstAt(rows, t) == CHOOSE i \in Covering(rows, t) :
                      \A j \in Covering(rows, t) : ~Precedes(rows, j, i)

ValueAt(rows, t) ==
  IF Covering(rows, t) = {} THEN None ELSE rows[FirstAt(rows, t)].value

\* posture_history.as_of lets a later start overwrite an earlier one; rows with
\* equal starts come in any order, and the one that is kept is any of them.
SnapshotAt(rows, t) ==
  {rows[i].value : i \in {i \in Covering(rows, t) :
     \A j \in Covering(rows, t) : rows[j].from <= rows[i].from}}

-----------------------------------------------------------------------------
\* Type of the log; no interval ends before it starts.
TypeOK ==
  /\ log \in [Keys -> Seq(Intervals)]
  /\ \A k \in Keys : \A i \in 1..Len(log[k]) :
       log[k][i].to # None => log[k][i].from <= log[k][i].to

\* A put closes the open interval and opens a new one (bitemporal.py:40).
OneOpen ==
  \A k \in Keys : \A i, j \in 1..Len(log[k]) :
    log[k][i].to = None /\ log[k][j].to = None => i = j

\* The database query finds what the in-memory log finds: one value or none.
ReadersAgree ==
  \A k \in Keys, t \in Times :
    SnapshotAt(log[k], t) = {ValueAt(log[k], t)} \ {None}

LatestPut(rows) ==
  IF rows = <<>> THEN None ELSE <<rows[Len(rows)].value, rows[Len(rows)].from>>

AsOf == INSTANCE AsOfMap WITH
          held <- [k \in Keys |-> [t \in Times |-> ValueAt(log[k], t)]],
          latest <- [k \in Keys |-> LatestPut(log[k])]

\* In-order puts implement a map from moments to values: a later put never
\* changes what held before it.
ImplementsAsOf == AsOf!Spec
=============================================================================

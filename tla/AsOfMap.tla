------------------------------- MODULE AsOfMap -------------------------------
(***************************************************************************)
(* What a valid-time log promises its readers, app/services/bitemporal.py: *)
(* for every key and every moment, the value that held then.  A value put  *)
(* at a moment holds from that moment on, and the past stays as it was.    *)
(***************************************************************************)
EXTENDS Naturals

CONSTANTS Keys, Values, Times, None

VARIABLES held,   \* held[k][t] is the value of k at time t, or None
          latest  \* the latest put of each key, <<value, time>>, or None

vars == <<held, latest>>

Init ==
  /\ held = [k \in Keys |-> [t \in Times |-> None]]
  /\ latest = [k \in Keys |-> None]

Put(k, v, t) ==
  /\ held' = [held EXCEPT ![k] = [s \in Times |-> IF t <= s THEN v ELSE held[k][s]]]
  /\ latest' = [latest EXCEPT ![k] = <<v, t>>]

Next == \E k \in Keys, v \in Values, t \in Times : Put(k, v, t)

Spec == Init /\ [][Next]_vars
=============================================================================

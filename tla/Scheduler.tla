------------------------------ MODULE Scheduler ------------------------------
(***************************************************************************)
(* The background runner of app/services/scheduler.py.  Every replica of   *)
(* the service is a worker that wakes periodically, loads the due          *)
(* schedules, and for each one takes a lease with one conditional UPDATE,  *)
(* executes it, commits and releases.  Requests run a schedule by hand     *)
(* without taking the lease.  Schedules are created and deleted meanwhile  *)
(* and workers crash and restart.                                          *)
(*                                                                         *)
(* Times are relative to the present: Advance ages them all by one unit.   *)
(* nextIn[s] is next_run_at minus the present, leaseIn[s] is locked_until  *)
(* minus the present, nowAge[w] is how long ago worker w's tick read       *)
(* `now`.  The code reads it once per tick, so a claim made late in a long *)
(* tick compares and writes with a `now` that is nowAge[w] old.            *)
(***************************************************************************)
EXTENDS Integers, FiniteSets

CONSTANTS Schedules,  \* rows of the schedules table that are ever created
          Workers,    \* replicas, each with one runner thread
          Requests,   \* concurrent POST /schedules/{id}/run requests
          NoOne,      \* locked_by IS NULL, or no schedule in hand
          Dead,       \* the WORKER_ID of a process that no longer exists
          Lease,      \* LEASE_SECONDS
          Interval,   \* interval_minutes of each schedule
          MaxTick,    \* bound: no tick lasts longer than this
          MaxCrashes  \* bound: crashes considered

ASSUME ConstantsAssumption ==
  /\ NoOne \notin Workers /\ NoOne \notin Schedules
  /\ Dead \notin Workers /\ Dead # NoOne
  /\ Lease \in Nat \ {0}
  /\ Interval \in [Schedules -> Nat \ {0}]
  /\ MaxTick \in Nat \ {0}
  /\ MaxCrashes \in Nat

VARIABLES
  row,       \* row[s]: "new" before it is created, "on"/"off" = enabled, "gone"
  nextIn,    \* next_run_at, relative; floored at -MaxTick
  lockedBy,  \* locked_by
  leaseIn,   \* locked_until, relative; floored at -MaxTick
  pc,        \* where each worker's run_due is
  due,       \* schedules of this tick not looked at yet
  cur,       \* the schedule in hand
  nowAge,    \* age of the tick's `now`
  expired,   \* the session committed in this tick, so its ORM objects reload
  manual,    \* the schedule each request is running, or NoOne
  crashes

table == <<row, nextIn, lockedBy, leaseIn>>
tick == <<pc, due, cur, nowAge, expired>>
vars == <<table, tick, manual, crashes>>

-----------------------------------------------------------------------------
Present(s) == row[s] \in {"on", "off"}

\* Mutants of Claimable: each clause of the WHERE dropped or weakened.
ClaimableNotDue(w, s) ==
  Present(s) /\ (lockedBy[s] = NoOne \/ leaseIn[s] + nowAge[w] <= 0)
ClaimableOnlyIfFree(w, s) ==
  Present(s) /\ nextIn[s] + nowAge[w] <= 0 /\ lockedBy[s] = NoOne

\* The WHERE clause of _claim, evaluated with the tick's own `now`.
Claimable(w, s) ==
  /\ Present(s)
  /\ nextIn[s] + nowAge[w] <= 0
  /\ lockedBy[s] = NoOne \/ leaseIn[s] + nowAge[w] <= 0

\* The worker goes back to _stop.wait().
EndTick(w) ==
  /\ pc' = [pc EXCEPT ![w] = "idle"]
  /\ due' = [due EXCEPT ![w] = {}]
  /\ cur' = [cur EXCEPT ![w] = NoOne]
  /\ nowAge' = [nowAge EXCEPT ![w] = 0]
  /\ expired' = [expired EXCEPT ![w] = FALSE]

-----------------------------------------------------------------------------
Init ==
  /\ row \in [Schedules -> {"new", "on", "off"}]
  /\ nextIn = [s \in Schedules |-> 0]
  /\ lockedBy = [s \in Schedules |-> NoOne]
  /\ leaseIn = [s \in Schedules |-> 0]
  /\ pc = [w \in Workers |-> "idle"]
  /\ due = [w \in Workers |-> {}]
  /\ cur = [w \in Workers |-> NoOne]
  /\ nowAge = [w \in Workers |-> 0]
  /\ expired = [w \in Workers |-> FALSE]
  /\ manual = [r \in Requests |-> NoOne]
  /\ crashes = 0

\* POST /schedules: next_run_at is the present.
Create(s) ==
  /\ row[s] = "new"
  /\ \E e \in {"on", "off"} : row' = [row EXCEPT ![s] = e]
  /\ nextIn' = [nextIn EXCEPT ![s] = 0]
  /\ UNCHANGED <<lockedBy, leaseIn, tick, manual, crashes>>

\* DELETE /schedules/{id}, whoever is running it.
Delete(s) ==
  /\ Present(s)
  /\ row' = [row EXCEPT ![s] = "gone"]
  /\ lockedBy' = [lockedBy EXCEPT ![s] = NoOne]
  /\ leaseIn' = [leaseIn EXCEPT ![s] = 0]
  /\ UNCHANGED <<nextIn, tick, manual, crashes>>

\* run_due loads the enabled due schedules, then reads `now`.
LoadDue(w) ==
  /\ pc[w] = "idle"
  /\ LET found == {s \in Schedules : row[s] = "on" /\ nextIn[s] <= 0}
     IN  /\ found # {}
         /\ due' = [due EXCEPT ![w] = found]
  /\ pc' = [pc EXCEPT ![w] = "scan"]
  /\ UNCHANGED <<table, cur, nowAge, expired, manual, crashes>>

\* _claim matched the row: the lease runs for Lease from the tick's `now`.
ClaimWin(w) ==
  /\ pc[w] = "scan"
  /\ \E s \in due[w] :
       /\ Claimable(w, s)
       /\ lockedBy' = [lockedBy EXCEPT ![s] = w]
       /\ leaseIn' = [leaseIn EXCEPT ![s] = Lease - nowAge[w]]
       /\ due' = [due EXCEPT ![w] = @ \ {s}]
       /\ cur' = [cur EXCEPT ![w] = s]
  /\ pc' = [pc EXCEPT ![w] = "claimed"]
  /\ expired' = [expired EXCEPT ![w] = TRUE]
  /\ UNCHANGED <<row, nextIn, nowAge, manual, crashes>>

\* _claim matched no row: skipped.  Its commit still expires the session.
\* Reading s.schedule_id of a deleted row on an expired session raises, which
\* TickAborts models.
ClaimLose(w) ==
  /\ pc[w] = "scan"
  /\ \E s \in due[w] :
       /\ ~Claimable(w, s)
       /\ Present(s) \/ ~expired[w]
       /\ due' = [due EXCEPT ![w] = @ \ {s}]
  /\ expired' = [expired EXCEPT ![w] = TRUE]
  /\ UNCHANGED <<table, pc, cur, nowAge, manual, crashes>>

\* A schedule of the list was deleted after the session's first commit of the
\* tick: loading its schedule_id raises outside the inner try, and the rest
\* of the list waits for the next tick.
TickAborts(w) ==
  /\ pc[w] = "scan"
  /\ expired[w]
  /\ \E s \in due[w] : ~Present(s)
  /\ EndTick(w)
  /\ UNCHANGED <<table, manual, crashes>>

\* The for loop is exhausted.
TickDone(w) ==
  /\ pc[w] = "scan"
  /\ due[w] = {}
  /\ EndTick(w)
  /\ UNCHANGED <<table, manual, crashes>>

\* db.refresh(s) and _execute begin.  A row deleted since the claim raises
\* here, and again in the handler and in the finally clause, which read
\* s.schedule_id: the tick ends.
StartRun(w) ==
  /\ pc[w] = "claimed"
  /\ \/ /\ Present(cur[w])
        /\ pc' = [pc EXCEPT ![w] = "running"]
        /\ UNCHANGED <<due, cur, nowAge, expired>>
     \/ ~Present(cur[w]) /\ EndTick(w)
  /\ UNCHANGED <<table, manual, crashes>>

\* _execute sets last_run_at and next_run_at, and the tick commits.
CommitRun(w) ==
  /\ pc[w] = "running"
  /\ Present(cur[w])
  /\ nextIn' = [nextIn EXCEPT ![cur[w]] = Interval[cur[w]]]
  /\ pc' = [pc EXCEPT ![w] = "release"]
  /\ UNCHANGED <<row, lockedBy, leaseIn, due, cur, nowAge, expired,
                 manual, crashes>>

\* _execute or the commit raised (always so for a deleted row, whose UPDATE
\* matches nothing): rollback, next_run_at keeps its value.
FailRun(w) ==
  /\ pc[w] = "running"
  /\ pc' = [pc EXCEPT ![w] = "release"]
  /\ UNCHANGED <<table, due, cur, nowAge, expired, manual, crashes>>

\* Mutant of Release: locked_by is not compared with this worker.
ReleaseOfAnyone(w) ==
  /\ pc[w] = "release"
  /\ Present(cur[w])
  /\ lockedBy' = [lockedBy EXCEPT ![cur[w]] = NoOne]
  /\ leaseIn' = [leaseIn EXCEPT ![cur[w]] = 0]
  /\ pc' = [pc EXCEPT ![w] = "scan"]
  /\ cur' = [cur EXCEPT ![w] = NoOne]
  /\ UNCHANGED <<row, nextIn, due, nowAge, expired, manual, crashes>>

\* _release drops the lease only if this worker still holds it.  The
\* argument s.schedule_id raises when the row is gone, which ends the tick.
Release(w) ==
  /\ pc[w] = "release"
  /\ \/ /\ Present(cur[w])
        /\ LET s == cur[w]
               held == lockedBy[s] = w
           IN  /\ lockedBy' = [lockedBy EXCEPT ![s] = IF held THEN NoOne ELSE @]
               /\ leaseIn' = [leaseIn EXCEPT ![s] = IF held THEN 0 ELSE @]
        /\ pc' = [pc EXCEPT ![w] = "scan"]
        /\ cur' = [cur EXCEPT ![w] = NoOne]
        /\ UNCHANGED <<due, nowAge, expired>>
     \/ ~Present(cur[w]) /\ EndTick(w) /\ UNCHANGED <<lockedBy, leaseIn>>
  /\ UNCHANGED <<row, nextIn, manual, crashes>>

\* The UPDATE or the commit of _release raised and was logged.
ReleaseFails(w) ==
  /\ pc[w] = "release"
  /\ Present(cur[w])
  /\ pc' = [pc EXCEPT ![w] = "scan"]
  /\ cur' = [cur EXCEPT ![w] = NoOne]
  /\ UNCHANGED <<table, due, nowAge, expired, manual, crashes>>

\* POST /schedules/{id}/run: no lease, no look at enabled or next_run_at.
ManualStart(r) ==
  /\ manual[r] = NoOne
  /\ \E s \in Schedules : Present(s) /\ manual' = [manual EXCEPT ![r] = s]
  /\ UNCHANGED <<table, tick, crashes>>

\* The request's transaction commits, or rolls back.
ManualEnd(r) ==
  /\ manual[r] # NoOne
  /\ \/ /\ Present(manual[r])
        /\ nextIn' = [nextIn EXCEPT ![manual[r]] = Interval[manual[r]]]
     \/ UNCHANGED nextIn
  /\ manual' = [manual EXCEPT ![r] = NoOne]
  /\ UNCHANGED <<row, lockedBy, leaseIn, tick, crashes>>

\* A process dies and is replaced by one with a fresh WORKER_ID: its leases
\* belong to nobody who could release them.
Crash(w) ==
  /\ crashes < MaxCrashes
  /\ pc[w] # "idle"
  /\ crashes' = crashes + 1
  /\ lockedBy' = [s \in Schedules |-> IF lockedBy[s] = w THEN Dead ELSE lockedBy[s]]
  /\ EndTick(w)
  /\ UNCHANGED <<row, nextIn, leaseIn, manual>>

Aged(t) == IF t > -MaxTick THEN t - 1 ELSE t

\* One unit of time passes for every clock.
Advance ==
  /\ \A w \in Workers : nowAge[w] < MaxTick
  /\ nextIn' = [s \in Schedules |-> Aged(nextIn[s])]
  /\ leaseIn' = [s \in Schedules |-> Aged(leaseIn[s])]
  /\ nowAge' = [w \in Workers |-> IF pc[w] = "idle" THEN 0 ELSE nowAge[w] + 1]
  /\ UNCHANGED <<row, lockedBy, pc, due, cur, expired, manual, crashes>>

WorkerStep(w) ==
  \/ LoadDue(w) \/ ClaimWin(w) \/ ClaimLose(w) \/ TickAborts(w) \/ TickDone(w)
  \/ StartRun(w) \/ CommitRun(w) \/ FailRun(w) \/ Release(w) \/ ReleaseFails(w)

Next ==
  \/ \E s \in Schedules : Create(s) \/ Delete(s)
  \/ \E w \in Workers : WorkerStep(w) \/ Crash(w)
  \/ \E r \in Requests : ManualStart(r) \/ ManualEnd(r)
  \/ Advance

\* Runner threads keep waking and finish what they began; time passes.
Fairness == WF_vars(Advance) /\ \A w \in Workers : WF_vars(WorkerStep(w))

Spec == Init /\ [][Next]_vars
FairSpec == Spec /\ Fairness

-----------------------------------------------------------------------------
TypeOK ==
  /\ row \in [Schedules -> {"new", "on", "off", "gone"}]
  /\ nextIn \in [Schedules -> Int]
  /\ lockedBy \in [Schedules -> Workers \cup {NoOne, Dead}]
  /\ leaseIn \in [Schedules -> Int]
  /\ pc \in [Workers -> {"idle", "scan", "claimed", "running", "release"}]
  /\ due \in [Workers -> SUBSET Schedules]
  /\ cur \in [Workers -> Schedules \cup {NoOne}]
  /\ nowAge \in [Workers -> 0..MaxTick]
  /\ expired \in [Workers -> BOOLEAN]
  /\ manual \in [Requests -> Schedules \cup {NoOne}]
  /\ crashes \in 0..MaxCrashes
  /\ \A w \in Workers :
       /\ (cur[w] # NoOne) <=> (pc[w] \in {"claimed", "running", "release"})
       /\ pc[w] = "idle" => due[w] = {} /\ nowAge[w] = 0

Busy(w, s) == pc[w] \in {"claimed", "running", "release"} /\ cur[w] = s

\* While the lease a worker took has not run out, the row still names that
\* worker and the lease's end: nobody stole it, and no late _release of
\* another worker dropped it.
LeaseHonoured ==
  \A w \in Workers, s \in Schedules :
    Busy(w, s) /\ Present(s) /\ nowAge[w] < Lease =>
      lockedBy[s] = w /\ leaseIn[s] = Lease - nowAge[w]

\* Two replicas execute one schedule together only if the lease of one of
\* them has already run out.
ExclusiveWhileLeased ==
  \A v, w \in Workers, s \in Schedules :
    v # w /\ Present(s) /\ Busy(v, s) /\ Busy(w, s) =>
      nowAge[v] >= Lease \/ nowAge[w] >= Lease

\* A list of due schedules that has gone stale never makes a worker run a
\* schedule that another replica, or a request, has already run and
\* rescheduled: whatever was loaded, a claim is won only on a row due now.
StaleListNeverReruns ==
  [][\A w \in Workers :
       pc[w] = "scan" /\ pc'[w] = "claimed" => nextIn[cur'[w]] <= 0]_vars

\* Every schedule that is enabled and due is eventually attempted by some
\* replica (or run by hand, or deleted), in spite of crashed lease holders,
\* failed releases and aborted ticks.
DueIsAttempted ==
  \A s \in Schedules :
    (row[s] = "on" /\ nextIn[s] <= 0) ~>
      (~Present(s) \/ nextIn[s] > 0 \/ \E w \in Workers : Busy(w, s))
=============================================================================

--------------------------- MODULE Scheduler_proofs ---------------------------
(***************************************************************************)
(* Proofs about Scheduler for every set of schedules, workers and requests *)
(* and every lease, interval and bound.                                    *)
(***************************************************************************)
EXTENDS Scheduler, TLAPS

\* Type correctness of the schedules table and of every replica's tick.
THEOREM TypeCorrect == Spec => []TypeOK
<1>1. Init => TypeOK
  BY ConstantsAssumption DEF Init, TypeOK
<1>2. TypeOK /\ [Next]_vars => TypeOK'
  <2> SUFFICES ASSUME TypeOK, [Next]_vars PROVE TypeOK'
    OBVIOUS
  <2> USE ConstantsAssumption DEF TypeOK
  <2>1. ASSUME NEW s \in Schedules, Create(s) PROVE TypeOK'
    BY <2>1 DEF Create, tick
  <2>2. ASSUME NEW s \in Schedules, Delete(s) PROVE TypeOK'
    BY <2>2 DEF Delete, tick
  <2>3. ASSUME NEW w \in Workers, LoadDue(w) PROVE TypeOK'
    BY <2>3 DEF LoadDue, table
  <2>4. ASSUME NEW w \in Workers, ClaimWin(w) PROVE TypeOK'
    BY <2>4 DEF ClaimWin
  <2>5. ASSUME NEW w \in Workers, ClaimLose(w) PROVE TypeOK'
    BY <2>5 DEF ClaimLose, table
  <2>6. ASSUME NEW w \in Workers, TickAborts(w) PROVE TypeOK'
    BY <2>6 DEF TickAborts, EndTick, table
  <2>7. ASSUME NEW w \in Workers, TickDone(w) PROVE TypeOK'
    BY <2>7 DEF TickDone, EndTick, table
  <2>8. ASSUME NEW w \in Workers, StartRun(w) PROVE TypeOK'
    <3>1. CASE /\ pc' = [pc EXCEPT ![w] = "running"]
               /\ UNCHANGED <<due, cur, nowAge, expired>>
      BY <2>8, <3>1 DEF StartRun, table
    <3>2. CASE EndTick(w)
      BY <2>8, <3>2 DEF StartRun, EndTick, table
    <3> QED
      BY <2>8, <3>1, <3>2 DEF StartRun
  <2>9. ASSUME NEW w \in Workers, CommitRun(w) PROVE TypeOK'
    BY <2>9 DEF CommitRun, Present
  <2>10. ASSUME NEW w \in Workers, FailRun(w) PROVE TypeOK'
    BY <2>10 DEF FailRun, table
  <2>11. ASSUME NEW w \in Workers, Release(w) PROVE TypeOK'
    <3>1. CASE EndTick(w) /\ UNCHANGED <<lockedBy, leaseIn>>
      BY <2>11, <3>1 DEF Release, EndTick
    <3>2. CASE /\ pc' = [pc EXCEPT ![w] = "scan"]
               /\ cur' = [cur EXCEPT ![w] = NoOne]
               /\ UNCHANGED <<due, nowAge, expired>>
      BY <2>11, <3>2 DEF Release, EndTick
    <3> QED
      BY <2>11, <3>1, <3>2 DEF Release
  <2>12. ASSUME NEW w \in Workers, ReleaseFails(w) PROVE TypeOK'
    BY <2>12 DEF ReleaseFails, table
  <2>13. ASSUME NEW w \in Workers, Crash(w) PROVE TypeOK'
    BY <2>13 DEF Crash, EndTick
  <2>14. ASSUME NEW r \in Requests, ManualStart(r) PROVE TypeOK'
    BY <2>14 DEF ManualStart, table, tick
  <2>15. ASSUME NEW r \in Requests, ManualEnd(r) PROVE TypeOK'
    BY <2>15 DEF ManualEnd, tick
  <2>16. ASSUME Advance PROVE TypeOK'
    BY <2>16 DEF Advance, Aged
  <2>17. ASSUME UNCHANGED vars PROVE TypeOK'
    BY <2>17 DEF vars, table, tick
  <2> QED
    BY <2>1, <2>2, <2>3, <2>4, <2>5, <2>6, <2>7, <2>8, <2>9, <2>10, <2>11,
       <2>12, <2>13, <2>14, <2>15, <2>16, <2>17 DEF Next, WorkerStep
<1> QED
  BY <1>1, <1>2, PTL DEF Spec

-----------------------------------------------------------------------------
\* A schedule in hand was created before: Create cannot bring to life the row
\* a worker is busy with.
BusyNotNew ==
  \A w \in Workers, s \in Schedules : Busy(w, s) => row[s] # "new"

\* The strengthening of LeaseHonoured that every step preserves.
LeaseInv == TypeOK /\ BusyNotNew /\ LeaseHonoured

\* What LeaseHonoured says of one worker and one schedule.
HonouredFor(w, s) ==
  Busy(w, s) /\ Present(s) /\ nowAge[w] < Lease =>
    lockedBy[s] = w /\ leaseIn[s] = Lease - nowAge[w]

\* A step that leaves the schedules table and the worker's tick alone
\* preserves what is said of them.
LEMMA FrameHonoured ==
  ASSUME NEW w \in Workers, NEW s \in Schedules, HonouredFor(w, s),
         row'[s] = row[s], lockedBy'[s] = lockedBy[s], leaseIn'[s] = leaseIn[s],
         nowAge'[w] = nowAge[w], Busy(w, s)' => Busy(w, s)
  PROVE  HonouredFor(w, s)'
  BY DEF HonouredFor, Present

\* No step of the table or of any replica makes a worker busy with a row
\* that was never created.
LEMMA BusyNotNewStep == TypeOK /\ BusyNotNew /\ [Next]_vars => BusyNotNew'
  <1> SUFFICES ASSUME TypeOK, BusyNotNew, [Next]_vars,
                      NEW w \in Workers, NEW s \in Schedules, Busy(w, s)'
               PROVE  (row[s] # "new")'
    BY DEF BusyNotNew
  <1> USE DEF TypeOK, Busy
  <1>1. ASSUME Busy(w, s), row'[s] = "new" PROVE FALSE
    <2>1. row[s] # "new"
      BY <1>1 DEF BusyNotNew
    <2>2. row'[s] = row[s] \/ row'[s] # "new"
      BY DEF Next, WorkerStep, Create, Delete, LoadDue, ClaimWin, ClaimLose,
             TickAborts, TickDone, StartRun, CommitRun, FailRun, Release,
             ReleaseFails, ManualStart, ManualEnd, Crash, Advance, EndTick,
             vars, table, tick
    <2> QED
      BY <1>1, <2>1, <2>2
  <1>2. ASSUME ~Busy(w, s) PROVE row'[s] # "new"
    <2>1. ClaimWin(w)
      BY <1>2 DEF Next, WorkerStep, Create, Delete, LoadDue, ClaimWin,
             ClaimLose, TickAborts, TickDone, StartRun, CommitRun, FailRun,
             Release, ReleaseFails, ManualStart, ManualEnd, Crash, Advance,
             EndTick, vars, table, tick
    <2> QED
      BY <2>1 DEF ClaimWin, Claimable, Present
  <1> QED
    BY <1>1, <1>2

\* The lease a worker took is still its own until it runs out, whatever the
\* other replicas, the requests and the clock do.
LEMMA LeaseStep == LeaseInv /\ [Next]_vars => LeaseHonoured'
  <1> SUFFICES ASSUME LeaseInv, [Next]_vars,
                      NEW w \in Workers, NEW s \in Schedules
               PROVE  HonouredFor(w, s)'
    BY DEF LeaseHonoured, HonouredFor
  <1> USE ConstantsAssumption DEF TypeOK
  <1>0. TypeOK /\ BusyNotNew /\ HonouredFor(w, s)
    BY DEF LeaseInv, LeaseHonoured, HonouredFor
  <1>1. ASSUME NEW x \in Schedules, Create(x) PROVE HonouredFor(w, s)'
    <2>1. CASE x = s
      BY <1>0, <1>1, <2>1 DEF Create, BusyNotNew, HonouredFor, Busy, tick
    <2>2. CASE x # s
      BY <1>0, <1>1, <2>2, FrameHonoured DEF Create, Busy, tick
    <2> QED
      BY <2>1, <2>2
  <1>2. ASSUME NEW x \in Schedules, Delete(x) PROVE HonouredFor(w, s)'
    <2>1. CASE x = s
      BY <1>0, <1>2, <2>1 DEF Delete, HonouredFor, Present
    <2>2. CASE x # s
      BY <1>0, <1>2, <2>2, FrameHonoured DEF Delete, Busy, tick
    <2> QED
      BY <2>1, <2>2
  <1>3. ASSUME NEW v \in Workers,
               LoadDue(v) \/ ClaimLose(v) \/ TickAborts(v) \/ TickDone(v)
                 \/ StartRun(v) \/ CommitRun(v) \/ FailRun(v) \/ ReleaseFails(v)
        PROVE  HonouredFor(w, s)'
    <2>1. UNCHANGED <<row, lockedBy, leaseIn>>
      BY <1>3 DEF LoadDue, ClaimLose, TickAborts, TickDone, StartRun,
                  CommitRun, FailRun, ReleaseFails, table
    <2>2. ASSUME Busy(w, s)' PROVE Busy(w, s) /\ nowAge'[w] = nowAge[w]
      BY <1>0, <1>3, <2>2 DEF LoadDue, ClaimLose, TickAborts, TickDone,
           StartRun, CommitRun, FailRun, ReleaseFails, EndTick, Busy
    <2> QED
      BY <1>0, <2>1, <2>2 DEF HonouredFor, Present
  <1>4. ASSUME NEW v \in Workers, ClaimWin(v) PROVE HonouredFor(w, s)'
    <2>1. PICK x \in due[v] :
            /\ Claimable(v, x)
            /\ lockedBy' = [lockedBy EXCEPT ![x] = v]
            /\ leaseIn' = [leaseIn EXCEPT ![x] = Lease - nowAge[v]]
            /\ cur' = [cur EXCEPT ![v] = x]
      BY <1>4 DEF ClaimWin
    <2>2. x \in Schedules /\ UNCHANGED <<row, nowAge>>
      BY <1>0, <1>4 DEF ClaimWin
    <2>3. CASE v = w
      BY <1>0, <1>4, <2>1, <2>2, <2>3 DEF ClaimWin, HonouredFor, Busy
    <2>4. CASE v # w /\ x = s
      <3>1. Busy(w, s)' => Busy(w, s)
        BY <1>0, <1>4, <2>1, <2>4 DEF ClaimWin, Busy
      <3>2. ~(Busy(w, s) /\ nowAge[w] < Lease)
        BY <1>0, <2>1, <2>2, <2>4 DEF HonouredFor, Claimable
      <3> QED
        BY <2>2, <3>1, <3>2 DEF HonouredFor
    <2>5. CASE v # w /\ x # s
      BY <1>0, <1>4, <2>1, <2>2, <2>5 DEF ClaimWin, Busy, HonouredFor, Present
    <2> QED
      BY <2>3, <2>4, <2>5
  <1>5. ASSUME NEW v \in Workers, Release(v) PROVE HonouredFor(w, s)'
    <2>1. ASSUME Busy(w, s)' PROVE Busy(w, s) /\ v # w /\ nowAge'[w] = nowAge[w]
      BY <1>0, <1>5, <2>1 DEF Release, EndTick, Busy
    <2>2. ASSUME lockedBy[s] # v
          PROVE  lockedBy'[s] = lockedBy[s] /\ leaseIn'[s] = leaseIn[s]
      BY <1>0, <1>5, <2>2 DEF Release
    <2>3. row' = row
      BY <1>5 DEF Release
    <2> QED
      BY <1>0, <2>1, <2>2, <2>3 DEF HonouredFor, Present
  <1>6. ASSUME NEW v \in Workers, Crash(v) PROVE HonouredFor(w, s)'
    <2>1. ASSUME Busy(w, s)' PROVE Busy(w, s) /\ v # w /\ nowAge'[w] = nowAge[w]
      BY <1>0, <1>6, <2>1 DEF Crash, EndTick, Busy
    <2>2. ASSUME lockedBy[s] # v PROVE lockedBy'[s] = lockedBy[s]
      BY <1>0, <1>6, <2>2 DEF Crash
    <2>3. UNCHANGED <<row, leaseIn>>
      BY <1>6 DEF Crash
    <2> QED
      BY <1>0, <2>1, <2>2, <2>3 DEF HonouredFor, Present
  <1>7. ASSUME NEW r \in Requests, ManualStart(r) \/ ManualEnd(r)
        PROVE  HonouredFor(w, s)'
    <2>1. UNCHANGED <<row, lockedBy, leaseIn, pc, cur, nowAge>>
      BY <1>7 DEF ManualStart, ManualEnd, table, tick
    <2> QED
      BY <1>0, <2>1, FrameHonoured DEF Busy
  <1>8. ASSUME Advance PROVE HonouredFor(w, s)'
    <2>1. Busy(w, s)' => Busy(w, s) /\ nowAge'[w] = nowAge[w] + 1
      BY <1>0, <1>8 DEF Advance, Busy
    <2>2. leaseIn[s] > 0 => leaseIn'[s] = leaseIn[s] - 1
      BY <1>0, <1>8 DEF Advance, Aged
    <2>3. UNCHANGED <<row, lockedBy>>
      BY <1>8 DEF Advance
    <2> QED
      BY <1>0, <2>1, <2>2, <2>3 DEF HonouredFor, Present
  <1>9. ASSUME UNCHANGED vars PROVE HonouredFor(w, s)'
    BY <1>0, <1>9, FrameHonoured DEF vars, table, tick, Busy
  <1> QED
    BY <1>1, <1>2, <1>3, <1>4, <1>5, <1>6, <1>7, <1>8, <1>9
    DEF Next, WorkerStep

\* A lease in force is never stolen and never dropped by a late release.
THEOREM LeaseSafety == Spec => []LeaseHonoured
<1>1. Init => LeaseInv
  BY ConstantsAssumption
  DEF Init, LeaseInv, TypeOK, BusyNotNew, LeaseHonoured, Busy
<1>2. LeaseInv /\ TypeOK' /\ [Next]_vars => LeaseInv'
  BY BusyNotNewStep, LeaseStep DEF LeaseInv
<1>3. LeaseInv => LeaseHonoured
  BY DEF LeaseInv
<1> QED
  BY <1>1, <1>2, <1>3, TypeCorrect, PTL DEF Spec

\* Two replicas are busy with one schedule only after a lease ran out.
THEOREM Exclusion == Spec => []ExclusiveWhileLeased
<1>1. TypeOK /\ LeaseHonoured => ExclusiveWhileLeased
  <2> SUFFICES ASSUME TypeOK, LeaseHonoured, NEW v \in Workers, NEW w \in Workers,
                      NEW s \in Schedules, v # w, Present(s), Busy(v, s), Busy(w, s),
                      nowAge[v] < Lease, nowAge[w] < Lease
               PROVE  FALSE
    BY ConstantsAssumption DEF ExclusiveWhileLeased, TypeOK
  <2> QED
    BY DEF LeaseHonoured
<1> QED
  BY <1>1, TypeCorrect, LeaseSafety, PTL

\* Whatever stale list a replica works through, it claims only schedules that
\* are due at that moment.
THEOREM NoStaleRerun == Spec => StaleListNeverReruns
<1>1. TypeOK /\ [Next]_vars =>
        [\A w \in Workers :
           pc[w] = "scan" /\ pc'[w] = "claimed" => nextIn[cur'[w]] <= 0]_vars
  <2> SUFFICES ASSUME TypeOK, Next, NEW w \in Workers,
                      pc[w] = "scan", pc'[w] = "claimed"
               PROVE  nextIn[cur'[w]] <= 0
    BY DEF TypeOK
  <2>1. ClaimWin(w)
    BY DEF TypeOK, Next, WorkerStep, Create, Delete, LoadDue, ClaimWin,
           ClaimLose, TickAborts, TickDone, StartRun, CommitRun, FailRun,
           Release, ReleaseFails, ManualStart, ManualEnd, Crash, Advance,
           EndTick, table, tick
  <2> QED
    BY <2>1, ConstantsAssumption DEF ClaimWin, Claimable, TypeOK
<1> QED
  BY <1>1, TypeCorrect, PTL DEF Spec, StaleListNeverReruns
=============================================================================

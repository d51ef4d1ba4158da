----------------------------- MODULE MCScheduler -----------------------------
(* Bounds for model-checking Scheduler: several replicas contend for one    *)
(* schedule, or one replica works through a list of several, alone.         *)
EXTENDS Scheduler

VARIABLE cast  \* the replicas and the schedules of this behaviour

\* A schedule comes round again in less than the longest tick.
MCInterval == [s \in Schedules |-> 1]

Casts ==
  LET one(S) == {CHOOSE x \in S : TRUE}
  IN  {[replicas |-> Workers, rows |-> one(Schedules)],
       [replicas |-> one(Workers), rows |-> Schedules]}

MCInit ==
  /\ Init
  /\ cast \in Casts
  /\ \A s \in Schedules \ cast.rows : row[s] = "new"

MCNext ==
  /\ Next
  /\ \A w \in Workers \ cast.replicas : pc'[w] = "idle"
  /\ \A s \in Schedules \ cast.rows : row'[s] = "new"
  /\ cast.replicas # Workers => UNCHANGED <<manual, crashes>>
  /\ UNCHANGED cast

\* The fairness of FairSpec, for the replicas of the behaviour.
MCSpec ==
  /\ MCInit
  /\ [][MCNext]_<<vars, cast>>
  /\ WF_vars(Advance)
  /\ \A w \in Workers : WF_vars(w \in cast.replicas /\ WorkerStep(w))
=============================================================================

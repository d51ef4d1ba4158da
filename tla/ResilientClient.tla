-------------------------- MODULE ResilientClient --------------------------
(***************************************************************************)
(* The hardened HTTP client of the connectors, app/connectors/             *)
(* http_client.py, for one external service: a retry loop per request and  *)
(* the service's circuit breaker, one object that every thread of the      *)
(* process shares.                                                         *)
(*                                                                         *)
(* A breaker method runs between two calls of other Python code, so it is  *)
(* one step; a request is one step when it is sent and one when it is      *)
(* answered, and the breaker may change in between.  Time is the age of    *)
(* the breaker's opening, in ticks, which stops at Cooldown because only   *)
(* the comparison with the cooldown reads it; the failure count stops at   *)
(* FailThreshold for the same reason.  A response is one of five answers.  *)
(***************************************************************************)
EXTENDS Naturals, FiniteSets

CONSTANTS Callers,        \* threads that request something of the service
          FailThreshold,  \* CircuitBreaker.fail_threshold
          Cooldown,       \* CircuitBreaker.cooldown_seconds, in ticks
          MaxRetries,     \* ResilientClient.max_retries
          Never           \* _opened_at = 0.0

ClientAssumption ==
  /\ IsFiniteSet(Callers)
  /\ FailThreshold \in Nat \ {0} /\ Cooldown \in Nat \ {0} /\ MaxRetries \in Nat
  /\ Never \notin Nat

VARIABLES failures,    \* _failures, up to FailThreshold
          opened,      \* ticks since _opened_at, up to Cooldown, or Never
          pc,          \* where each caller is: "idle", "sent" or "asleep"
          attempt,     \* the loop variable of each caller
          mayBeAbsent, \* the caller's not_found_ok
          up,          \* the service answers
          leaked       \* requests sent since the breaker opened, while open

vars == <<failures, opened, pc, attempt, mayBeAbsent, up, leaked>>

Answers == {"ok", "absent", "denied", "retryable", "network"}

-----------------------------------------------------------------------------
\* The breaker.

\* MUTANT: the breaker never half-opens.
IsOpenForGood == failures >= FailThreshold /\ opened # Never

IsOpen == failures >= FailThreshold /\ opened # Never /\ opened < Cooldown

RecordSuccess ==
  /\ failures' = 0
  /\ opened' = Never
  /\ UNCHANGED leaked

\* The time of the opening is set once and stays until a success.
RecordFailure ==
  \/ /\ failures + 1 < FailThreshold
     /\ failures' = failures + 1
     /\ UNCHANGED <<opened, leaked>>
  \/ /\ failures + 1 >= FailThreshold
     /\ failures' = FailThreshold
     /\ IF opened = Never THEN opened' = 0 /\ leaked' = 0
                          ELSE UNCHANGED <<opened, leaked>>

-----------------------------------------------------------------------------
\* One request.

Init ==
  /\ failures = 0 /\ opened = Never
  /\ pc = [c \in Callers |-> "idle"]
  /\ attempt = [c \in Callers |-> 0]
  /\ mayBeAbsent = [c \in Callers |-> FALSE]
  /\ up \in BOOLEAN
  /\ leaked = 0

Send(c, n) ==
  /\ pc' = [pc EXCEPT ![c] = "sent"]
  /\ attempt' = [attempt EXCEPT ![c] = n]
  /\ leaked' = leaked + IF IsOpen THEN 1 ELSE 0

\* MUTANT: a caller begins whatever the breaker says.
BeginUnchecked(c) ==
  /\ pc[c] = "idle"
  /\ Send(c, 0)
  /\ \E ok \in BOOLEAN : mayBeAbsent' = [mayBeAbsent EXCEPT ![c] = ok]
  /\ UNCHANGED <<failures, opened, up>>

\* The breaker is read once, before the loop.
Begin(c) ==
  /\ pc[c] = "idle"
  /\ ~IsOpen
  /\ Send(c, 0)
  /\ \E ok \in BOOLEAN : mayBeAbsent' = [mayBeAbsent EXCEPT ![c] = ok]
  /\ UNCHANGED <<failures, opened, up>>

\* An open circuit refuses the request before anything is sent, as do the
\* checks of the method, the path and the host.
Refuse(c) == pc[c] = "idle" /\ UNCHANGED vars

Finish(c) ==
  /\ pc' = [pc EXCEPT ![c] = "idle"]
  /\ attempt' = [attempt EXCEPT ![c] = 0]
  /\ mayBeAbsent' = [mayBeAbsent EXCEPT ![c] = FALSE]

Retries(c, answer) ==
  answer \in {"retryable", "network"} /\ attempt[c] < MaxRetries

Accepts(c, answer) == answer = "ok" \/ (answer = "absent" /\ mayBeAbsent[c])

\* What the service says: it is down exactly when no call gets an answer of
\* the application behind it.
Says(answer) == up <=> answer \in {"ok", "absent", "denied"}

Retry(c) ==
  /\ pc[c] = "sent"
  /\ \E answer \in Answers : Says(answer) /\ Retries(c, answer)
  /\ RecordFailure
  /\ pc' = [pc EXCEPT ![c] = "asleep"]
  /\ UNCHANGED <<attempt, mayBeAbsent, up>>

Wake(c) ==
  /\ pc[c] = "asleep"
  /\ Send(c, attempt[c] + 1)
  /\ UNCHANGED <<failures, opened, mayBeAbsent, up>>

Succeed(c) ==
  /\ pc[c] = "sent"
  /\ \E answer \in Answers : Says(answer) /\ Accepts(c, answer)
  /\ RecordSuccess
  /\ Finish(c)
  /\ UNCHANGED up

\* Any other answer, and the last retryable one, is a failure of the service.
Fail(c) ==
  /\ pc[c] = "sent"
  /\ \E answer \in Answers :
       Says(answer) /\ ~Accepts(c, answer) /\ ~Retries(c, answer)
  /\ RecordFailure
  /\ Finish(c)
  /\ UNCHANGED up

-----------------------------------------------------------------------------
\* The world.

Tick ==
  /\ opened # Never /\ opened < Cooldown
  /\ opened' = opened + 1
  /\ UNCHANGED <<failures, pc, attempt, mayBeAbsent, up, leaked>>

Turn ==
  /\ up' = ~up
  /\ UNCHANGED <<failures, opened, pc, attempt, mayBeAbsent, leaked>>

Next ==
  \/ \E c \in Callers : \/ Begin(c) \/ Refuse(c) \/ Retry(c)
                        \/ Wake(c) \/ Succeed(c) \/ Fail(c)
  \/ Tick \/ Turn

Spec == Init /\ [][Next]_vars

\* A request has a timeout and a sleep has an end.
Answered(c) == Retry(c) \/ Succeed(c) \/ Fail(c)

\* Requests are answered or fail, sleepers wake, time goes on.  Nothing makes a
\* caller begin or the service recover.
Fairness == (\A c \in Callers : WF_vars(Answered(c)) /\ WF_vars(Wake(c))) /\ WF_vars(Tick)

-----------------------------------------------------------------------------
\* An open circuit does not stop the calls that are past its check, but it
\* bounds them: from one opening of the breaker to its next success, no more
\* than the retries left to the callers reach the service while it is open.
LeakIsBounded == leaked <= Cardinality(Callers) * MaxRetries

\* An open circuit closes or lets a probe through, whatever the others do.
OpenEnds == IsOpen ~> ~IsOpen
=============================================================================

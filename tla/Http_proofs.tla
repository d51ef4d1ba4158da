----------------------------- MODULE Http_proofs -----------------------------
(***************************************************************************)
(* Proofs about the HTTP edges of the system, as MCHttp puts them side by  *)
(* side: the walk over the pages of a collection, the breaker and the      *)
(* retries of the connectors' client, the rate limiter and the compression *)
(* of responses.  Each theorem is about one of them alone, for any number  *)
(* of pages, callers and clients, any limit and any window.                *)
(***************************************************************************)
EXTENDS MCHttp, FiniteSetTheorems, WellFoundedInduction, SequenceTheorems, TLAPS

-----------------------------------------------------------------------------
(* Paging: what is returned is the whole collection.                        *)

\* The pages collected are a walk without a repetition, and the page to ask
\* for next is the one the last of them links to.
Trail ==
  /\ IsWalk(out)
  /\ \A i, j \in 1..Len(out) : out[i] = out[j] => i = j
  /\ Len(out) = 0 => next = First
  /\ Len(out) > 0 => next = NextLink(out[Len(out)])
  /\ result = "returned" => next = None

\* Appending the page after the last one keeps a walk a walk.
LEMMA WalkGrows ==
  ASSUME TypeOK, IsWalk(out), NEW p \in Pages,
         Len(out) = 0 => p = First,
         Len(out) > 0 => p = NextLink(out[Len(out)])
  PROVE  IsWalk(Append(out, p))
<1> DEFINE n == Len(out)
           longer == Append(out, p)
<1>1. /\ n \in Nat
      /\ Len(longer) = n + 1
      /\ longer[n + 1] = p
      /\ \A i \in 1..n : longer[i] = out[i]
  BY DEF TypeOK
<1>2. Len(longer) > 0 => longer[1] = First
  BY <1>1 DEF IsWalk
<1>3. ASSUME NEW i \in 1..Len(longer) - 1 PROVE link[longer[i]] = longer[i + 1]
  <2>1. i \in 1..n
    BY <1>1
  <2>2. CASE i = n
    BY <1>1, <2>1, <2>2, NoneAssumption DEF NextLink
  <2>3. CASE i # n
    <3>1. i \in 1..n - 1 /\ i + 1 \in 1..n
      BY <1>1, <2>1, <2>3
    <3> QED
      BY <1>1, <3>1 DEF IsWalk
  <2> QED
    BY <2>2, <2>3
<1> QED
  BY <1>2, <1>3 DEF IsWalk

\* Type correctness of the walk.
THEOREM TypeCorrect == Spec => []TypeOK
<1>1. Init => TypeOK
  <2> SUFFICES ASSUME Init PROVE TypeOK
    OBVIOUS
  <2>1. out \in Seq(Pages) /\ out = <<>>
    BY DEF Init
  <2>2. first = TRUE
    BY DEF Init
  <2>3. next \in Pages /\ late \in BOOLEAN /\ result \in Results
    BY FirstAssumption DEF Init, Results
  <2>4. link \in [Pages -> Pages \cup {None}]
    BY DEF Init
  <2> QED
    BY <2>1, <2>2, <2>3, <2>4 DEF TypeOK
<1>2. TypeOK /\ [Next]_vars => TypeOK'
  <2> SUFFICES ASSUME TypeOK, [Next]_vars PROVE TypeOK'
    OBVIOUS
  <2> USE DEF TypeOK, Results
  <2>1. CASE Walk
    <3>1. CASE Return
      BY <3>1 DEF Return, End
    <3>2. CASE TooLate
      BY <3>2 DEF TooLate, End
    <3>3. CASE Loop
      BY <3>3 DEF Loop, End
    <3>4. CASE Fetch
      <4>1. Answered \in Pages
        BY <3>4, FirstAssumption DEF Fetch, Fetches, Answered
      <4>2. out' \in Seq(Pages) /\ out' # <<>> /\ next' \in Pages \cup {None}
        BY <3>4, <4>1 DEF Fetch, NextLink
      <4> QED
        BY <3>4, <4>2 DEF Fetch
    <3>5. CASE FailedFetch
      BY <3>5 DEF FailedFetch, End
    <3>6. CASE Exceeded
      BY <3>6 DEF Exceeded, End
    <3> QED
      BY <2>1, <3>1, <3>2, <3>3, <3>4, <3>5, <3>6 DEF Walk
  <2>2. CASE Expire
    BY <2>2 DEF Expire
  <2>3. CASE UNCHANGED vars
    BY <2>3 DEF vars
  <2> QED
    BY <2>1, <2>2, <2>3 DEF Next, Over
<1> QED
  BY <1>1, <1>2, PTL DEF Spec

\* What get_all_pages returns is the whole collection, for every service, to
\* its end or to a next link whose URL holds a delimiter of the header.
THEOREM WholeCollection == Spec => []CompleteOrNothing
<1>1. Init => Trail
  BY DEF Init, Trail, IsWalk
<1>2. TypeOK /\ TypeOK' /\ Trail /\ [Next]_vars => Trail'
  <2> SUFFICES ASSUME TypeOK, TypeOK', Trail, [Next]_vars PROVE Trail'
    OBVIOUS
  <2>1. ASSUME UNCHANGED <<link, next, out>>, result' = "returned" => next = None
        PROVE  Trail'
    BY <2>1 DEF Trail, IsWalk, NextLink
  <2>2. CASE Walk
    <3>1. CASE Return
      BY <2>1, <3>1 DEF Return, End
    <3>2. CASE TooLate \/ Loop \/ FailedFetch \/ Exceeded
      BY <2>1, <3>2 DEF TooLate, Loop, FailedFetch, Exceeded, End
    <3>3. CASE Fetch
      <4>1. /\ next \in Pages /\ next \notin Seen /\ Answered = next
            /\ result = "walking" /\ UNCHANGED <<link, result>>
            /\ out' = Append(out, next) /\ next' = NextLink(next)
        <5>1. first => next = First
          BY DEF TypeOK, Trail
        <5> QED
          BY <2>2, <3>3, <5>1 DEF Fetch, Fetches, Answered, TypeOK, Walk
      <4>2. IsWalk(out)'
        BY <4>1, WalkGrows DEF Trail, IsWalk
      <4>3. /\ Len(out) \in Nat /\ Len(out') = Len(out) + 1
            /\ out'[Len(out) + 1] = next
            /\ \A i \in 1..Len(out) : out'[i] = out[i] /\ out[i] # next
        BY <4>1 DEF TypeOK, Seen
      <4>4. (\A i, j \in 1..Len(out) : out[i] = out[j] => i = j)'
        <5> SUFFICES ASSUME NEW i \in 1..Len(out'), NEW j \in 1..Len(out'),
                            out'[i] = out'[j]
                     PROVE  i = j
          OBVIOUS
        <5>1. CASE i \in 1..Len(out) /\ j \in 1..Len(out)
          BY <4>3, <5>1 DEF Trail
        <5>2. CASE ~(i \in 1..Len(out) /\ j \in 1..Len(out))
          BY <4>3, <5>2
        <5> QED
          BY <5>1, <5>2
      <4> QED
        BY <4>1, <4>2, <4>3, <4>4 DEF Trail, NextLink
    <3> QED
      BY <2>2, <3>1, <3>2, <3>3 DEF Walk
  <2>3. CASE Expire
    BY <2>1, <2>3 DEF Expire, Trail
  <2>4. CASE UNCHANGED vars
    BY <2>1, <2>4 DEF vars, Trail
  <2> QED
    BY <2>2, <2>3, <2>4 DEF Next, Over
<1>3. TypeOK /\ Trail => CompleteOrNothing
  BY FirstAssumption, NoneAssumption DEF TypeOK, Trail, CompleteOrNothing, NextLink
<1> QED
  BY <1>1, <1>2, <1>3, TypeCorrect, PTL DEF Spec

-----------------------------------------------------------------------------
(* ResilientClient: what an open circuit lets through.                      *)

Retrying == Callers \X (1..MaxRetries)

\* The retries a caller has begun to spend and has not spent yet.
Left == {p \in Retrying : pc[p[1]] # "idle" /\ attempt[p[1]] < p[2]}

Leak == leaked + Cardinality(Left)

Bound == Cardinality(Retrying)

ClientTypeOK ==
  /\ failures \in 0..FailThreshold
  /\ opened \in 0..Cooldown \cup {Never}
  /\ pc \in [Callers -> {"idle", "sent", "asleep"}]
  /\ attempt \in [Callers -> 0..MaxRetries]
  /\ leaked \in Nat

\* A caller sleeps before a retry it has; the breaker is open only after
\* FailThreshold failures in a row.
BreakerInv ==
  /\ \A c \in Callers : pc[c] = "asleep" => attempt[c] < MaxRetries
  /\ opened # Never => failures = FailThreshold

\* While the circuit is open no caller begins, so each request sent is one
\* retry fewer to come.
LeakInv ==
  /\ leaked <= Bound
  /\ Client!IsOpen => Leak <= Bound

ClientInv == ClientTypeOK /\ BreakerInv /\ LeakInv

\* The constants, in the words of this module.
LEMMA ClientConstants ==
  ASSUME Client!ClientAssumption
  PROVE  /\ FailThreshold \in Nat \ {0} /\ Cooldown \in Nat \ {0} /\ MaxRetries \in Nat
         /\ Never \notin Nat
         /\ IsFiniteSet(Callers)
BY DEF Client!ClientAssumption, Client!IsFiniteSet, IsFiniteSet

\* There is a number of retries that all callers have together.
LEMMA BoundFacts ==
  ASSUME Client!ClientAssumption
  PROVE  /\ IsFiniteSet(Retrying)
         /\ Bound \in Nat
         /\ Bound = Client!Cardinality(Callers) * MaxRetries
<1>1. MaxRetries \in Nat /\ IsFiniteSet(Callers)
  BY ClientConstants
<1>2. IsFiniteSet(1..MaxRetries) /\ Cardinality(1..MaxRetries) = MaxRetries
  BY <1>1, FS_Interval
<1>3. IsFiniteSet(Retrying) /\ Bound = Cardinality(Callers) * Cardinality(1..MaxRetries)
  BY <1>1, <1>2, FS_Product DEF Retrying, Bound
<1>4. Bound \in Nat
  BY <1>3, FS_CardinalityType DEF Bound
<1>5. Client!Cardinality(Callers) = Cardinality(Callers)
  BY DEF Client!Cardinality, Cardinality
<1> QED
  BY <1>2, <1>3, <1>4, <1>5

\* The retries left at any time are among them.
LEMMA SomeRetries ==
  ASSUME Client!ClientAssumption, NEW T \in SUBSET Retrying
  PROVE  IsFiniteSet(T) /\ Cardinality(T) \in Nat /\ Cardinality(T) <= Bound
BY BoundFacts, FS_Subset, FS_CardinalityType DEF Bound

\* A failure opens the circuit with nothing leaked, or leaves it as it is;
\* either way no retry comes back.
LEMMA FailureKeeps ==
  ASSUME Client!ClientAssumption, ClientInv, Client!RecordFailure, Left' \subseteq Left
  PROVE  /\ failures' \in 0..FailThreshold
         /\ opened' \in 0..Cooldown \cup {Never}
         /\ leaked' \in Nat
         /\ opened' # Never => failures' = FailThreshold
         /\ LeakInv'
<1>1. ClientTypeOK /\ BreakerInv /\ LeakInv
  BY DEF ClientInv
<1>2. /\ FailThreshold \in Nat \ {0} /\ Cooldown \in Nat \ {0} /\ Never \notin Nat
      /\ failures \in Nat /\ leaked \in Nat
  BY <1>1, ClientConstants DEF ClientTypeOK
<1>3. /\ Left \in SUBSET Retrying /\ Left' \in SUBSET Retrying /\ IsFiniteSet(Left)
      /\ Cardinality(Left) \in Nat /\ Cardinality(Left') \in Nat /\ Bound \in Nat
      /\ Cardinality(Left') <= Cardinality(Left) /\ Cardinality(Left') <= Bound
  <2>1. Left \in SUBSET Retrying /\ Left' \in SUBSET Retrying
    BY DEF Left
  <2>2. IsFiniteSet(Left) /\ Cardinality(Left) \in Nat
    BY <2>1, SomeRetries
  <2>3. Cardinality(Left') \in Nat /\ Cardinality(Left') <= Bound
    BY <2>1, SomeRetries
  <2> QED
    BY <2>1, <2>2, <2>3, BoundFacts, FS_Subset
<1>4. Leak' = leaked' + Cardinality(Left') /\ Leak = leaked + Cardinality(Left)
  BY DEF Leak
<1>5. Bound' = Bound
  BY DEF Bound, Retrying
<1>6. CASE failures + 1 < FailThreshold /\ failures' = failures + 1 /\ UNCHANGED <<opened, leaked>>
  <2>1. opened = Never
    BY <1>1, <1>2, <1>6 DEF BreakerInv
  <2>2. ~Client!IsOpen'
    BY <1>6, <2>1 DEF Client!IsOpen
  <2> QED
    BY <1>1, <1>2, <1>5, <1>6, <2>1, <2>2 DEF LeakInv, ClientTypeOK
<1>7. CASE failures' = FailThreshold /\ opened = Never /\ opened' = 0 /\ leaked' = 0
  <2>1. leaked' <= Bound /\ Leak' <= Bound
    BY <1>3, <1>4, <1>7
  <2> QED
    BY <1>2, <1>5, <1>7, <2>1 DEF LeakInv
<1>8. CASE failures' = FailThreshold /\ opened # Never /\ UNCHANGED <<opened, leaked>>
  <2>1. Client!IsOpen' => Client!IsOpen
    BY <1>1, <1>2, <1>8 DEF Client!IsOpen, BreakerInv
  <2>2. Client!IsOpen' => Leak' <= Bound
    BY <1>1, <1>2, <1>3, <1>4, <1>8, <2>1 DEF LeakInv
  <2> QED
    BY <1>1, <1>2, <1>5, <1>8, <2>2 DEF LeakInv, ClientTypeOK
<1> QED
  BY <1>6, <1>7, <1>8 DEF Client!RecordFailure

\* Every step of the client and of its service keeps the bound.
LEMMA ClientKeeps ==
  ASSUME Client!ClientAssumption, ClientInv, Client!Next
  PROVE  ClientInv'
<1>1. ClientTypeOK /\ BreakerInv /\ LeakInv
  BY DEF ClientInv
<1>2. /\ FailThreshold \in Nat \ {0} /\ Cooldown \in Nat \ {0} /\ Never \notin Nat
      /\ MaxRetries \in Nat /\ Bound \in Nat /\ Bound' = Bound
  BY ClientConstants, BoundFacts DEF Bound, Retrying
<1>3. ASSUME NEW c \in Callers, Client!Begin(c) PROVE ClientInv'
  <2>1. /\ pc' = [pc EXCEPT ![c] = "sent"] /\ attempt' = [attempt EXCEPT ![c] = 0]
        /\ leaked' = leaked /\ UNCHANGED <<failures, opened>> /\ ~Client!IsOpen
    BY <1>1, <1>3 DEF Client!Begin, Client!Send, ClientTypeOK
  <2>2. ~Client!IsOpen'
    BY <2>1 DEF Client!IsOpen
  <2> QED
    BY <1>1, <1>2, <2>1, <2>2 DEF ClientInv, ClientTypeOK, BreakerInv, LeakInv
<1>4. ASSUME NEW c \in Callers, Client!Retry(c) PROVE ClientInv'
  <2>1. /\ pc[c] = "sent" /\ pc' = [pc EXCEPT ![c] = "asleep"] /\ attempt' = attempt
        /\ attempt[c] < MaxRetries /\ Client!RecordFailure
    BY <1>4 DEF Client!Retry, Client!Retries
  <2>2. Left' \subseteq Left
    BY <1>1, <2>1 DEF Left, Retrying, ClientTypeOK
  <2>3. ClientTypeOK' /\ LeakInv' /\ (opened' # Never => failures' = FailThreshold)
    BY <1>1, <2>1, <2>2, FailureKeeps DEF ClientTypeOK
  <2> QED
    BY <1>1, <2>1, <2>3 DEF ClientInv, ClientTypeOK, BreakerInv
<1>5. ASSUME NEW c \in Callers, Client!Wake(c) PROVE ClientInv'
  <2>1. /\ pc[c] = "asleep" /\ pc' = [pc EXCEPT ![c] = "sent"]
        /\ attempt' = [attempt EXCEPT ![c] = attempt[c] + 1]
        /\ leaked' = leaked + (IF Client!IsOpen THEN 1 ELSE 0)
        /\ UNCHANGED <<failures, opened>>
    BY <1>5 DEF Client!Wake, Client!Send
  <2>2. attempt[c] \in Nat /\ attempt[c] + 1 \in 1..MaxRetries /\ leaked \in Nat
    BY <1>1, <1>2, <2>1 DEF BreakerInv, ClientTypeOK
  <2>3. ClientTypeOK' /\ BreakerInv'
    BY <1>1, <1>2, <2>1, <2>2 DEF ClientTypeOK, BreakerInv
  <2> DEFINE spent == <<c, attempt[c] + 1>>
  <2>4. spent \in Left /\ spent \in Retrying
    BY <2>1, <2>2 DEF Left, Retrying
  <2>5. Left' = Left \ {spent}
    <3>1. \A p \in Retrying : p[1] \in Callers /\ p[2] \in 1..MaxRetries /\ p = <<p[1], p[2]>>
      BY DEF Retrying
    <3>2. \A p \in Retrying : p[1] = c => (attempt[c] + 1 < p[2] <=> attempt[c] < p[2] /\ p # spent)
      BY <2>2, <3>1
    <3>3. /\ attempt'[c] = attempt[c] + 1 /\ pc'[c] = "sent"
          /\ \A d \in Callers \ {c} : attempt'[d] = attempt[d] /\ pc'[d] = pc[d]
      BY <1>1, <2>1 DEF ClientTypeOK
    <3>4. \A p \in Retrying : (pc'[p[1]] # "idle" /\ attempt'[p[1]] < p[2]) <=>
                                ((pc[p[1]] # "idle" /\ attempt[p[1]] < p[2]) /\ p # spent)
      <4>1. SUFFICES ASSUME NEW p \in Retrying
                     PROVE  (pc'[p[1]] # "idle" /\ attempt'[p[1]] < p[2]) <=>
                              ((pc[p[1]] # "idle" /\ attempt[p[1]] < p[2]) /\ p # spent)
        OBVIOUS
      <4>2. CASE p[1] = c
        BY <2>1, <3>2, <3>3, <4>2
      <4>3. CASE p[1] # c
        BY <3>1, <3>3, <4>3
      <4> QED
        BY <4>2, <4>3
    <3>5. Retrying' = Retrying
      BY DEF Retrying
    <3> HIDE DEF spent
    <3> QED
      BY <3>4, <3>5 DEF Left
  <2>6. IsFiniteSet(Left) /\ Cardinality(Left) \in Nat
    BY SomeRetries DEF Left
  <2>7. Cardinality(Left \ {spent}) = Cardinality(Left) - 1
    BY <2>4, <2>6, FS_RemoveElement
  <2>8. Leak = leaked + Cardinality(Left) /\ Leak' = leaked' + (Cardinality(Left) - 1)
    BY <2>5, <2>7 DEF Leak
  <2>9. Client!IsOpen' <=> Client!IsOpen
    BY <2>1 DEF Client!IsOpen
  <2>10. Cardinality(Left) >= 1
    BY <2>4, <2>6, FS_EmptySet
  <2>11. LeakInv'
    <3>1. CASE Client!IsOpen
      BY <1>1, <1>2, <2>1, <2>2, <2>6, <2>8, <2>9, <2>10, <3>1 DEF LeakInv
    <3>2. CASE ~Client!IsOpen
      BY <1>1, <1>2, <2>1, <2>2, <2>9, <3>2 DEF LeakInv
    <3> QED
      BY <3>1, <3>2
  <2> QED
    BY <2>3, <2>11 DEF ClientInv
<1>6. ASSUME NEW c \in Callers, Client!Succeed(c) PROVE ClientInv'
  <2>1. /\ pc' = [pc EXCEPT ![c] = "idle"] /\ attempt' = [attempt EXCEPT ![c] = 0]
        /\ failures' = 0 /\ opened' = Never /\ leaked' = leaked
    BY <1>6 DEF Client!Succeed, Client!RecordSuccess, Client!Finish
  <2>2. ~Client!IsOpen'
    BY <2>1 DEF Client!IsOpen
  <2> QED
    BY <1>1, <1>2, <2>1, <2>2 DEF ClientInv, ClientTypeOK, BreakerInv, LeakInv
<1>7. ASSUME NEW c \in Callers, Client!Fail(c) PROVE ClientInv'
  <2>1. /\ pc' = [pc EXCEPT ![c] = "idle"] /\ attempt' = [attempt EXCEPT ![c] = 0]
        /\ Client!RecordFailure
    BY <1>7 DEF Client!Fail, Client!Finish
  <2>2. Left' \subseteq Left
    BY <1>1, <2>1 DEF Left, Retrying, ClientTypeOK
  <2>3. ClientTypeOK' /\ LeakInv' /\ (opened' # Never => failures' = FailThreshold)
    BY <1>1, <1>2, <2>1, <2>2, FailureKeeps DEF ClientTypeOK
  <2> QED
    BY <1>1, <2>1, <2>3 DEF ClientInv, ClientTypeOK, BreakerInv
<1>8. ASSUME opened # Never, opened < Cooldown, opened' = opened + 1,
             UNCHANGED <<failures, pc, attempt, leaked>>
      PROVE  ClientInv'
  <2>1. opened \in 0..Cooldown /\ opened' \in 0..Cooldown
    BY <1>1, <1>2, <1>8 DEF ClientTypeOK
  <2>2. Client!IsOpen' => Client!IsOpen
    BY <1>1, <1>2, <1>8, <2>1 DEF Client!IsOpen, BreakerInv
  <2>3. Leak' = Leak
    BY <1>8 DEF Leak, Left, Retrying
  <2>4. BreakerInv'
    BY <1>1, <1>2, <1>8, <2>1 DEF BreakerInv
  <2> QED
    BY <1>1, <1>2, <1>8, <2>1, <2>2, <2>3, <2>4 DEF ClientInv, ClientTypeOK, LeakInv
<1>9. ASSUME UNCHANGED <<failures, opened, pc, attempt, leaked>> PROVE ClientInv'
  BY <1>1, <1>9 DEF ClientInv, ClientTypeOK, BreakerInv, LeakInv, Leak, Left, Bound, Retrying,
       Client!IsOpen
<1>10. ASSUME NEW c \in Callers, Client!Refuse(c) PROVE ClientInv'
  BY <1>9, <1>10 DEF Client!Refuse, Client!vars
<1>11. CASE Client!Tick
  BY <1>8, <1>11 DEF Client!Tick
<1>12. CASE Client!Turn
  BY <1>9, <1>12 DEF Client!Turn
<1> QED
  BY <1>3, <1>4, <1>5, <1>6, <1>7, <1>10, <1>11, <1>12 DEF Client!Next

\* What reaches a service while its circuit is open, from one opening to the
\* next success, is no more than the retries of all callers: for every number
\* of callers, threshold and cooldown.
THEOREM LeakStaysBounded ==
  ASSUME Client!ClientAssumption
  PROVE  Client!Spec => []LeakIsBounded
<1>1. Client!Init => ClientInv
  <2> SUFFICES ASSUME Client!Init PROVE ClientInv
    OBVIOUS
  <2>1. ~Client!IsOpen /\ opened = Never /\ leaked = 0 /\ Bound \in Nat
    BY BoundFacts DEF Client!Init, Client!IsOpen
  <2> QED
    BY <2>1, ClientConstants DEF Client!Init, ClientInv, ClientTypeOK, BreakerInv, LeakInv
<1>2. ClientInv /\ [Client!Next]_(Client!vars) => ClientInv'
  <2>1. ASSUME ClientInv, UNCHANGED Client!vars PROVE ClientInv'
    BY <2>1 DEF Client!vars, ClientInv, ClientTypeOK, BreakerInv, LeakInv, Leak, Left, Bound,
         Retrying, Client!IsOpen
  <2> QED
    BY <2>1, ClientKeeps
<1>3. ClientInv => LeakIsBounded
  BY BoundFacts DEF ClientInv, LeakInv, LeakIsBounded, Client!LeakIsBounded
<1> QED
  BY <1>1, <1>2, <1>3, PTL DEF Client!Spec

-----------------------------------------------------------------------------
(* Hardening: the compression of responses.                                 *)

Firsts == {c \in Edge!Chunks : c.more}
Lasts  == {c \in Edge!Chunks : ~ c.more}

\* How far the application has come with its response.
Halfway ==
  \/ had = <<>> /\ toSend \in Edge!Responses
  \/ \E s \in Edge!Starts : had = <<s>> /\ toSend = <<>>
  \/ \E s \in Edge!Starts, c \in Lasts : had = <<s>> /\ toSend = <<c>>
  \/ \E s \in Edge!Starts, c \in Firsts, d \in Lasts : had = <<s>> /\ toSend = <<c, d>>
  \/ \E s \in Edge!Starts, c \in Lasts : had = <<s, c>> /\ toSend = <<>>
  \/ \E s \in Edge!Starts, c \in Firsts, d \in Lasts : had = <<s, c>> /\ toSend = <<d>>
  \/ \E s \in Edge!Starts, c \in Firsts, d \in Lasts : had = <<s, c, d>> /\ toSend = <<>>

\* Everything has gone out as it came.
Through ==
  /\ got = had /\ (accepts => through)
  /\ IF through THEN had # <<>> /\ start = <<had[1]>> ELSE start = <<>>

\* The start is held back until there is a body, or none.
Held ==
  /\ accepts /\ ~ through /\ start = had
  /\ had = <<>> \/ (\E s \in Edge!Starts : had = <<s>>)
  /\ got = IF over THEN had ELSE <<>>

\* The only body went out packed, under a start that says so.
PackedInv ==
  /\ accepts /\ through /\ toSend = <<>>
  /\ \E s \in Edge!Starts, c \in Lasts :
       had = <<s, c>> /\ s.encoded = "none" /\ start = <<s>> /\ got = Edge!Packed(s, c)

GzipInv ==
  /\ Halfway
  /\ over => toSend = <<>>
  /\ Through \/ Held \/ PackedInv

\* The parts of a start and of a chunk.
LEMMA StartFacts ==
  ASSUME NEW s \in Edge!Starts
  PROVE  s = [kind |-> "start", encoded |-> s.encoded, type |-> s.type]
<1>1. PICK e \in {"none", "gzip", "br"}, t \in {"text", "image"} : s = Edge!Start(e, t)
  BY DEF Edge!Starts
<1> QED
  BY <1>1 DEF Edge!Start

\* And of a chunk.
LEMMA ChunkFacts ==
  ASSUME NEW c \in Edge!Chunks
  PROVE  c = [kind |-> "body", size |-> c.size, more |-> c.more, form |-> "plain"]
BY DEF Edge!Chunks, Edge!Body

\* Packing is undone by unpacking.
LEMMA PackedUnpacks ==
  ASSUME NEW s \in Edge!Starts, NEW c \in Lasts, s.encoded = "none"
  PROVE  /\ Edge!Unpacked(Edge!Packed(s, c)) = <<s, c>>
         /\ Len(Edge!Packed(s, c)) = 2
         /\ Edge!Packed(s, c)[1].kind = "start" /\ Edge!Packed(s, c)[1].encoded = "gzip"
         /\ Edge!Packed(s, c)[2].more = c.more
<1>1. s = [kind |-> "start", encoded |-> "none", type |-> s.type]
  BY StartFacts
<1>2. c = [kind |-> "body", size |-> c.size, more |-> c.more, form |-> "plain"]
  BY ChunkFacts DEF Lasts
<1> DEFINE p == Edge!Packed(s, c)
           announced == [kind |-> "start", encoded |-> "gzip", type |-> s.type]
           packed == [kind |-> "body", size |-> c.size, more |-> c.more, form |-> "gzip"]
<1>3. [s EXCEPT !.encoded = "gzip"] = announced
  BY <1>1
<1>4. [c EXCEPT !.form = "gzip"] = packed
  BY <1>2
<1>5. p = <<announced, packed>>
  BY <1>3, <1>4 DEF Edge!Packed
<1>6. announced.kind = "start" /\ announced.encoded = "gzip"
  OBVIOUS
<1>7. packed.kind = "body" /\ packed.form = "gzip" /\ packed.more = c.more
  OBVIOUS
<1>8. [announced EXCEPT !.encoded = "none"] = s
  BY <1>1
<1>9. [packed EXCEPT !.form = "plain"] = c
  BY <1>2
<1> HIDE DEF announced, packed, p
<1>10. /\ Len(p) = 2 /\ DOMAIN p = 1..2 /\ p # <<>> /\ p[1] = announced /\ p[2] = packed
  BY <1>5
<1>11. p[2].form = "gzip"
  BY <1>10, <1>7
<1>12. Edge!Unpacked(p) = [i \in 1..2 |-> IF p[i].kind = "start" THEN [p[i] EXCEPT !.encoded = "none"]
                                          ELSE [p[i] EXCEPT !.form = "plain"]]
  <2>1. p # <<>> /\ \E i \in DOMAIN p : p[i].kind = "body" /\ p[i].form = "gzip"
    BY <1>10, <1>7, <1>11
  <2> QED
    BY <1>10, <2>1 DEF Edge!Unpacked
<1>13. Edge!Unpacked(p) = <<s, c>>
  <2>1. p[1].kind = "start" /\ [p[1] EXCEPT !.encoded = "none"] = s
    BY <1>10, <1>6, <1>8
  <2>2. p[2].kind # "start" /\ [p[2] EXCEPT !.form = "plain"] = c
    BY <1>10, <1>7, <1>9
  <2> DEFINE u(i) == IF p[i].kind = "start" THEN [p[i] EXCEPT !.encoded = "none"]
                                          ELSE [p[i] EXCEPT !.form = "plain"]
  <2>3. u(1) = s /\ u(2) = c
    BY <2>1, <2>2
  <2>4. Edge!Unpacked(p) = [i \in 1..2 |-> u(i)]
    BY <1>12
  <2> HIDE DEF u
  <2> QED
   BY <2>3, <2>4
<1> QED
  BY <1>10, <1>6, <1>7, <1>13 DEF p

\* What was never packed is taken as it is.
LEMMA PlainUnpacks ==
  ASSUME Halfway
  PROVE  /\ Edge!Unpacked(had) = had
         /\ \A i \in DOMAIN had : had[i].kind # "body" \/ had[i].form = "plain"
<1>1. \A s \in Edge!Starts : s.kind # "body"
  BY StartFacts
<1>2. \A c \in Edge!Chunks : c.form = "plain"
  BY ChunkFacts
<1>3. \A i \in DOMAIN had : had[i] \in Edge!Starts \/ had[i] \in Edge!Chunks
  BY DEF Halfway, Firsts, Lasts
<1>4. \A i \in DOMAIN had : had[i].kind # "body" \/ had[i].form = "plain"
  BY <1>1, <1>2, <1>3
<1>5. ~ \E i \in DOMAIN had : had[i].kind = "body" /\ had[i].form = "gzip"
  BY <1>4
<1> QED
  BY <1>4, <1>5 DEF Edge!Unpacked

\* Short sequences.
LEMMA AppendThird ==
  ASSUME NEW a, NEW b, NEW c
  PROVE  Append(<<a, b>>, c) = <<a, b, c>>
<1> DEFINE t == Append(<<a, b>>, c)
<1>1. t \in Seq({a, b, c}) /\ Len(t) = 3 /\ t[1] = a /\ t[2] = b /\ t[3] = c
  OBVIOUS
<1> HIDE DEF t
<1>2. t = <<a, b, c>>
  BY <1>1
<1> QED
  BY <1>2 DEF t

\* Longer and shorter by one.
LEMMA Literals ==
  ASSUME NEW a, NEW b, NEW c
  PROVE  /\ Append(<<>>, a) = <<a>> /\ Append(<<a>>, b) = <<a, b>>
         /\ Append(<<a, b>>, c) = <<a, b, c>>
         /\ Head(<<a>>) = a /\ Head(<<a, b>>) = a /\ Head(<<a, b, c>>) = a
         /\ Tail(<<a>>) = <<>> /\ Tail(<<a, b>>) = <<b>> /\ Tail(<<a, b, c>>) = <<b, c>>
<1>1. Append(<<>>, a) = <<a>> /\ Append(<<a>>, b) = <<a, b>>
  <2> DEFINE t == Append(<<>>, a)
             u == Append(<<a>>, b)
  <2>1. t \in Seq({a, b}) /\ Len(t) = 1 /\ t[1] = a
    OBVIOUS
  <2>2. u \in Seq({a, b}) /\ Len(u) = 2 /\ u[1] = a /\ u[2] = b
    OBVIOUS
  <2> HIDE DEF t, u
  <2>3. t = <<a>> /\ u = <<a, b>>
    BY <2>1, <2>2
  <2> QED
    BY <2>3 DEF t, u
<1>2. Append(<<a, b>>, c) = <<a, b, c>>
  BY AppendThird
<1>3. Head(<<a>>) = a /\ Head(<<a, b>>) = a /\ Head(<<a, b, c>>) = a
  OBVIOUS
<1>4. Tail(<<a>>) = <<>>
  OBVIOUS
<1>5. Tail(<<a, b>>) = <<b>>
  <2> DEFINE t == Tail(<<a, b>>)
  <2>1. t \in Seq({a, b}) /\ Len(t) = 1 /\ t[1] = b
    OBVIOUS
  <2> HIDE DEF t
  <2>2. t = <<b>>
    BY <2>1
  <2> QED
    BY <2>2 DEF t
<1>6. Tail(<<a, b, c>>) = <<b, c>>
  <2> DEFINE t == Tail(<<a, b, c>>)
  <2>1. t \in Seq({a, b, c}) /\ Len(t) = 2 /\ t[1] = b /\ t[2] = c
    OBVIOUS
  <2> HIDE DEF t
  <2>2. t = <<b, c>>
    BY <2>1
  <2> QED
    BY <2>2 DEF t
<1> QED
  BY <1>1, <1>2, <1>3, <1>4, <1>5, <1>6

\* One message on its way through the compressor.
LEMMA SendKeeps ==
  ASSUME GzipInv, accepts \in BOOLEAN, through \in BOOLEAN, Edge!Send
  PROVE  GzipInv'
<1>1. Halfway /\ (over => toSend = <<>>) /\ (Through \/ Held \/ PackedInv)
  BY DEF GzipInv
<1>2. /\ ~ over /\ over' = over /\ accepts' = accepts /\ toSend # <<>>
      /\ toSend' = Tail(toSend) /\ had' = Append(had, Head(toSend))
  BY DEF Edge!Send
<1>3. Halfway'
  <2>1. ASSUME NEW s \in Edge!Starts, had = <<>>, toSend = <<s>> PROVE Halfway'
    BY <1>2, <2>1, Literals DEF Halfway
  <2>2. ASSUME NEW s \in Edge!Starts, NEW c \in Lasts, had = <<>>, toSend = <<s, c>>
        PROVE  Halfway'
    BY <1>2, <2>2, Literals DEF Halfway
  <2>3. ASSUME NEW s \in Edge!Starts, NEW c \in Firsts, NEW d \in Lasts,
               had = <<>>, toSend = <<s, c, d>>
        PROVE  Halfway'
    BY <1>2, <2>3, Literals DEF Halfway
  <2>4. ASSUME NEW s \in Edge!Starts, NEW c \in Lasts, had = <<s>>, toSend = <<c>>
        PROVE  Halfway'
    <3>0. Append(<<s>>, c) = <<s, c>> /\ Head(<<c>>) = c /\ Tail(<<c>>) = <<>>
      BY Literals
    <3>1. had' = <<s, c>> /\ toSend' = <<>>
      BY <1>2, <2>4, <3>0, Zenon
    <3> QED
      BY <3>1 DEF Halfway
  <2>5. ASSUME NEW s \in Edge!Starts, NEW c \in Firsts, NEW d \in Lasts,
               had = <<s>>, toSend = <<c, d>>
        PROVE  Halfway'
    <3>0. Append(<<s>>, c) = <<s, c>> /\ Head(<<c, d>>) = c /\ Tail(<<c, d>>) = <<d>>
      <4>1. Append(<<s>>, c) = <<s, c>>
        BY Literals
      <4>2. Head(<<c, d>>) = c /\ Tail(<<c, d>>) = <<d>>
        BY Literals
      <4> QED
        BY <4>1, <4>2
    <3>1. had' = <<s, c>> /\ toSend' = <<d>>
      BY <1>2, <2>5, <3>0, Zenon
    <3> QED
      BY <3>1 DEF Halfway
  <2>6. ASSUME NEW s \in Edge!Starts, NEW c \in Firsts, NEW d \in Lasts,
               had = <<s, c>>, toSend = <<d>>
        PROVE  Halfway'
    <3>0. Append(<<s, c>>, d) = <<s, c, d>> /\ Head(<<d>>) = d /\ Tail(<<d>>) = <<>>
      <4>1. Append(<<s, c>>, d) = <<s, c, d>>
        BY AppendThird, Zenon
      <4>2. Head(<<d>>) = d /\ Tail(<<d>>) = <<>>
        BY Literals
      <4> QED
        BY <4>1, <4>2
    <3>1. had' = <<s, c, d>> /\ toSend' = <<>>
      BY <1>2, <2>6, <3>0, Zenon
    <3> QED
      BY <3>1 DEF Halfway
  <2>7. CASE had = <<>> /\ toSend \in Edge!Responses
    BY <2>1, <2>2, <2>3, <2>7 DEF Edge!Responses, Firsts, Lasts
  <2> QED
    BY <1>1, <1>2, <2>4, <2>5, <2>6, <2>7 DEF Halfway
<1>4. CASE (~ accepts \/ through) /\ got' = Append(got, Head(toSend)) /\ UNCHANGED <<start, through>>
  <2>1. ~ PackedInv /\ ~ Held
    BY <1>2, <1>4 DEF PackedInv, Held
  <2>2. /\ got = had /\ (accepts => through)
        /\ IF through THEN had # <<>> /\ start = <<had[1]>> ELSE start = <<>>
    BY <1>1, <2>1 DEF Through
  <2>3. had' # <<>> /\ (had # <<>> => had'[1] = had[1])
    BY <1>1, <1>2 DEF Halfway
  <2>4. Through'
    BY <1>2, <1>4, <2>2, <2>3 DEF Through
  <2> QED
    BY <1>2, <1>3, <2>4 DEF GzipInv
<1>5. CASE /\ accepts /\ ~ through /\ Head(toSend).kind = "start"
           /\ start' = <<Head(toSend)>> /\ UNCHANGED <<got, through>>
  <2>1. Held
    BY <1>1, <1>5 DEF Through, PackedInv
  <2>2. \A c \in Edge!Chunks : c.kind # "start"
    BY ChunkFacts
  <2>3. had = <<>> /\ Head(toSend) \in Edge!Starts
    BY <1>1, <1>2, <1>5, <2>2 DEF Halfway, Edge!Responses, Firsts, Lasts
  <2>4. had' = <<Head(toSend)>>
    BY <1>2, <2>3
  <2>5. Held'
    BY <1>2, <1>5, <2>1, <2>3, <2>4 DEF Held
  <2> QED
    BY <1>2, <1>3, <2>5 DEF GzipInv
<1>6. CASE /\ accepts /\ ~ through /\ Head(toSend).kind = "body"
           /\ through' = TRUE /\ start' = start
           /\ got' = IF Edge!Skips(start[1], Head(toSend)) THEN got \o <<start[1], Head(toSend)>>
                     ELSE got \o Edge!Packed(start[1], Head(toSend))
  <2>1. Held
    BY <1>1, <1>6 DEF Through, PackedInv
  <2>2. \A s \in Edge!Starts : s.kind # "body"
    BY StartFacts
  <2>3. Head(toSend) \in Edge!Chunks /\ had # <<>>
    BY <1>1, <1>2, <1>6, <2>2 DEF Halfway, Edge!Responses, Firsts, Lasts
  <2>4. PICK s \in Edge!Starts : had = <<s>> /\ start = <<s>> /\ got = <<>>
    BY <1>2, <2>1, <2>3 DEF Held
  <2>5. PICK c \in Edge!Chunks : c = Head(toSend) /\ had' = <<s, c>>
    BY <1>2, <2>3, <2>4, Literals
  <2>6. CASE Edge!Skips(s, c)
    <3>1. got' = <<s, c>>
      BY <1>6, <2>4, <2>5, <2>6
    <3>2. Through'
      BY <1>2, <1>6, <2>4, <2>5, <3>1 DEF Through
    <3> QED
      BY <1>2, <1>3, <3>2 DEF GzipInv
  <2>7. CASE ~ Edge!Skips(s, c)
    <3>1. ~ c.more /\ s.encoded = "none"
      BY <2>7 DEF Edge!Skips
    <3>2. c \in Lasts /\ c \notin Firsts
      BY <3>1 DEF Lasts, Firsts
    <3>3. toSend = <<c>>
      BY <1>1, <1>2, <2>4, <2>5, <3>2 DEF Halfway
    <3>4. got' = Edge!Packed(s, c)
      BY <1>6, <2>4, <2>5, <2>7 DEF Edge!Packed
    <3>5. toSend' = <<>>
      BY <1>2, <3>3
    <3>6. PackedInv'
      BY <1>2, <1>6, <2>4, <2>5, <3>1, <3>2, <3>4, <3>5 DEF PackedInv
    <3> QED
      BY <1>2, <1>3, <3>6 DEF GzipInv
  <2> QED
    BY <2>6, <2>7
<1> QED
  BY <1>4, <1>5, <1>6 DEF Edge!Send

\* Whatever is held back, the client gets the messages the application sent,
\* in their order and each once, and unpacks what was packed for it: whatever
\* the request accepts and whatever the response is.
THEOREM ResponsesAreDelivered == Edge!GzipSpec => []ResponseIsDelivered
<1> DEFINE Inv == GzipInv /\ accepts \in BOOLEAN /\ through \in BOOLEAN /\ over \in BOOLEAN
<1>1. Edge!GzipInit => Inv
  <2> SUFFICES ASSUME Edge!GzipInit PROVE Inv
    OBVIOUS
  <2>1. had = <<>> /\ toSend \in Edge!Responses /\ start = <<>> /\ got = <<>>
    BY DEF Edge!GzipInit
  <2>2. accepts \in BOOLEAN /\ ~ through /\ ~ over /\ through \in BOOLEAN /\ over \in BOOLEAN
    BY DEF Edge!GzipInit
  <2>3. Halfway
    BY <2>1 DEF Halfway
  <2>4. Through \/ Held
    BY <2>1, <2>2 DEF Through, Held
  <2> QED
    BY <2>2, <2>3, <2>4 DEF GzipInv
<1>2. Inv /\ [Edge!GzipNext]_(Edge!gzipVars) => Inv'
  <2> SUFFICES ASSUME Inv, [Edge!GzipNext]_(Edge!gzipVars) PROVE Inv'
    OBVIOUS
  <2>1. CASE Edge!Send
    <3>1. accepts' = accepts /\ over' = over /\ through' \in BOOLEAN
      BY <2>1, Zenon DEF Edge!Send
    <3>2. GzipInv'
      BY <2>1, SendKeeps
    <3> QED
      BY <3>1, <3>2
  <2>2. CASE Edge!Return
    <3>1. /\ toSend = <<>> /\ over' = TRUE /\ got' = IF through THEN got ELSE got \o start
          /\ UNCHANGED <<accepts, toSend, had, start, through>> /\ ~ over
      BY <2>2 DEF Edge!Return
    <3>2. Halfway'
      BY <3>1 DEF GzipInv, Halfway
    <3>3. CASE through
      BY <3>1, <3>2, <3>3 DEF GzipInv, Through, Held, PackedInv
    <3>4. CASE ~ through /\ Held
      <4>1. got' = had
        BY <3>1, <3>4 DEF Held
      <4>2. Held'
        BY <3>1, <3>4, <4>1 DEF Held
      <4> QED
        BY <3>1, <3>2, <4>2 DEF GzipInv
    <3>5. CASE ~ through /\ Through
      <4>1. got' = got
        <5>1. start = <<>> /\ got = had /\ got' = got \o start
          BY <3>1, <3>5 DEF Through
        <5>2. had \o <<>> = had
          BY DEF GzipInv, Halfway
        <5> QED
          BY <5>1, <5>2, Zenon
      <4>2. Through'
        BY <3>1, <3>5, <4>1 DEF Through
      <4> QED
        BY <3>1, <3>2, <4>2 DEF GzipInv
    <3> QED
      BY <3>3, <3>4, <3>5 DEF GzipInv, PackedInv
  <2>3. CASE UNCHANGED Edge!gzipVars
    BY <2>3 DEF Edge!gzipVars, GzipInv, Halfway, Through, Held, PackedInv
  <2> QED
    BY <2>1, <2>2, <2>3 DEF Edge!GzipNext
<1>3. Inv => ResponseIsDelivered
  <2> SUFFICES ASSUME Inv PROVE ResponseIsDelivered
    OBVIOUS
  <2>1. /\ Edge!Unpacked(had) = had
        /\ \A i \in DOMAIN had : had[i].kind # "body" \/ had[i].form = "plain"
    BY PlainUnpacks DEF GzipInv
  <2>2. Edge!IsPrefix(had, had) /\ Edge!IsPrefix(<<>>, had) /\ Edge!Unpacked(<<>>) = <<>>
    <3>1. had \in Seq(Edge!Starts \cup Edge!Chunks)
      <4>1. ASSUME NEW s \in Edge!Starts, had = <<s>> PROVE had \in Seq(Edge!Starts \cup Edge!Chunks)
        BY <4>1
      <4>2. ASSUME NEW s \in Edge!Starts, NEW c \in Edge!Chunks, had = <<s, c>>
            PROVE  had \in Seq(Edge!Starts \cup Edge!Chunks)
        BY <4>2
      <4>3. ASSUME NEW s \in Edge!Starts, NEW c \in Edge!Chunks, NEW d \in Edge!Chunks,
                   had = <<s, c, d>>
            PROVE  had \in Seq(Edge!Starts \cup Edge!Chunks)
        BY <4>3
      <4>4. <<>> \in Seq(Edge!Starts \cup Edge!Chunks)
        OBVIOUS
      <4> QED
        BY <4>1, <4>2, <4>3, <4>4 DEF GzipInv, Halfway, Firsts, Lasts
    <3> QED
      BY <3>1 DEF Edge!IsPrefix, Edge!Unpacked
  <2>3. CASE got = had
    BY <2>1, <2>2, <2>3 DEF ResponseIsDelivered, Edge!ResponseIsDelivered
  <2>4. CASE got = <<>> /\ ~ over
    BY <2>2, <2>4 DEF ResponseIsDelivered, Edge!ResponseIsDelivered
  <2>5. CASE PackedInv
    <3>1. PICK s \in Edge!Starts, c \in Lasts :
            had = <<s, c>> /\ s.encoded = "none" /\ start = <<s>> /\ got = Edge!Packed(s, c)
      BY <2>5 DEF PackedInv
    <3>2. /\ Edge!Unpacked(got) = had
          /\ Len(got) = 2 /\ DOMAIN got = 1..2
          /\ got[1].kind = "start" /\ got[1].encoded = "gzip" /\ got[2].more = c.more
      BY <3>1, PackedUnpacks DEF Edge!Packed
    <3>3. ~ got[2].more /\ Len(had) = 2 /\ had[1].encoded = "none" /\ accepts /\ toSend = <<>>
      BY <2>5, <3>1, <3>2 DEF PackedInv, Lasts
    <3>4. got[1].kind # "body"
      BY <3>2
    <3>5. \A i \in DOMAIN got : i = 1 \/ i = 2
      BY <3>2
    <3>6. ASSUME NEW i \in DOMAIN got, got[i].kind = "body", got[i].form = "gzip"
          PROVE  /\ accepts /\ Len(had) = 2 /\ toSend = <<>> /\ ~ got[i].more
                 /\ got[1].encoded = "gzip" /\ had[1].encoded = "none"
      BY <3>2, <3>3, <3>4, <3>5, <3>6, Zenon
    <3> QED
      BY <2>2, <3>2, <3>6 DEF ResponseIsDelivered, Edge!ResponseIsDelivered
  <2> QED
    BY <2>3, <2>4, <2>5 DEF GzipInv, Through, Held
<1> QED
  BY <1>1, <1>2, <1>3, PTL DEF Edge!GzipSpec

-----------------------------------------------------------------------------
(* Hardening: the limiter.                                                  *)

\* The admissions of a caller from the one after the k-th on.
After(s, k) == SubSeq(s, k + 1, Len(s))

\* A bucket holds the last admissions; the ones before have left the window.
Kept(q, s) ==
  \E k \in 0..Len(s) : q = After(s, k) /\ \A i \in 1..k : s[i] + Window < now

\* Admissions are recorded in the order of time, and any of them lies more
\* than a window before the one Limit later.
Recorded(s) ==
  /\ s \in Seq(Nat)
  /\ \A i, j \in 1..Len(s) : i <= j => s[i] <= s[j]
  /\ \A i \in 1..Len(s) : s[i] <= now
  /\ \A i \in 1..Len(s) : i + Limit <= Len(s) => s[i] + Window < s[i + Limit]

\* What a caller was told takes it past the window of the last Limit ones.
Promised(s, p) == Len(s) >= Limit /\ s[Len(s) - Limit + 1] + Window < p

\* A caller's admissions, its bucket and what it was told agree.
Honoured(s, q, p) ==
  /\ Recorded(s) /\ Kept(q, s) /\ Len(q) <= Limit
  /\ p \in Int /\ (p # 0 => Promised(s, p))

\* They do for every caller; a refusal came through the layers outside.
LimiterInv ==
  /\ now \in Nat
  /\ admitted = [c \in Edge!Identities |-> admitted[c]]
  /\ promised = [c \in Edge!Identities |-> promised[c]]
  /\ \A c \in Edge!Identities : Honoured(admitted[c], Edge!HitsOf(c), promised[c])
  /\ said.status = 429 => said.passed = Edge!PassedFrom("rate limit")

\* A set of numbers has a least one.
LEMMA LeastNumber ==
  ASSUME NEW T, T \subseteq Nat, T # {}
  PROVE  \E n \in T : \A m \in T : n <= m
<1> DEFINE R == OpToRel(<, Nat)
<1>1. IsWellFoundedOn(R, Nat)
  BY NatLessThanWellFounded
<1>2. \A m, n \in Nat : m < n => <<m, n>> \in R
  BY DEF OpToRel
<1> HIDE DEF R
<1>3. PICK n \in T : \A m \in T : ~ (<<m, n>> \in R)
  BY <1>1, WFMin
<1>4. \A m \in T : m \in Nat /\ n \in Nat /\ ~ (m < n)
  BY <1>2, <1>3
<1> QED
  BY <1>4

\* What the limiter's settings are.
LEMMA LimiterConstants ==
  ASSUME Edge!LimiterAssumption
  PROVE  Limit \in Nat /\ Limit > 0 /\ Window \in Nat /\ Hops \in Nat
BY DEF Edge!LimiterAssumption

\* The length and the parts of a tail.
LEMMA AfterFacts ==
  ASSUME NEW s \in Seq(Nat), NEW k \in 0..Len(s)
  PROVE  /\ After(s, k) \in Seq(Nat) /\ Len(After(s, k)) = Len(s) - k
         /\ \A i \in 1..Len(s) - k : After(s, k)[i] = s[k + i]
<1>1. /\ After(s, k) \in Seq(Nat)
      /\ Len(After(s, k)) = IF k + 1 <= Len(s) THEN Len(s) - (k + 1) + 1 ELSE 0
      /\ \A i \in 1..Len(s) - (k + 1) + 1 : After(s, k)[i] = s[(k + 1) + i - 1]
  <2>1. \A i \in k + 1..Len(s) : s[i] \in Nat
    OBVIOUS
  <2> QED
    BY <2>1, SubSeqProperties, SMTT(60) DEF After
<1>2. Len(s) - (k + 1) + 1 = Len(s) - k
  OBVIOUS
<1>3. ASSUME NEW i \in 1..Len(s) - k PROVE After(s, k)[i] = s[k + i]
  <2>1. (k + 1) + i - 1 = k + i
    OBVIOUS
  <2> QED
    BY <1>1, <1>2, <2>1
<1> QED
  BY <1>1, <1>3

\* Where a bucket begins once it is pruned.
LEMMA FirstFacts ==
  ASSUME NEW q \in Seq(Nat), now \in Nat, Window \in Nat
  PROVE  /\ Edge!FirstLive(q) \in 1..Len(q) + 1
         /\ \A j \in 1..Edge!FirstLive(q) - 1 : q[j] + Window < now
         /\ Edge!FirstLive(q) <= Len(q) => q[Edge!FirstLive(q)] + Window >= now
<1> DEFINE P(i) == /\ \A j \in 1..i - 1 : q[j] + Window < now
                   /\ i <= Len(q) => q[i] + Window >= now
           T == {i \in 1..Len(q) + 1 : i <= Len(q) => q[i] + Window >= now}
<1>1. Len(q) + 1 \in T /\ T \subseteq Nat
  OBVIOUS
<1>2. PICK i \in T : \A m \in T : i <= m
  <2> HIDE DEF T
  <2> QED
    BY <1>1, LeastNumber
<1>3. i \in 1..Len(q) + 1 /\ (i <= Len(q) => q[i] + Window >= now)
  OBVIOUS
<1>4. ASSUME NEW j \in 1..i - 1 PROVE q[j] + Window < now
  <2>1. j \in 1..Len(q) /\ j \notin T
    BY <1>2, <1>3
  <2> QED
    BY <2>1
<1>5. \E x \in 1..Len(q) + 1 : P(x)
  BY <1>3, <1>4
<1> HIDE DEF T
<1>6. Edge!FirstLive(q) = CHOOSE x \in 1..Len(q) + 1 : P(x)
  BY DEF Edge!FirstLive
<1>7. Edge!FirstLive(q) \in 1..Len(q) + 1 /\ P(Edge!FirstLive(q))
  <2> HIDE DEF P
  <2> QED
    BY <1>5, <1>6
<1> QED
  BY <1>7

\* Pruning a bucket keeps what it promises.
LEMMA LiveKeeps ==
  ASSUME now \in Nat, Window \in Nat, NEW s \in Seq(Nat), NEW q, Kept(q, s)
  PROVE  /\ Kept(Edge!Live(q), s) /\ Len(Edge!Live(q)) <= Len(q)
         /\ q \in Seq(Nat) /\ Edge!Live(q) \in Seq(Nat)
<1>1. PICK k \in 0..Len(s) : q = After(s, k) /\ \A i \in 1..k : s[i] + Window < now
  BY DEF Kept
<1>2. /\ q \in Seq(Nat) /\ Len(q) = Len(s) - k
      /\ \A i \in 1..Len(s) - k : q[i] = s[k + i]
  BY <1>1, AfterFacts
<1> DEFINE f == Edge!FirstLive(q)
<1>3. f \in 1..Len(q) + 1 /\ \A j \in 1..f - 1 : q[j] + Window < now
  BY <1>2, FirstFacts
<1> HIDE DEF f
<1>4. Edge!Live(q) = SubSeq(q, f, Len(q))
  BY DEF Edge!Live, f
<1>5. k + f - 1 \in 0..Len(s)
  BY <1>2, <1>3
<1>6. /\ Edge!Live(q) \in Seq(Nat) /\ Len(Edge!Live(q)) = Len(q) - f + 1
      /\ \A i \in 1..Len(q) - f + 1 : Edge!Live(q)[i] = q[f + i - 1]
  <2>1. \A i \in f..Len(q) : q[i] \in Nat
    BY <1>2, <1>3, SMTT(30)
  <2>2. /\ Edge!Live(q) \in Seq(Nat)
        /\ Len(Edge!Live(q)) = IF f <= Len(q) THEN Len(q) - f + 1 ELSE 0
        /\ \A i \in 1..Len(q) - f + 1 : Edge!Live(q)[i] = q[f + i - 1]
    BY <1>2, <1>3, <1>4, <2>1, SubSeqProperties, SMTT(60)
  <2> QED
    BY <1>2, <1>3, <2>2
<1>7. /\ After(s, k + f - 1) \in Seq(Nat) /\ Len(After(s, k + f - 1)) = Len(s) - (k + f - 1)
      /\ \A i \in 1..Len(s) - (k + f - 1) : After(s, k + f - 1)[i] = s[k + f - 1 + i]
  BY <1>5, AfterFacts
<1>8. Edge!Live(q) = After(s, k + f - 1)
  <2> DEFINE a == Edge!Live(q)
             b == After(s, k + f - 1)
  <2>1. a \in Seq(Nat) /\ b \in Seq(Nat) /\ Len(a) = Len(b)
    BY <1>2, <1>3, <1>6, <1>7
  <2> HIDE DEF a, b
  <2>2. ASSUME NEW i \in 1..Len(a) PROVE a[i] = b[i]
    <3>1. i \in 1..Len(q) - f + 1 /\ f + i - 1 \in 1..Len(s) - k /\ i \in 1..Len(s) - (k + f - 1)
      BY <1>2, <1>3, <1>6 DEF a
    <3>2. a[i] = q[f + i - 1]
      BY <1>6, <3>1 DEF a
    <3>3. q[f + i - 1] = s[k + (f + i - 1)]
      BY <1>2, <3>1
    <3>4. b[i] = s[k + f - 1 + i]
      BY <1>7, <3>1 DEF b
    <3>5. k + (f + i - 1) = k + f - 1 + i
      BY <1>3, <3>1
    <3> QED
      BY <3>2, <3>3, <3>4, <3>5
  <2>3. a = b
    BY <2>1, <2>2, SeqEqual
  <2> QED
    BY <2>3 DEF a, b
<1>9. ASSUME NEW i \in 1..k + f - 1 PROVE s[i] + Window < now
  <2>1. CASE i <= k
    BY <1>1, <2>1
  <2>2. CASE i > k
    <3>1. i - k \in 1..f - 1 /\ i - k \in 1..Len(s) - k
      BY <1>2, <1>3, <2>2
    <3>2. q[i - k] = s[k + (i - k)]
      BY <1>2, <3>1
    <3>3. k + (i - k) = i
      OBVIOUS
    <3> QED
      BY <1>3, <3>1, <3>2, <3>3
  <2> QED
    BY <2>1, <2>2
<1>10. Kept(Edge!Live(q), s)
  BY <1>5, <1>8, <1>9 DEF Kept
<1> QED
  BY <1>2, <1>3, <1>6, <1>10

\* An admission is recorded in both.
LEMMA AdmitKeeps ==
  ASSUME now \in Nat, NEW s \in Seq(Nat), NEW q, Kept(q, s)
  PROVE  Kept(Append(q, now), Append(s, now))
<1>1. PICK k \in 0..Len(s) : q = After(s, k) /\ \A i \in 1..k : s[i] + Window < now
  BY DEF Kept
<1> DEFINE t == Append(s, now)
           a == Append(q, now)
           b == After(t, k)
<1>2. /\ q \in Seq(Nat) /\ Len(q) = Len(s) - k
      /\ \A i \in 1..Len(s) - k : q[i] = s[k + i]
  BY <1>1, AfterFacts
<1>3. /\ t \in Seq(Nat) /\ Len(t) = Len(s) + 1 /\ k \in 0..Len(t)
      /\ t[Len(s) + 1] = now /\ \A i \in 1..Len(s) : t[i] = s[i]
  OBVIOUS
<1>4. /\ a \in Seq(Nat) /\ Len(a) = Len(q) + 1
      /\ a[Len(q) + 1] = now /\ \A i \in 1..Len(q) : a[i] = q[i]
  BY <1>2
<1> HIDE DEF t, a
<1>5. /\ b \in Seq(Nat) /\ Len(b) = Len(t) - k
      /\ \A i \in 1..Len(t) - k : b[i] = t[k + i]
  BY <1>3, AfterFacts
<1> HIDE DEF b
<1>6. Len(a) = Len(b)
  BY <1>2, <1>3, <1>4, <1>5
<1>7. ASSUME NEW i \in 1..Len(a) PROVE a[i] = b[i]
  <2>0. i \in 1..Len(t) - k
    BY <1>5, <1>6
  <2>1. b[i] = t[k + i]
    BY <1>5, <2>0
  <2>2. CASE i <= Len(q)
    <3>1. i \in 1..Len(q) /\ k + i \in 1..Len(s) /\ i \in 1..Len(s) - k
      BY <1>2, <2>2
    <3>2. a[i] = q[i] /\ q[i] = s[k + i] /\ t[k + i] = s[k + i]
      BY <1>2, <1>3, <1>4, <3>1
    <3> QED
      BY <2>1, <3>2
  <2>3. CASE i = Len(q) + 1
    <3>1. k + i = Len(s) + 1
      BY <1>2, <2>3
    <3> QED
      BY <1>3, <1>4, <2>1, <2>3, <3>1
  <2> QED
    BY <1>2, <1>4, <2>2, <2>3
<1>8. a = b
  BY <1>4, <1>5, <1>6, <1>7
<1>9. ASSUME NEW i \in 1..k PROVE t[i] + Window < now
  <2>1. i \in 1..Len(s)
    OBVIOUS
  <2>2. t[i] = s[i] /\ s[i] + Window < now
    BY <1>1, <1>3, <2>1
  <2> QED
    BY <2>2
<1>10. Kept(a, t)
  BY <1>3, <1>8, <1>9 DEF Kept, b
<1> QED
  BY <1>10 DEF a, t

\* A record of admissions with one more, when the bucket let it in.
LEMMA RecordKeeps ==
  ASSUME now \in Nat, Window \in Nat, Limit \in Nat, Limit > 0,
         NEW s, Recorded(s), NEW q, Kept(q, s), Len(q) < Limit
  PROVE  Recorded(Append(s, now))
<1> DEFINE t == Append(s, now)
<1>1. /\ s \in Seq(Nat)
      /\ \A i, j \in 1..Len(s) : i <= j => s[i] <= s[j]
      /\ \A i \in 1..Len(s) : s[i] <= now
      /\ \A i \in 1..Len(s) : i + Limit <= Len(s) => s[i] + Window < s[i + Limit]
  BY DEF Recorded
<1>2. PICK k \in 0..Len(s) : q = After(s, k) /\ \A i \in 1..k : s[i] + Window < now
  BY DEF Kept
<1>3. Len(q) = Len(s) - k
  BY <1>1, <1>2, AfterFacts
<1>4. /\ t \in Seq(Nat) /\ Len(t) = Len(s) + 1
      /\ t[Len(s) + 1] = now /\ \A i \in 1..Len(s) : t[i] = s[i]
  BY <1>1
<1> HIDE DEF t
<1>5. \A i \in 1..Len(t) : i = Len(s) + 1 \/ i \in 1..Len(s)
  BY <1>1, <1>4
<1>6. \A i \in 1..Len(t) : t[i] <= now
  BY <1>1, <1>4, <1>5
<1>7. ASSUME NEW i \in 1..Len(t), NEW j \in 1..Len(t), i <= j PROVE t[i] <= t[j]
  <2>1. CASE j = Len(s) + 1
    BY <1>4, <1>6, <2>1
  <2>2. CASE j \in 1..Len(s)
    <3>1. i \in 1..Len(s)
      BY <1>1, <1>7, <2>2
    <3> QED
      BY <1>1, <1>4, <1>7, <2>2, <3>1
  <2> QED
    BY <1>5, <2>1, <2>2
<1>8. ASSUME NEW i \in 1..Len(t), i + Limit <= Len(t) PROVE t[i] + Window < t[i + Limit]
  <2>1. i \in 1..Len(s) /\ t[i] = s[i] /\ s[i] \in Nat
    <3>1. i \in 1..Len(s)
      BY <1>1, <1>4, <1>8
    <3> QED
      BY <1>1, <1>4, <3>1, SMTT(30)
  <2>2. CASE i + Limit = Len(s) + 1
    <3>1. i \in 1..k
      BY <1>1, <1>2, <1>3, <2>1, <2>2
    <3> QED
      BY <1>2, <1>4, <2>1, <2>2, <3>1
  <2>3. CASE i + Limit <= Len(s)
    <3>1. i + Limit \in 1..Len(s)
      BY <1>1, <2>1, <2>3
    <3>2. t[i + Limit] = s[i + Limit] /\ s[i] + Window < s[i + Limit]
      BY <1>1, <1>4, <2>1, <2>3, <3>1
    <3> QED
      BY <2>1, <3>2
  <2>4. i + Limit = Len(s) + 1 \/ i + Limit <= Len(s)
    <3>1. Len(s) \in Nat /\ i \in Nat /\ i + Limit <= Len(s) + 1
      BY <1>1, <1>4, <1>8
    <3> QED
      BY <3>1
  <2> QED
    BY <2>2, <2>3, <2>4
<1>9. Recorded(t)
  BY <1>4, <1>6, <1>7, <1>8 DEF Recorded
<1> QED
  BY <1>9 DEF t

\* A full bucket begins with the admission that is Limit from the last one.
LEMMA FullBucket ==
  ASSUME now \in Nat, Limit \in Nat, Limit > 0, NEW s \in Seq(Nat), NEW q, Kept(q, s), Len(q) = Limit
  PROVE  Len(s) >= Limit /\ q[1] = s[Len(s) - Limit + 1]
<1>1. PICK k \in 0..Len(s) : q = After(s, k)
  BY DEF Kept
<1>2. /\ Len(q) = Len(s) - k /\ \A i \in 1..Len(s) - k : q[i] = s[k + i]
  BY <1>1, AfterFacts
<1>3. k = Len(s) - Limit /\ 1 \in 1..Len(s) - k
  BY <1>2
<1>4. q[1] = s[k + 1] /\ k + 1 = Len(s) - Limit + 1
  BY <1>2, <1>3
<1> QED
  BY <1>3, <1>4

\* Once the promised time has come there is room again.
LEMMA PromiseHolds ==
  ASSUME now \in Nat, Window \in Nat, Limit \in Nat, Limit > 0,
         NEW s, Recorded(s), NEW q, Kept(q, s), NEW p \in Int, Promised(s, p), p <= now
  PROVE  Len(Edge!Live(q)) < Limit
<1>1. s \in Seq(Nat) /\ \A i, j \in 1..Len(s) : i <= j => s[i] <= s[j]
  BY DEF Recorded
<1>2. Kept(Edge!Live(q), s) /\ q \in Seq(Nat)
  BY <1>1, LiveKeeps
<1> DEFINE a == Edge!Live(q)
<1>3. PICK k \in 0..Len(s) : a = After(s, k) /\ \A i \in 1..k : s[i] + Window < now
  BY <1>2 DEF Kept
<1>4. a \in Seq(Nat) /\ Len(a) = Len(s) - k /\ \A i \in 1..Len(s) - k : a[i] = s[k + i]
  BY <1>1, <1>3, AfterFacts
<1>5. Len(s) >= Limit /\ s[Len(s) - Limit + 1] + Window < p
  BY DEF Promised
<1> SUFFICES ASSUME Len(a) >= Limit PROVE FALSE
  BY <1>4
<1>6. a[1] + Window >= now
  <2> DEFINE f == Edge!FirstLive(q)
  <2>1. f \in 1..Len(q) + 1 /\ (f <= Len(q) => q[f] + Window >= now)
    BY <1>2, FirstFacts
  <2>2. a = SubSeq(q, f, Len(q))
    BY DEF Edge!Live
  <2> HIDE DEF f, a
  <2>3. /\ Len(a) = IF f <= Len(q) THEN Len(q) - f + 1 ELSE 0
        /\ \A i \in 1..Len(q) - f + 1 : a[i] = q[f + i - 1]
    <3>1. \A i \in f..Len(q) : q[i] \in Nat
      BY <1>2, <2>1
    <3> QED
      BY <1>2, <2>1, <2>2, <3>1, SubSeqProperties
  <2>4. f <= Len(q) /\ 1 \in 1..Len(q) - f + 1
    BY <1>2, <2>1, <2>3
  <2>5. a[1] = q[f + 1 - 1] /\ f + 1 - 1 = f
    BY <2>1, <2>3, <2>4
  <2> QED
    BY <2>1, <2>4, <2>5
<1> HIDE DEF a
<1>7. a[1] = s[k + 1] /\ k + 1 \in 1..Len(s) /\ Len(s) - Limit + 1 \in 1..Len(s)
      /\ k + 1 <= Len(s) - Limit + 1
  <2>1. Len(s) \in Nat /\ k \in Nat /\ Len(s) - k >= Limit /\ 1 \in 1..Len(s) - k
    BY <1>1, <1>4
  <2>2. a[1] = s[k + 1]
    BY <1>4, <2>1
  <2> QED
    BY <2>1, <2>2
<1>8. s[k + 1] <= s[Len(s) - Limit + 1] /\ s[k + 1] \in Nat /\ s[Len(s) - Limit + 1] \in Nat
  BY <1>1, <1>7, SMTT(30)
<1> QED
  BY <1>5, <1>6, <1>7, <1>8, SMTT(30)

\* No window holds more than Limit of a record's admissions.
LEMMA WindowIsBounded ==
  ASSUME Window \in Nat, Limit \in Nat, Limit > 0, now \in Nat, NEW s, Recorded(s), NEW t \in Nat
  PROVE  Edge!Cardinality({i \in DOMAIN s : s[i] \in t..(t + Window)}) <= Limit
<1> DEFINE S == {i \in DOMAIN s : s[i] \in t..(t + Window)}
<1>1. /\ s \in Seq(Nat)
      /\ \A i, j \in 1..Len(s) : i <= j => s[i] <= s[j]
      /\ \A i \in 1..Len(s) : i + Limit <= Len(s) => s[i] + Window < s[i + Limit]
  BY DEF Recorded
<1>2. S \subseteq Nat /\ \A i \in S : i \in 1..Len(s) /\ t <= s[i] /\ s[i] <= t + Window
  BY <1>1
<1>3. Edge!Cardinality(S) = Cardinality(S)
  BY DEF Edge!Cardinality, Cardinality, Edge!IsFiniteSet, IsFiniteSet
<1> SUFFICES Cardinality(S) <= Limit
  BY <1>3
<1> HIDE DEF S
<1>4. CASE S = {}
  BY <1>4, FS_EmptySet
<1>5. CASE S # {}
  <2>1. PICK n \in S : \A m \in S : n <= m
    BY <1>2, <1>5, LeastNumber
  <2>2. n \in 1..Len(s) /\ t <= s[n]
    BY <1>2
  <2>3. ASSUME NEW m \in S PROVE m \in n..n + Limit - 1
    <3>1. m \in 1..Len(s) /\ n <= m /\ s[m] <= t + Window
      BY <1>2, <2>1
    <3>2. ASSUME m >= n + Limit PROVE FALSE
      <4>1. n + Limit \in 1..Len(s) /\ n + Limit <= m
        BY <1>1, <2>2, <3>1, <3>2
      <4>2. s[n] + Window < s[n + Limit] /\ s[n + Limit] <= s[m]
        BY <1>1, <2>2, <3>1, <4>1
      <4>3. s[n] \in Nat /\ s[n + Limit] \in Nat /\ s[m] \in Nat
        BY <1>1, <2>2, <3>1, <4>1, SMTT(30)
      <4> QED
        BY <2>2, <3>1, <4>2, <4>3
    <3> QED
      BY <2>2, <3>1, <3>2
  <2>4. S \subseteq n..n + Limit - 1
    BY <2>3
  <2>5. IsFiniteSet(n..n + Limit - 1) /\ Cardinality(n..n + Limit - 1) = Limit
    <3>1. n \in Int /\ n + Limit - 1 \in Int /\ n <= n + Limit - 1
      BY <2>2
    <3>2. IsFiniteSet(n..n + Limit - 1)
          /\ Cardinality(n..n + Limit - 1) = IF n > n + Limit - 1 THEN 0 ELSE n + Limit - 1 - n + 1
      BY <3>1, FS_Interval
    <3> QED
      BY <2>2, <3>1, <3>2
  <2>6. Cardinality(S) <= Cardinality(n..n + Limit - 1)
    BY <2>4, <2>5, FS_Subset
  <2> QED
    BY <2>5, <2>6
<1> QED
  BY <1>4, <1>5

\* The bucket of a request is the one of who sent it, whatever the header says.
LEMMA OwnBucket ==
  ASSUME Edge!LimiterAssumption, NEW key, NEW client, NEW prefix \in {<<>>, <<Forged>>}
  PROVE  Edge!Bucket(key, IF Hops = 0 THEN prefix
                          ELSE Append(prefix, client) \o [i \in 1..Hops - 1 |-> "proxy"], client)
           = IF key # NoKey THEN key ELSE client
<1>1. CASE Hops = 0
  BY <1>1 DEF Edge!Bucket, Edge!ClientIp
<1>2. CASE Hops > 0
  <2> DEFINE S == {client, Forged, "proxy"}
             f == Append(prefix, client)
             proxies == [i \in 1..Hops - 1 |-> "proxy"]
             chain == f \o proxies
  <2>1. f \in Seq(S) /\ Len(f) \in {1, 2} /\ f[Len(f)] = client
    <3>1. CASE prefix = <<>>
      BY <3>1
    <3>2. CASE prefix = <<Forged>>
      BY <3>2
    <3> QED
      BY <3>1, <3>2
  <2>2. proxies \in Seq(S) /\ Len(proxies) = Hops - 1
    BY <1>2, LimiterConstants
  <2> HIDE DEF S, f, proxies
  <2>3. /\ Len(chain) = Len(f) + Len(proxies)
        /\ \A i \in 1..Len(f) + Len(proxies) : i <= Len(f) => chain[i] = f[i]
    BY <2>1, <2>2, ConcatProperties
  <2> HIDE DEF chain
  <2>4. Len(chain) - Hops + 1 = Len(f) /\ Len(chain) >= Hops /\ chain[Len(f)] = client
    <3>0. Len(f) \in {1, 2}
      BY <2>1
    <3>1. Hops \in Nat /\ Hops > 0 /\ Len(f) \in Nat /\ Len(f) >= 1
      <4>1. Hops \in Nat
        BY LimiterConstants
      <4>2. Len(f) \in Nat /\ Len(f) >= 1
        BY <3>0
      <4> QED
        BY <1>2, <4>1, <4>2
    <3>2. Len(chain) = Len(f) + (Hops - 1) /\ Len(f) \in 1..Len(f) + Len(proxies)
      BY <2>2, <2>3, <3>1
    <3>3. chain[Len(f)] = client
      BY <2>1, <2>3, <3>1, <3>2
    <3> QED
      BY <3>1, <3>2, <3>3
  <2>5. Edge!ClientIp(chain, client) = client
    BY <1>2, <2>4 DEF Edge!ClientIp
  <2>6. Edge!Bucket(key, chain, client) = IF key # NoKey THEN key ELSE client
    BY <2>5 DEF Edge!Bucket
  <2> QED
    BY <1>2, <2>6 DEF chain, f, proxies
<1> QED
  BY <1>1, <1>2, LimiterConstants

\* The sweep leaves a bucket alone or prunes it.
LEMMA SweptFacts ==
  ASSUME NEW table, NEW count, NEW c
  PROVE  LET of(h) == IF c \in DOMAIN h THEN h[c] ELSE <<>>
         IN  of(Edge!Swept(table, count)) \in {of(table), Edge!Live(of(table))}
<1> DEFINE of(h) == IF c \in DOMAIN h THEN h[c] ELSE <<>>
           swept == [b \in {x \in DOMAIN table : Edge!Live(table[x]) # <<>>} |-> Edge!Live(table[b])]
<1>1. Edge!Swept(table, count) = table \/ Edge!Swept(table, count) = swept
  BY DEF Edge!Swept
<1>2. of(swept) = of(table) \/ of(swept) = Edge!Live(of(table))
  <2>1. CASE c \notin DOMAIN table
    BY <2>1
  <2>2. CASE c \in DOMAIN table /\ Edge!Live(table[c]) = <<>>
    BY <2>2
  <2>3. CASE c \in DOMAIN table /\ Edge!Live(table[c]) # <<>>
    BY <2>3
  <2> QED
    BY <2>1, <2>2, <2>3
<1> QED
  BY <1>1, <1>2

\* A refusal passes the layers outside the limiter.
LEMMA RefusalPasses == {"request context", "metrics", "cors"} \subseteq Edge!PassedFrom("rate limit")
<1> DEFINE S == Edge!Stack
<1>1. DOMAIN S = 1..6 /\ S[1] = "cors" /\ S[2] = "metrics" /\ S[3] = "request context"
      /\ S[4] = "rate limit"
  <2> DEFINE A == Edge!Added
  <2>1. Len(A) = 6 /\ A[6] = "cors" /\ A[5] = "metrics" /\ A[4] = "request context"
        /\ A[3] = "rate limit"
    BY DEF Edge!Added
  <2> HIDE DEF A
  <2>2. S = [i \in 1..6 |-> A[6 - i + 1]]
    BY <2>1 DEF Edge!Stack, Edge!Reverse, A
  <2>3. 6 - 1 + 1 = 6 /\ 6 - 2 + 1 = 5 /\ 6 - 3 + 1 = 4 /\ 6 - 4 + 1 = 3
    OBVIOUS
  <2> HIDE DEF S
  <2>4. /\ DOMAIN S = 1..6 /\ S[1] = A[6 - 1 + 1] /\ S[2] = A[6 - 2 + 1]
        /\ S[3] = A[6 - 3 + 1] /\ S[4] = A[6 - 4 + 1]
    BY <2>2
  <2> QED
    BY <2>1, <2>3, <2>4
<1>2. Edge!PassedFrom("rate limit")
        = {S[i] : i \in {j \in DOMAIN S : \E k \in DOMAIN S : j < k /\ S[k] = "rate limit"}}
  BY DEF Edge!PassedFrom
<1> HIDE DEF S
<1>3. ASSUME NEW i \in {1, 2, 3} PROVE S[i] \in Edge!PassedFrom("rate limit")
  <2>1. i \in DOMAIN S /\ 4 \in DOMAIN S /\ i < 4
    <3>1. DOMAIN S = 1..6
      BY <1>1
    <3> QED
      BY <3>1
  <2> QED
    BY <1>1, <1>2, <2>1
<1> QED
  BY <1>1, <1>3

\* The time that is left, in half seconds, is less than the seconds told.
LEMMA ToldIsEnough ==
  ASSUME NEW q \in Seq(Nat), q # <<>>, now \in Nat, Window \in Nat
  PROVE  /\ Edge!RetryAfter(q) \in Int
         /\ Window + q[1] < now + 2 * Edge!RetryAfter(q)
<1> DEFINE d == (Window + q[1]) - now
<1>1. q[1] \in Nat /\ d \in Int
  OBVIOUS
<1>2. d \div 2 \in Int /\ d < 2 * (d \div 2 + 1)
  <2> HIDE DEF d
  <2> QED
    BY <1>1
<1>3. Edge!RetryAfter(q) = d \div 2 + 1
  BY DEF Edge!RetryAfter
<1> DEFINE r == Edge!RetryAfter(q)
<1>4. r \in Int /\ d < 2 * r
  BY <1>2, <1>3
<1> HIDE DEF r
<1>5. Window + q[1] < now + 2 * r
  BY <1>1, <1>4
<1> QED
  BY <1>4, <1>5 DEF r

\* What the sweep does to a bucket does not matter.
LEMMA PrunedIsHonoured ==
  ASSUME now \in Nat, Window \in Nat, Limit \in Nat,
         NEW s, NEW q, NEW p, Honoured(s, q, p), NEW h \in {q, Edge!Live(q)}
  PROVE  Honoured(s, h, p)
<1>1. s \in Seq(Nat) /\ Kept(q, s) /\ Len(q) <= Limit
  BY DEF Honoured, Recorded
<1>2. Kept(Edge!Live(q), s) /\ Len(Edge!Live(q)) <= Len(q) /\ q \in Seq(Nat) /\ Edge!Live(q) \in Seq(Nat)
  BY <1>1, LiveKeeps
<1>3. Kept(h, s) /\ Len(h) <= Limit
  BY <1>1, <1>2
<1> QED
  BY <1>3 DEF Honoured

\* What a request let in does to the caller it is counted for.
LEMMA AdmittedIsHonoured ==
  ASSUME now \in Nat, Window \in Nat, Limit \in Nat, Limit > 0,
         NEW s, NEW q, NEW p, Honoured(s, q, p), Len(Edge!Live(q)) < Limit
  PROVE  Honoured(Append(s, now), Append(Edge!Live(q), now), 0)
<1>1. s \in Seq(Nat) /\ Recorded(s) /\ Kept(q, s)
  BY DEF Honoured, Recorded
<1>2. Kept(Edge!Live(q), s) /\ Edge!Live(q) \in Seq(Nat)
  BY <1>1, LiveKeeps
<1>3. Kept(Append(Edge!Live(q), now), Append(s, now))
  BY <1>1, <1>2, AdmitKeeps
<1>4. Recorded(Append(s, now))
  BY <1>1, <1>2, RecordKeeps
<1>5. Len(Append(Edge!Live(q), now)) = Len(Edge!Live(q)) + 1 /\ Len(Edge!Live(q)) \in Nat
  BY <1>2
<1> QED
  BY <1>3, <1>4, <1>5 DEF Honoured

\* And what a refusal does.
LEMMA RefusedIsHonoured ==
  ASSUME now \in Nat, Window \in Nat, Limit \in Nat, Limit > 0,
         NEW s, NEW q, NEW p, Honoured(s, q, p), Len(Edge!Live(q)) >= Limit
  PROVE  Honoured(s, Edge!Live(q), now + 2 * Edge!RetryAfter(Edge!Live(q)))
<1>1. s \in Seq(Nat) /\ Recorded(s) /\ Kept(q, s) /\ Len(q) <= Limit
  BY DEF Honoured, Recorded
<1> DEFINE a == Edge!Live(q)
           r == Edge!RetryAfter(a)
<1>2. Kept(a, s) /\ a \in Seq(Nat) /\ Len(a) <= Len(q) /\ q \in Seq(Nat)
  BY <1>1, LiveKeeps
<1>3. Len(a) >= Limit
  OBVIOUS
<1> HIDE DEF a
<1>4. Len(a) = Limit /\ a # <<>>
  BY <1>1, <1>2, <1>3
<1>5. Len(s) >= Limit /\ a[1] = s[Len(s) - Limit + 1] /\ a[1] \in Nat
  BY <1>1, <1>2, <1>4, FullBucket
<1>6. r \in Int /\ Window + a[1] < now + 2 * r
  BY <1>2, <1>4, ToldIsEnough
<1> HIDE DEF r
<1>7. Promised(s, now + 2 * r) /\ now + 2 * r \in Int
  BY <1>5, <1>6 DEF Promised
<1>8. Honoured(s, a, now + 2 * r)
  BY <1>1, <1>2, <1>4, <1>7 DEF Honoured
<1> QED
  BY <1>8 DEF a, r

\* The bucket the sweep finds for a caller.
LEMMA PutFacts ==
  ASSUME NEW b, NEW q, NEW count, NEW c, hits' = Edge!Swept(Edge!Put(b, q), count)
  PROVE  LET x == IF c = b THEN q ELSE Edge!HitsOf(c)
         IN  Edge!HitsOf(c)' \in {x, Edge!Live(x)}
<1> DEFINE of(h) == IF c \in DOMAIN h THEN h[c] ELSE <<>>
           x == IF c = b THEN q ELSE Edge!HitsOf(c)
           table == Edge!Put(b, q)
<1>1. of(table) = x
  BY DEF Edge!Put, Edge!HitsOf
<1>2. Edge!HitsOf(c)' = of(hits')
  BY DEF Edge!HitsOf
<1> HIDE DEF table
<1>3. of(Edge!Swept(table, count)) \in {of(table), Edge!Live(of(table))}
  BY SweptFacts
<1> QED
  BY <1>1, <1>2, <1>3 DEF table

\* One request.
LEMMA RequestKeeps ==
  ASSUME Edge!LimiterAssumption, LimiterInv,
         NEW key \in ApiKeys \cup {NoKey}, NEW client \in Clients,
         NEW prefix \in {<<>>, <<Forged>>}, Edge!Request(key, client, prefix)
  PROVE  LimiterInv'
<1> DEFINE who == IF key # NoKey THEN key ELSE client
           q == Edge!Live(Edge!HitsOf(who))
           count == (counted + 1) % SweepEvery
<1>1. Limit \in Nat /\ Limit > 0 /\ Window \in Nat /\ now \in Nat /\ who \in Edge!Identities
  BY LimiterConstants DEF LimiterInv, Edge!Identities
<1>2. \A c \in Edge!Identities : Honoured(admitted[c], Edge!HitsOf(c), promised[c])
  BY DEF LimiterInv
<1>3. Edge!Bucket(key, IF Hops = 0 THEN prefix
                       ELSE Append(prefix, client) \o [i \in 1..Hops - 1 |-> "proxy"], client) = who
  BY OwnBucket
<1>4. /\ now' = now
      /\ \/ /\ Len(q) < Limit
            /\ hits' = Edge!Swept(Edge!Put(who, Append(q, now)), count)
            /\ admitted' = [admitted EXCEPT ![who] = Append(@, now)]
            /\ promised' = [promised EXCEPT ![who] = 0]
            /\ said' = [status |-> 200, passed |-> Edge!PassedFrom("security headers")]
         \/ /\ Len(q) >= Limit
            /\ hits' = Edge!Swept(Edge!Put(who, q), count)
            /\ promised' = [promised EXCEPT ![who] = now + 2 * Edge!RetryAfter(q)]
            /\ said' = [status |-> 429, passed |-> Edge!PassedFrom("rate limit")]
            /\ admitted' = admitted
  BY <1>3 DEF Edge!Request
<1> HIDE DEF who, q, count
<1>5. /\ admitted = [c \in Edge!Identities |-> admitted[c]]
      /\ promised = [c \in Edge!Identities |-> promised[c]]
  BY DEF LimiterInv
<1>6. ASSUME NEW c \in Edge!Identities, NEW s, NEW h, NEW p, Honoured(s, h, p),
             admitted'[c] = s, promised'[c] = p, Edge!HitsOf(c)' \in {h, Edge!Live(h)}
      PROVE  Honoured(admitted[c], Edge!HitsOf(c), promised[c])'
  <2> DEFINE g == Edge!HitsOf(c)'
  <2>1. g \in {h, Edge!Live(h)}
    BY <1>6
  <2> HIDE DEF g
  <2>2. Honoured(s, g, p)
    BY <1>1, <1>6, <2>1, PrunedIsHonoured
  <2>3. Honoured(admitted'[c], g, promised'[c])
    BY <1>6, <2>2
  <2> QED
    BY <1>4, <2>3 DEF Honoured, Recorded, Kept, Promised, g
<1>7. CASE /\ Len(q) < Limit
           /\ hits' = Edge!Swept(Edge!Put(who, Append(q, now)), count)
           /\ admitted' = [admitted EXCEPT ![who] = Append(@, now)]
           /\ promised' = [promised EXCEPT ![who] = 0]
           /\ said' = [status |-> 200, passed |-> Edge!PassedFrom("security headers")]
  <2>1. Honoured(Append(admitted[who], now), Append(q, now), 0)
    BY <1>1, <1>2, <1>7, AdmittedIsHonoured DEF q
  <2>2. ASSUME NEW c \in Edge!Identities
        PROVE  Honoured(admitted[c], Edge!HitsOf(c), promised[c])'
    <3>1. CASE c = who
      <4>1. admitted'[c] = Append(admitted[who], now) /\ promised'[c] = 0
        BY <1>1, <1>5, <1>7, <3>1
      <4>2. Edge!HitsOf(c)' \in {Append(q, now), Edge!Live(Append(q, now))}
        BY <1>7, <3>1, PutFacts
      <4> QED
        BY <1>6, <2>1, <4>1, <4>2
    <3>2. CASE c # who
      <4>1. admitted'[c] = admitted[c] /\ promised'[c] = promised[c]
        BY <1>1, <1>5, <1>7, <3>2
      <4>2. Edge!HitsOf(c)' \in {Edge!HitsOf(c), Edge!Live(Edge!HitsOf(c))}
        BY <1>7, <3>2, PutFacts
      <4> QED
        BY <1>2, <1>6, <4>1, <4>2
    <3> QED
      BY <3>1, <3>2
  <2>3. /\ admitted' = [c \in Edge!Identities |-> admitted'[c]]
        /\ promised' = [c \in Edge!Identities |-> promised'[c]]
    BY <1>1, <1>5, <1>7
  <2>4. said'.status # 429
    <3> DEFINE v == Edge!PassedFrom("security headers")
    <3>1. said' = [status |-> 200, passed |-> v]
      BY <1>7
    <3> HIDE DEF v
    <3>2. said'.status = 200
      BY <3>1, Zenon
    <3> QED
      BY <3>2
  <2> QED
    BY <1>1, <1>4, <2>2, <2>3, <2>4 DEF LimiterInv, Edge!Identities
<1>8. CASE /\ Len(q) >= Limit
           /\ hits' = Edge!Swept(Edge!Put(who, q), count)
           /\ promised' = [promised EXCEPT ![who] = now + 2 * Edge!RetryAfter(q)]
           /\ said' = [status |-> 429, passed |-> Edge!PassedFrom("rate limit")]
           /\ admitted' = admitted
  <2>1. Honoured(admitted[who], q, now + 2 * Edge!RetryAfter(q))
    BY <1>1, <1>2, <1>8, RefusedIsHonoured DEF q
  <2>2. ASSUME NEW c \in Edge!Identities
        PROVE  Honoured(admitted[c], Edge!HitsOf(c), promised[c])'
    <3>1. CASE c = who
      <4>1. admitted'[c] = admitted[who] /\ promised'[c] = now + 2 * Edge!RetryAfter(q)
        BY <1>1, <1>5, <1>8, <3>1
      <4>2. Edge!HitsOf(c)' \in {q, Edge!Live(q)}
        BY <1>8, <3>1, PutFacts
      <4> QED
        BY <1>6, <2>1, <4>1, <4>2
    <3>2. CASE c # who
      <4>1. admitted'[c] = admitted[c] /\ promised'[c] = promised[c]
        BY <1>1, <1>5, <1>8, <3>2
      <4>2. Edge!HitsOf(c)' \in {Edge!HitsOf(c), Edge!Live(Edge!HitsOf(c))}
        BY <1>8, <3>2, PutFacts
      <4> QED
        BY <1>2, <1>6, <4>1, <4>2
    <3> QED
      BY <3>1, <3>2
  <2>3. /\ admitted' = [c \in Edge!Identities |-> admitted'[c]]
        /\ promised' = [c \in Edge!Identities |-> promised'[c]]
    BY <1>1, <1>5, <1>8
  <2>4. said'.passed = Edge!PassedFrom("rate limit")'
    BY <1>8 DEF Edge!PassedFrom, Edge!Stack, Edge!Reverse, Edge!Added
  <2> QED
    BY <1>1, <1>4, <2>2, <2>3, <2>4 DEF LimiterInv, Edge!Identities
<1> QED
  BY <1>4, <1>7, <1>8

\* No caller gets more than the limit into any window, and a refusal keeps its
\* promise: whatever the limits, the callers and the headers they write.
THEOREM LimitsAreHonoured ==
  ASSUME Edge!LimiterAssumption PROVE Edge!LimiterSpec => []LimitIsHonoured
<1>1. Edge!LimiterInit => LimiterInv
  <2> SUFFICES ASSUME Edge!LimiterInit PROVE LimiterInv
    OBVIOUS
  <2>1. /\ now = 0 /\ hits = << >> /\ said.status # 429
        /\ admitted = [c \in Edge!Identities |-> <<>>] /\ promised = [c \in Edge!Identities |-> 0]
    BY DEF Edge!LimiterInit
  <2>2. Recorded(<<>>) /\ Kept(<<>>, <<>>)
    <3>1. After(<<>>, 0) = <<>>
      BY DEF After
    <3>2. Len(<<>>) = 0
      OBVIOUS
    <3> QED
      BY <3>1, <3>2 DEF Recorded, Kept
  <2>3. Honoured(<<>>, <<>>, 0)
    BY <2>2, LimiterConstants DEF Honoured
  <2>4. \A c \in Edge!Identities : Edge!HitsOf(c) = <<>>
    BY <2>1 DEF Edge!HitsOf
  <2>5. \A c \in Edge!Identities : Honoured(admitted[c], Edge!HitsOf(c), promised[c])
    BY <2>1, <2>3, <2>4
  <2> QED
    BY <2>1, <2>5 DEF LimiterInv
<1>2. LimiterInv /\ [Edge!LimiterNext]_(Edge!limiterVars) => LimiterInv'
  <2> SUFFICES ASSUME LimiterInv, [Edge!LimiterNext]_(Edge!limiterVars) PROVE LimiterInv'
    OBVIOUS
  <2>1. CASE Edge!Tick
    <3>1. /\ now' = now + 1 /\ hits' = hits /\ admitted' = admitted /\ promised' = promised
          /\ said' = said /\ now \in Nat
      BY <2>1 DEF Edge!Tick, LimiterInv
    <3>2. ASSUME NEW s, NEW q, NEW p, Honoured(s, q, p) PROVE Honoured(s, q, p)'
      <4>1. Recorded(s) /\ Kept(q, s) /\ Len(q) <= Limit /\ p \in Int /\ (p # 0 => Promised(s, p))
        BY <3>2 DEF Honoured
      <4>2. s \in Seq(Nat) /\ \A i \in 1..Len(s) : s[i] <= now' /\ s[i] \in Nat
        BY <3>1, <4>1 DEF Recorded
      <4>3. Recorded(s)'
        BY <4>1, <4>2 DEF Recorded
      <4>4. Kept(q, s)'
        <5>1. PICK k \in 0..Len(s) : q = After(s, k) /\ \A i \in 1..k : s[i] + Window < now
          BY <4>1 DEF Kept
        <5>2. \A i \in 1..k : i \in 1..Len(s) /\ s[i] + Window < now'
          BY <3>1, <4>2, <5>1, LimiterConstants
        <5> QED
          BY <5>1, <5>2 DEF Kept, After
      <4> QED
        BY <4>1, <4>3, <4>4 DEF Honoured, Promised
    <3>3. \A c \in Edge!Identities : Edge!HitsOf(c)' = Edge!HitsOf(c)
      BY <3>1 DEF Edge!HitsOf
    <3>4. ASSUME NEW c \in Edge!Identities
          PROVE  Honoured(admitted[c], Edge!HitsOf(c), promised[c])'
      <4>1. Honoured(admitted[c], Edge!HitsOf(c), promised[c])
        BY DEF LimiterInv
      <4> DEFINE h == Edge!HitsOf(c)
      <4> HIDE DEF h
      <4> QED
        BY <3>1, <3>2, <3>3, <4>1
    <3>5. said'.status = 429 => said'.passed = Edge!PassedFrom("rate limit")'
      BY <3>1 DEF LimiterInv, Edge!PassedFrom, Edge!Stack, Edge!Reverse, Edge!Added
    <3>6. /\ now' \in Nat
          /\ admitted' = [c \in Edge!Identities |-> admitted'[c]]
          /\ promised' = [c \in Edge!Identities |-> promised'[c]]
      <4>1. /\ admitted = [c \in Edge!Identities |-> admitted[c]]
            /\ promised = [c \in Edge!Identities |-> promised[c]]
        BY DEF LimiterInv
      <4> QED
        BY <3>1, <4>1
    <3> QED
      BY <3>4, <3>5, <3>6 DEF LimiterInv, Edge!Identities
  <2>2. CASE \E key \in ApiKeys \cup {NoKey}, client \in Clients, prefix \in {<<>>, <<Forged>>} :
               Edge!Request(key, client, prefix)
    BY <2>2, RequestKeeps
  <2>3. CASE UNCHANGED Edge!limiterVars
    BY <2>3 DEF Edge!limiterVars, LimiterInv, Honoured, Recorded, Kept, Promised,
           Edge!HitsOf, Edge!PassedFrom
  <2> QED
    BY <2>1, <2>2, <2>3 DEF Edge!LimiterNext
<1>3. LimiterInv => LimitIsHonoured
  <2> SUFFICES ASSUME LimiterInv PROVE LimitIsHonoured
    OBVIOUS
  <2>1. Limit \in Nat /\ Limit > 0 /\ Window \in Nat /\ now \in Nat
    BY LimiterConstants DEF LimiterInv
  <2>2. ASSUME NEW c \in Edge!Identities
        PROVE  /\ Recorded(admitted[c]) /\ Kept(Edge!HitsOf(c), admitted[c]) /\ promised[c] \in Int
               /\ promised[c] # 0 => Promised(admitted[c], promised[c])
    BY DEF LimiterInv, Honoured
  <2>3. ASSUME NEW c \in Edge!Identities, NEW t \in 0..now
        PROVE  Edge!Cardinality({i \in DOMAIN admitted[c] : admitted[c][i] \in t..(t + Window)}) <= Limit
    <3>1. Recorded(admitted[c]) /\ t \in Nat
      BY <2>1, <2>2
    <3> QED
      BY <2>1, <3>1, WindowIsBounded
  <2>4. ASSUME NEW c \in Edge!Identities, promised[c] \in 1..now
        PROVE  Len(Edge!Live(Edge!HitsOf(c))) < Limit
    <3>1. promised[c] # 0 /\ promised[c] <= now
      BY <2>1, <2>4
    <3>2. Promised(admitted[c], promised[c])
      BY <2>2, <3>1
    <3> DEFINE q == Edge!HitsOf(c)
               s == admitted[c]
               p == promised[c]
    <3>3. Recorded(s) /\ Kept(q, s) /\ p \in Int /\ Promised(s, p) /\ p <= now
      BY <2>2, <3>1, <3>2
    <3> HIDE DEF q, s, p
    <3>4. Len(Edge!Live(q)) < Limit
      BY <2>1, <3>3, PromiseHolds
    <3> QED
      BY <3>4 DEF q
  <2>5. said.status = 429 => {"request context", "metrics", "cors"} \subseteq said.passed
    BY RefusalPasses DEF LimiterInv
  <2> QED
    BY <2>3, <2>4, <2>5 DEF LimitIsHonoured, Edge!LimitIsHonoured
<1> QED
  BY <1>1, <1>2, <1>3, PTL DEF Edge!LimiterSpec
-----------------------------------------------------------------------------
(* Api: whatever was changed with a key, an entry for that key declares.    *)

ApiInv ==
  /\ keys \in Seq(Declarations) /\ production \in BOOLEAN
  /\ ChangesAreWarranted

\* Finitely many positions have a last one.
LEMMA LastPosition ==
  ASSUME NEW n \in Nat, NEW S, S \subseteq 1..n, S # {}
  PROVE  Max(S) \in S
<1> DEFINE T == {n - i : i \in S}
<1>1. T \subseteq Nat /\ T # {}
  OBVIOUS
<1>2. PICK least \in T : \A m \in T : least <= m
  <2> HIDE DEF T
  <2> QED
    BY <1>1, LeastNumber
<1>3. PICK last \in S : least = n - last
  BY <1>2
<1>4. \A i \in S : last >= i
  <2> SUFFICES ASSUME NEW i \in S PROVE last >= i
    OBVIOUS
  <2>1. n - last <= n - i
    BY <1>2, <1>3
  <2>2. i \in Int /\ last \in Int
    BY <1>3
  <2> QED
    BY <2>1, <2>2
<1>5. \E x \in S : \A y \in S : x >= y
  BY <1>3, <1>4
<1> QED
  BY <1>5 DEF Max

\* A key that is known is granted what an entry of its own, not refused,
\* declares.
LEMMA GrantIsDeclared ==
  ASSUME keys \in Seq(Declarations), NEW k \in DOMAIN ParseKeys(keys)
  PROVE  \E i \in DOMAIN keys : /\ keys[i].key = k /\ keys[i] \in Declarations
                                /\ ParseKeys(keys)[k] = Grant(keys[i])
<1> DEFINE kept == {i \in DOMAIN keys : keys[i].key # Blank /\ ~ Refused(keys[i])}
           own == {i \in kept : keys[i].key = k}
           known == {keys[i].key : i \in kept}
<1>1. ParseKeys(keys) = [h \in known |-> Grant(keys[Max({i \in kept : keys[i].key = h})])]
  BY DEF ParseKeys
<1>2. k \in known /\ ParseKeys(keys)[k] = Grant(keys[Max(own)])
  <2>1. k \in known
    BY <1>1
  <2> QED
    BY <1>1, <2>1
<1>3. own # {} /\ own \subseteq DOMAIN keys
  BY <1>2
<1>4. DOMAIN keys = 1..Len(keys) /\ Len(keys) \in Nat
  OBVIOUS
<1>5. Max(own) \in own
  <2> HIDE DEF own
  <2> QED
    BY <1>3, <1>4, LastPosition
<1>6. Max(own) \in DOMAIN keys /\ keys[Max(own)].key = k
  BY <1>5
<1>7. keys[Max(own)] \in Declarations
  <2> DEFINE last == Max(own)
  <2>1. last \in DOMAIN keys
    BY <1>6
  <2> HIDE DEF last
  <2>2. keys[last] \in Declarations
    BY <2>1
  <2> QED
    BY <2>2 DEF last
<1> QED
  BY <1>2, <1>6, <1>7

\* Who is let in without a key on record, and who with one.
LEMMA WhoAsks ==
  ASSUME NEW header, Principal(header).refused = 0
  PROVE  /\ DOMAIN ParseKeys(keys) = {} => ~ production
         /\ DOMAIN ParseKeys(keys) # {} =>
              /\ header \in DOMAIN ParseKeys(keys)
              /\ Principal(header).tenants = ParseKeys(keys)[header].tenants
              /\ Principal(header).role = ParseKeys(keys)[header].role
<1> DEFINE known == ParseKeys(keys)
<1>1. Principal(header) =
        CASE DOMAIN known = {} /\ production -> [refused |-> 503]
          [] DOMAIN known = {} /\ ~ production -> [refused |-> 0, tenants |-> {All}, role |-> "admin"]
          [] DOMAIN known # {} /\ header = Blank -> [refused |-> 401]
          [] DOMAIN known # {} /\ header # Blank /\ header \notin DOMAIN known -> [refused |-> 403]
          [] OTHER -> [refused |-> 0, tenants |-> known[header].tenants, role |-> known[header].role]
  BY DEF Principal
<1> HIDE DEF known
<1>2. DOMAIN known = {} => ~ production
  BY <1>1
<1>3. ASSUME DOMAIN known # {}
      PROVE  /\ header \in DOMAIN known
             /\ Principal(header).tenants = known[header].tenants
             /\ Principal(header).role = known[header].role
  <2>1. header # Blank /\ header \in DOMAIN known
    BY <1>1, <1>3
  <2>2. Principal(header) =
          [refused |-> 0, tenants |-> known[header].tenants, role |-> known[header].role]
    BY <1>1, <1>3, <2>1
  <2> QED
    BY <2>1, <2>2
<1> QED
  BY <1>2, <1>3 DEF known

\* What an entry's grant permits, the entry warrants: a role nobody knows
\* permits no change at all.
LEMMA GrantIsWarranted ==
  ASSUME TableIsGuarded,
         NEW e \in Declarations, NEW n \in DOMAIN Routes, Routes[n].changes # Nothing,
         NEW p, p.tenants = Grant(e).tenants, p.role = Grant(e).role,
         NEW t, NEW row, Permitted(p, Routes[n], t), Finds(p, Routes[n], t, row)
  PROVE  Warrants(e, Routes[n].changes, Touches(Routes[n], t, row))
<1> DEFINE what == Routes[n].changes
           perm == Routes[n].perm
           to == Touches(Routes[n], t, row)
<1>1. /\ Routes[n].reach \in {"tenant", "row", "owner", "fleet"}
      /\ perm \in {"write", "assess", "attest", "approve", "admin"}
      /\ what \in Approvals => perm \in {"approve", "admin"}
      /\ perm = "attest" => what = "attestations"
  BY DEF TableIsGuarded
<1>2. All \in p.tenants \/ to \in p.tenants
  BY <1>1 DEF Permitted, Finds, Touches, CanAccess
<1>3. perm \in RolePermissions[p.role]
  BY DEF Permitted, Has
<1>4. CASE ~ e.scoped
  BY <1>4 DEF Warrants
<1>5. CASE e.scoped
  <2>1. p.tenants = e.tenants /\ p.role = RoleOf(e)
    BY <1>5 DEF Grant
  <2>2. perm \notin RolePermissions["viewer"]
    BY <1>1 DEF RolePermissions, Read
  <2>3. perm \in RolePermissions["auditor"] => what = "attestations"
    BY <1>1 DEF RolePermissions, Read
  <2>4. perm \in RolePermissions["operator"] => what \notin Approvals
    BY <1>1 DEF RolePermissions, Read
  <2>5. /\ DOMAIN RolePermissions = {"viewer", "auditor", "operator", "admin"}
        /\ Blank \notin DOMAIN RolePermissions
    <3>1. DOMAIN RolePermissions = {"viewer", "auditor", "operator", "admin"}
      BY DEF RolePermissions
    <3>2. Blank \notin {"viewer", "auditor", "operator", "admin"}
      BY Zenon DEF Blank
    <3> QED
      BY <3>1, <3>2
  <2>6. CASE e.role = Blank
    <3>1. CASE e.tenants = {All}
      BY <1>5, <2>6, <3>1 DEF Warrants
    <3>2. CASE e.tenants # {All}
      <4>1. p.role = "operator"
        BY <2>1, <2>5, <2>6, <3>2 DEF RoleOf, DefaultRole
      <4>2. Duties("operator", what)
        BY <1>3, <2>4, <4>1 DEF Duties
      <4> QED
        BY <1>2, <2>1, <2>6, <4>2 DEF Warrants
    <3> QED
      BY <3>1, <3>2
  <2>7. CASE e.role # Blank /\ e.role \in DOMAIN RolePermissions
    <3>1. p.role = e.role
      BY <2>1, <2>7 DEF RoleOf
    <3>2. Duties(e.role, what)
      BY <1>3, <2>2, <2>3, <2>4, <2>5, <2>7, <3>1 DEF Duties
    <3> QED
      BY <1>2, <2>1, <3>2 DEF Warrants
  <2>8. CASE e.role # Blank /\ e.role \notin DOMAIN RolePermissions
    <3>1. p.role = "viewer"
      BY <2>1, <2>8 DEF RoleOf
    <3> QED
      BY <1>3, <2>2, <3>1
  <2> QED
    BY <2>6, <2>7, <2>8
<1> QED
  BY <1>4, <1>5 DEF Declarations

\* Whatever was changed with a key, an entry for that key warrants, for every
\* list of entries, any tenants and whatever key a request carries: and every
\* request is served by the route it was made for (main.py, auth.py).
THEOREM ChangesStayWarranted == ApiSpec => []ChangesAreWarranted
<1>1. ApiInit => ApiInv
  BY DEF ApiInit, ApiInv, ChangesAreWarranted
<1>2. ApiInv /\ [ApiNext]_apiVars => ApiInv'
  <2> SUFFICES ASSUME ApiInv, [ApiNext]_apiVars PROVE ApiInv'
    OBVIOUS
  <2>1. CASE UNCHANGED apiVars
    BY <2>1 DEF apiVars, ApiInv, ChangesAreWarranted
  <2>2. ASSUME NEW n \in DOMAIN Routes, NEW status, NEW changes, Reply(n, status, changes),
               \A c \in changes \ changed :
                 \/ DOMAIN ParseKeys(keys) = {} /\ ~ production
                 \/ \E i \in DOMAIN keys : keys[i].key = c[3] /\ Warrants(keys[i], c[1], c[2])
        PROVE  ApiInv'
    <3>1. /\ answer'.served = ServedBy[n] /\ answer'.asked = n
          /\ changed' = changes /\ keys' = keys /\ production' = production
      BY <2>2 DEF Reply
    <3>2. answer'.served = answer'.asked
      BY <3>1, TableAssumption DEF TableIsReached
    <3>3. \A c \in changed' :
            \/ DOMAIN ParseKeys(keys) = {} /\ ~ production
            \/ \E i \in DOMAIN keys : keys[i].key = c[3] /\ Warrants(keys[i], c[1], c[2])
      BY <2>2, <3>1 DEF ApiInv, ChangesAreWarranted
    <3> QED
      BY <3>1, <3>2, <3>3 DEF ApiInv, ChangesAreWarranted
  <2>3. ASSUME NEW n \in DOMAIN Routes, NEW header \in Headers, NEW t \in Tenants,
               NEW row \in Tenants \cup {NoRow},
               \/ Refuse(n, header) \/ Forbid(n, header, t)
               \/ Miss(n, header, t, row) \/ Serve(n, header, t, row)
        PROVE  ApiInv'
    <3> DEFINE r == Routes[ServedBy[n]]
               p == Principal(header)
               change == <<r.changes, Touches(r, t, row), header>>
    <3>1. ServedBy[n] = n /\ r = Routes[n] /\ TableIsGuarded
      BY TableAssumption DEF TableIsReached
    <3>2. CASE \E status : Reply(n, status, changed)
      BY <2>2, <3>2
    <3>3. CASE /\ p.refused = 0 /\ Permitted(p, r, t) /\ Finds(p, r, t, row)
               /\ r.changes # Nothing /\ Reply(n, 200, changed \cup {change})
      <4>1. CASE DOMAIN ParseKeys(keys) = {}
        <5>1. ~ production
          BY <3>3, <4>1, WhoAsks
        <5> QED
          BY <2>2, <3>3, <4>1, <5>1
      <4>2. CASE DOMAIN ParseKeys(keys) # {}
        <5>1. /\ header \in DOMAIN ParseKeys(keys)
              /\ p.tenants = ParseKeys(keys)[header].tenants
              /\ p.role = ParseKeys(keys)[header].role
          BY <3>3, <4>2, WhoAsks
        <5>2. PICK i \in DOMAIN keys : /\ keys[i].key = header /\ keys[i] \in Declarations
                                       /\ ParseKeys(keys)[header] = Grant(keys[i])
          BY <5>1, GrantIsDeclared DEF ApiInv
        <5>3. Warrants(keys[i], Routes[n].changes, Touches(Routes[n], t, row))
          <6>1. /\ p.tenants = Grant(keys[i]).tenants /\ p.role = Grant(keys[i]).role
                /\ Permitted(p, Routes[n], t) /\ Finds(p, Routes[n], t, row)
                /\ Routes[n].changes # Nothing
            BY <3>1, <3>3, <5>1, <5>2
          <6> HIDE DEF p
          <6> QED
            BY <3>1, <5>2, <6>1, GrantIsWarranted
        <5>4. /\ change[1] = Routes[n].changes /\ change[3] = header
              /\ change[2] = Touches(Routes[n], t, row)
          BY <3>1
        <5>5. \A c \in (changed \cup {change}) \ changed :
                \E j \in DOMAIN keys : keys[j].key = c[3] /\ Warrants(keys[j], c[1], c[2])
          <6> HIDE DEF change
          <6> QED
            BY <5>2, <5>3, <5>4
        <5> HIDE DEF change
        <5> QED
          BY <2>2, <3>3, <5>5
      <4> QED
        BY <4>1, <4>2
    <3>4. \/ \E status : Reply(n, status, changed)
          \/ /\ p.refused = 0 /\ Permitted(p, r, t) /\ Finds(p, r, t, row)
             /\ r.changes # Nothing /\ Reply(n, 200, changed \cup {change})
      BY <2>3 DEF Refuse, Forbid, Miss, Serve
    <3> QED
      BY <3>2, <3>3, <3>4
  <2> QED
    BY <2>1, <2>3 DEF ApiNext
<1>3. ApiInv => ChangesAreWarranted
  BY DEF ApiInv
<1> QED
  BY <1>1, <1>2, <1>3, PTL DEF ApiSpec
=============================================================================

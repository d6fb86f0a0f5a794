-------------------------- MODULE TaskQueueProofs --------------------------
(***************************************************************************)
(* Theorems about TaskQueue, for any number of workers, any finite set of  *)
(* tasks and any retry limit.                                              *)
(***************************************************************************)
EXTENDS TaskQueue, FiniteSetTheorems, TLAPS

-----------------------------------------------------------------------------
(* Sequences without repetitions, as the queue is one.                     *)

LEMMA TailFacts ==
    ASSUME NEW q \in Seq(Tasks), q # <<>>
    PROVE  /\ Head(q) = q[1] /\ Head(q) \in Tasks
           /\ Len(q) \in Nat /\ 1 \in 1..Len(q)
           /\ Tail(q) \in Seq(Tasks) /\ Len(Tail(q)) = Len(q) - 1
           /\ \A k \in 1..Len(Tail(q)) :
                Tail(q)[k] = q[k + 1] /\ k + 1 \in 1..Len(q) /\ k + 1 # 1
           /\ \A k \in 1..Len(q) : k # 1 =>
                k - 1 \in 1..Len(Tail(q)) /\ Tail(q)[k - 1] = q[k]
OBVIOUS

LEMMA AppendFacts ==
    ASSUME NEW q \in Seq(Tasks), NEW t \in Tasks
    PROVE  /\ Append(q, t) \in Seq(Tasks) /\ Len(q) \in Nat
           /\ Len(Append(q, t)) = Len(q) + 1
           /\ Append(q, t)[Len(q) + 1] = t
           /\ \A k \in 1..Len(q) : Append(q, t)[k] = q[k]
OBVIOUS

-----------------------------------------------------------------------------
(* Types.                                                                  *)

LEMMA TypeInit == Init => TypeOK
<1> SUFFICES ASSUME Init PROVE TypeOK
  OBVIOUS
<1>1. <<>> \in Seq(Tasks) /\ 0 \in 0..MaxRetries
  BY TaskQueueAssumption
<1>2. [s \in {"submitted", "completed", "failed"} |-> 0]
        \in [{"submitted", "completed", "failed"} -> Nat]
  OBVIOUS
<1>3. \A w \in Workers : pc[w] \notin {"claim", "run"}
  BY DEF Init
<1> QED
  BY <1>1, <1>2, <1>3 DEF Init, TypeOK, TaskStatus, WorkerSteps

LEMMA TypeStep == TypeOK /\ [Next]_vars => TypeOK'
<1> SUFFICES ASSUME TypeOK, [Next]_vars PROVE TypeOK'
  OBVIOUS
<1> USE TaskQueueAssumption DEF TypeOK
<1>1. ASSUME NEW t \in Tasks, NEW n \in Names, Submit(t, n) PROVE TypeOK'
  <2>1. stats' \in [{"submitted", "completed", "failed"} -> Nat]
    <3>1. stats["submitted"] + 1 \in Nat
      OBVIOUS
    <3> QED
      BY <1>1, <3>1 DEF Submit
  <2>2. queue' \in Seq(Tasks)
    BY <1>1, AppendFacts DEF Submit
  <2>3. tasks' \subseteq Tasks /\ name' \in [Tasks -> Names \cup {NoTask}]
    BY <1>1 DEF Submit
  <2>4. status' \in [Tasks -> TaskStatus] /\ retries' \in [Tasks -> 0..MaxRetries]
    BY <1>1 DEF Submit, TaskStatus
  <2> QED
    BY <1>1, <2>1, <2>2, <2>3, <2>4 DEF Submit
<1>2. ASSUME NEW w \in Workers, LoopTest(w) PROVE TypeOK'
  BY <1>2 DEF LoopTest, WorkerSteps
<1>3. ASSUME NEW w \in Workers, PopTask(w) PROVE TypeOK'
  <2>1. /\ queue' \in Seq(Tasks)
        /\ hand' \in [Workers -> Tasks \cup {NoTask}]
        /\ Head(queue) \in Tasks
    BY <1>3, TailFacts DEF PopTask
  <2>2. pc' \in [Workers -> WorkerSteps]
    BY <1>3 DEF PopTask, WorkerSteps
  <2> QED
    BY <1>3, <2>1, <2>2 DEF PopTask
<1>4. ASSUME NEW w \in Workers, PopNothing(w) PROVE TypeOK'
  BY <1>4 DEF PopNothing, WorkerSteps
<1>5. ASSUME NEW w \in Workers, Claim(w) PROVE TypeOK'
  <2>1. /\ hand[w] \in Tasks
        /\ \/ status' = status
           \/ status' = [status EXCEPT ![hand[w]] = "running"]
        /\ \/ runs' = runs
           \/ runs' = [runs EXCEPT ![hand[w]] = @ + 1]
        /\ \/ pc' = [pc EXCEPT ![w] = "loop"]
           \/ pc' = [pc EXCEPT ![w] = "run"]
    BY <1>5 DEF Claim, Release
  <2>2. /\ status' \in [Tasks -> TaskStatus]
        /\ runs' \in [Tasks -> Nat]
        /\ pc' \in [Workers -> WorkerSteps]
    <3>1. status' \in [Tasks -> TaskStatus]
      BY <2>1 DEF TaskStatus
    <3>2. runs' \in [Tasks -> Nat]
      <4>1. runs[hand[w]] + 1 \in Nat
        BY <2>1
      <4> QED
        BY ZenonT(60), <2>1, <4>1
    <3>3. pc' \in [Workers -> WorkerSteps]
      BY <2>1 DEF WorkerSteps
    <3> QED
      BY <3>1, <3>2, <3>3
  <2>3. hand' \in [Workers -> Tasks \cup {NoTask}]
    BY <1>5 DEF Claim, Release
  <2>4. \A v \in Workers : pc'[v] \in {"claim", "run"} => hand'[v] \in Tasks
    BY <1>5 DEF Claim, Release
  <2> QED
    BY <1>5, <2>2, <2>3, <2>4 DEF Claim
<1>6. ASSUME NEW w \in Workers, NEW s \in Settled, pc[w] = "run", Settle(w, s)
      PROVE  TypeOK'
  BY <1>6 DEF Settle, Release, Settled, WorkerSteps, TaskStatus
<1>7. ASSUME NEW w \in Workers,
             Missing(w) \/ Returns(w) \/ RaisesForGood(w)
      PROVE  TypeOK'
  BY <1>6, <1>7 DEF Missing, Returns, RaisesForGood, Settled
<1>8. ASSUME NEW w \in Workers, RaisesAndRetries(w) PROVE TypeOK'
  BY <1>8, AppendFacts DEF RaisesAndRetries, Release, WorkerSteps, TaskStatus
<1>9. CASE Shutdown
  BY <1>9 DEF Shutdown
<1>10. CASE UNCHANGED vars
  BY <1>10 DEF vars
<1> QED
  BY <1>1, <1>2, <1>3, <1>4, <1>5, <1>7, <1>8, <1>9, <1>10 DEF Next, Work

(* Every variable keeps its type; retries never exceed max_retries.        *)
THEOREM TypeCorrect == Spec => []TypeOK
BY TypeInit, TypeStep, PTL DEF Spec

-----------------------------------------------------------------------------
(* The workers share out the tasks.                                        *)

LEMMA PlaceInit == Init => EachTaskInOnePlace
BY DEF Init, EachTaskInOnePlace, QueuedOnce, QueuedIsPending, HeldByOne, NoneLost

LEMMA PlaceStep ==
    TypeOK /\ EachTaskInOnePlace /\ [Next]_vars => EachTaskInOnePlace'
<1> SUFFICES ASSUME TypeOK, EachTaskInOnePlace, [Next]_vars
             PROVE  EachTaskInOnePlace'
  OBVIOUS
<1>0. /\ QueuedOnce /\ QueuedIsPending /\ HeldByOne /\ NoneLost
      /\ tasks \subseteq Tasks
  BY DEF EachTaskInOnePlace, TypeOK
<1> USE <1>0
<1>1. ASSUME NEW t \in Tasks, NEW n \in Names, Submit(t, n)
      PROVE  EachTaskInOnePlace'
  <2>1. /\ Len(queue) \in Nat /\ Len(queue') = Len(queue) + 1
        /\ queue'[Len(queue) + 1] = t
        /\ \A k \in 1..Len(queue) : queue'[k] = queue[k]
    BY <1>1, AppendFacts DEF Submit, TypeOK
  <2>2. /\ t \notin tasks /\ tasks' = tasks \cup {t}
        /\ status'[t] = "pending"
        /\ \A u \in tasks : status'[u] = status[u]
        /\ UNCHANGED <<pc, hand>>
    BY <1>1 DEF Submit, TypeOK
  <2>3. QueuedOnce'
    BY <2>1, <2>2 DEF QueuedOnce, QueuedIsPending
  <2>4. QueuedIsPending'
    BY <2>1, <2>2 DEF QueuedIsPending, HeldByOne, Holds
  <2>5. HeldByOne'
    BY <2>2 DEF HeldByOne, Holds
  <2>6. NoneLost'
    BY <2>1, <2>2 DEF NoneLost, Queued, Holds
  <2> QED
    BY <2>3, <2>4, <2>5, <2>6 DEF EachTaskInOnePlace
<1>2. ASSUME NEW w \in Workers, LoopTest(w) \/ PopNothing(w)
      PROVE  EachTaskInOnePlace'
  <2>1. \A v \in Workers, t \in Tasks : Holds(v, t)' <=> Holds(v, t)
    BY <1>2 DEF LoopTest, PopNothing, Holds, TypeOK
  <2>2. UNCHANGED <<queue, tasks, status, hand>>
    BY <1>2 DEF LoopTest, PopNothing, TypeOK
  <2>3. \A v \in Workers : pc'[v] \in {"claim", "run"} => pc'[v] = pc[v]
    BY <1>2 DEF LoopTest, PopNothing, TypeOK
  <2>4. QueuedOnce' /\ QueuedIsPending'
    BY <2>1, <2>2 DEF QueuedOnce, QueuedIsPending
  <2>5. HeldByOne'
    BY <2>1, <2>2, <2>3 DEF HeldByOne
  <2>6. NoneLost'
    BY <2>1, <2>2 DEF NoneLost, Queued
  <2> QED
    BY <2>4, <2>5, <2>6 DEF EachTaskInOnePlace
<1>3. ASSUME NEW w \in Workers, PopTask(w) PROVE EachTaskInOnePlace'
  <2> PICK t \in Tasks : t = queue[1]
    BY <1>3, TailFacts DEF PopTask, TypeOK
  <2>1. /\ Len(queue) \in Nat /\ 1 \in 1..Len(queue)
        /\ \A k \in 1..Len(queue') :
              queue'[k] = queue[k + 1] /\ k + 1 \in 1..Len(queue) /\ k + 1 # 1
        /\ \A k \in 1..Len(queue) : k # 1 =>
              k - 1 \in 1..Len(queue') /\ queue'[k - 1] = queue[k]
    BY <1>3, TailFacts DEF PopTask, TypeOK
  <2>2. /\ pc[w] = "pop" /\ pc'[w] = "claim" /\ hand'[w] = t
        /\ \A v \in Workers : v # w => pc'[v] = pc[v] /\ hand'[v] = hand[v]
        /\ UNCHANGED <<tasks, status>>
    BY <1>3, TailFacts DEF PopTask, TypeOK
  <2>3. \A v \in Workers, u \in Tasks : Holds(v, u)' <=> Holds(v, u) \/ (v = w /\ u = t)
    BY <2>2 DEF Holds
  <2>4. \A v \in Workers : ~Holds(v, t)
    BY <2>1 DEF QueuedIsPending
  <2>5. QueuedOnce'
    <3> SUFFICES ASSUME NEW j \in 1..Len(queue'), NEW k \in 1..Len(queue'),
                        queue'[j] = queue'[k]
                 PROVE  j = k
      BY DEF QueuedOnce
    <3>1. queue[j + 1] = queue[k + 1]
      BY <2>1
    <3>2. j + 1 = k + 1
      BY <2>1, <3>1 DEF QueuedOnce
    <3> QED
      BY <3>2
  <2>6. QueuedIsPending'
    BY <2>1, <2>2, <2>3 DEF QueuedIsPending, QueuedOnce
  <2>7. HeldByOne'
    BY <2>1, <2>2, <2>3, <2>4 DEF HeldByOne, QueuedIsPending, Holds
  <2>8. NoneLost'
    <3> SUFFICES ASSUME NEW u \in tasks, status[u] \notin Settled, u # t
                 PROVE  Queued(u)' \/ \E v \in Workers : Holds(v, u)'
      BY <2>2, <2>3 DEF NoneLost
    <3>1. CASE Queued(u)
      <4>1. PICK k \in 1..Len(queue) : queue[k] = u
        BY <3>1 DEF Queued
      <4>2. k # 1 /\ k - 1 \in 1..Len(queue') /\ queue'[k - 1] = u
        BY <2>1, <4>1
      <4> QED
        BY <4>2 DEF Queued
    <3>2. CASE \E v \in Workers : Holds(v, u)
      BY <2>3, <3>2
    <3> QED
      BY <3>1, <3>2 DEF NoneLost
  <2> QED
    BY <2>5, <2>6, <2>7, <2>8 DEF EachTaskInOnePlace
<1>4. ASSUME NEW w \in Workers, Claim(w) PROVE EachTaskInOnePlace'
  <2> PICK t \in Tasks : t = hand[w]
    BY <1>4 DEF TypeOK, Claim
  <2>1. t \in tasks /\ status[t] = "pending" /\ pc[w] = "claim"
    BY <1>4 DEF Claim, HeldByOne, TypeOK
  <2>2. /\ pc'[w] = "run" /\ status'[t] = "running"
        /\ \A v \in Workers : v # w => pc'[v] = pc[v]
        /\ \A u \in tasks : u # t => status'[u] = status[u]
        /\ UNCHANGED <<hand, queue, tasks>>
    BY <1>4, <2>1 DEF Claim, TypeOK
  <2>3. \A v \in Workers, u \in Tasks : Holds(v, u)' <=> Holds(v, u)
    BY <2>1, <2>2 DEF Holds
  <2>4. Holds(w, t)
    BY <2>1 DEF Holds
  <2>5. QueuedOnce' /\ QueuedIsPending'
    BY <2>2, <2>3, <2>4 DEF QueuedOnce, QueuedIsPending
  <2>6. HeldByOne'
    BY <2>1, <2>2, <2>3, <2>4 DEF HeldByOne, Holds
  <2>7. NoneLost'
    BY <2>2, <2>3, <2>4 DEF NoneLost, Queued, Settled
  <2> QED
    BY <2>5, <2>6, <2>7 DEF EachTaskInOnePlace
<1>5. ASSUME NEW w \in Workers, NEW s \in Settled, pc[w] = "run", Settle(w, s)
      PROVE  EachTaskInOnePlace'
  <2> PICK t \in Tasks : t = hand[w]
    BY <1>5 DEF TypeOK, Settle
  <2>1. t \in tasks /\ Holds(w, t)
    BY <1>5 DEF HeldByOne, Holds
  <2>2. /\ pc'[w] = "loop" /\ status'[t] = s
        /\ \A v \in Workers : v # w => pc'[v] = pc[v] /\ hand'[v] = hand[v]
        /\ \A u \in tasks : u # t => status'[u] = status[u]
        /\ UNCHANGED <<queue, tasks>>
    BY <1>5, <2>1 DEF Settle, Release, TypeOK
  <2>3. \A v \in Workers, u \in Tasks : Holds(v, u)' <=> Holds(v, u) /\ v # w
    BY <2>2 DEF Holds
  <2>4. QueuedOnce' /\ QueuedIsPending'
    BY <2>1, <2>2, <2>3 DEF QueuedOnce, QueuedIsPending
  <2>5. HeldByOne'
    BY <2>1, <2>2, <2>3 DEF HeldByOne, Holds
  <2>6. NoneLost'
    BY <1>5, <2>1, <2>2, <2>3 DEF NoneLost, Queued, Holds
  <2> QED
    BY <2>4, <2>5, <2>6 DEF EachTaskInOnePlace
<1>6. ASSUME NEW w \in Workers,
             Missing(w) \/ Returns(w) \/ RaisesForGood(w)
      PROVE  EachTaskInOnePlace'
  BY <1>5, <1>6 DEF Missing, Returns, RaisesForGood, Settled
<1>7. ASSUME NEW w \in Workers, RaisesAndRetries(w) PROVE EachTaskInOnePlace'
  <2> PICK t \in Tasks : t = hand[w]
    BY <1>7 DEF TypeOK, RaisesAndRetries
  <2>1. t \in tasks /\ Holds(w, t) /\ t \in Tasks
    BY <1>7 DEF RaisesAndRetries, HeldByOne, Holds
  <2>2. /\ Len(queue) \in Nat /\ Len(queue') = Len(queue) + 1
        /\ queue'[Len(queue) + 1] = t
        /\ \A k \in 1..Len(queue) : queue'[k] = queue[k]
    BY <1>7, <2>1, AppendFacts DEF RaisesAndRetries, TypeOK
  <2>3. /\ pc'[w] = "loop" /\ status'[t] = "pending"
        /\ \A v \in Workers : v # w => pc'[v] = pc[v] /\ hand'[v] = hand[v]
        /\ \A u \in tasks : u # t => status'[u] = status[u]
        /\ UNCHANGED tasks
    BY <1>7, <2>1 DEF RaisesAndRetries, Release, TypeOK
  <2>4. \A v \in Workers, u \in Tasks : Holds(v, u)' <=> Holds(v, u) /\ v # w
    BY <2>3 DEF Holds
  <2>5. \A v \in Workers : Holds(v, t) => v = w
    BY <2>1 DEF HeldByOne, Holds
  <2>6. QueuedOnce'
    BY <2>1, <2>2 DEF QueuedOnce, QueuedIsPending
  <2>7. QueuedIsPending'
    BY <2>1, <2>2, <2>3, <2>4, <2>5 DEF QueuedIsPending
  <2>8. HeldByOne'
    BY <2>1, <2>3, <2>4, <2>5 DEF HeldByOne, Holds
  <2>9. NoneLost'
    <3>1. Queued(t)'
      BY <2>2 DEF Queued
    <3>2. \A u \in Tasks : Queued(u) => Queued(u)'
      BY <2>2 DEF Queued
    <3>3. \A u \in Tasks, v \in Workers :
             u # t /\ Holds(v, u) => Holds(v, u)'
      BY <2>1, <2>4 DEF Holds
    <3> QED
      BY <2>3, <3>1, <3>2, <3>3 DEF NoneLost
  <2> QED
    BY <2>6, <2>7, <2>8, <2>9 DEF EachTaskInOnePlace
<1>8. CASE Shutdown \/ UNCHANGED vars
  BY <1>8 DEF Shutdown, vars, EachTaskInOnePlace, QueuedOnce, QueuedIsPending, HeldByOne, NoneLost,
              Queued, Holds
<1> QED
  BY <1>1, <1>2, <1>3, <1>4, <1>6, <1>7, <1>8 DEF Next, Work

(* No task is lost, queued twice or held by two workers, between any two   *)
(* critical sections of any number of workers.                             *)
THEOREM TasksAreShared == Spec => []EachTaskInOnePlace
BY TypeInit, TypeStep, PlaceInit, PlaceStep, PTL DEF Spec

-----------------------------------------------------------------------------
(* What a step does to the tasks that were submitted before it.            *)

LEMMA StepOnOldTask ==
    ASSUME TypeOK, EachTaskInOnePlace, [Next]_vars, NEW t \in tasks
    PROVE  /\ t \in tasks' /\ name'[t] = name[t]
           /\ \/ /\ status'[t] = status[t] /\ retries'[t] = retries[t]
                 /\ runs'[t] = runs[t]
              \/ /\ status[t] = "pending" /\ status'[t] = "running"
                 /\ retries'[t] = retries[t]
                 /\ runs'[t] = runs[t] + IF name[t] \in Registered THEN 1 ELSE 0
              \/ /\ status[t] = "running" /\ runs'[t] = runs[t]
                 /\ \/ /\ status'[t] = "completed" /\ name[t] \in Registered
                       /\ retries'[t] = retries[t]
                    \/ /\ status'[t] = "failed" /\ retries'[t] = retries[t]
                       /\ \/ name[t] \notin Registered
                          \/ retries[t] >= MaxRetries
                    \/ /\ status'[t] = "pending" /\ name[t] \in Registered
                       /\ retries'[t] = retries[t] + 1
<1> t \in Tasks
  BY DEF TypeOK
<1>1. ASSUME NEW u \in Tasks, NEW n \in Names, Submit(u, n)
      PROVE  /\ t \in tasks' /\ name'[t] = name[t] /\ status'[t] = status[t]
             /\ retries'[t] = retries[t] /\ runs'[t] = runs[t]
  BY <1>1 DEF Submit, TypeOK
<1>2. ASSUME NEW w \in Workers, pc[w] \in {"claim", "run"}
      PROVE  /\ hand[w] \in tasks /\ hand[w] \in Tasks
             /\ status[hand[w]] = IF pc[w] = "claim" THEN "pending" ELSE "running"
  BY <1>2 DEF EachTaskInOnePlace, HeldByOne, TypeOK
<1>3. ASSUME NEW w \in Workers, Claim(w)
      PROVE  /\ UNCHANGED <<tasks, name, retries>>
             /\ IF t = hand[w]
                THEN /\ status[t] = "pending" /\ status'[t] = "running"
                     /\ runs'[t] = runs[t]
                                   + IF name[t] \in Registered THEN 1 ELSE 0
                ELSE status'[t] = status[t] /\ runs'[t] = runs[t]
  <2>1. pc[w] = "claim" /\ hand[w] \in tasks /\ status[hand[w]] = "pending"
    BY <1>2, <1>3 DEF Claim
  <2>2. /\ status' = [status EXCEPT ![hand[w]] = "running"]
        /\ runs' = IF name[hand[w]] \in Registered
                   THEN [runs EXCEPT ![hand[w]] = @ + 1] ELSE runs
        /\ UNCHANGED <<tasks, name, retries>>
    BY <1>3, <2>1 DEF Claim
  <2>3. runs[t] \in Nat
    BY DEF TypeOK
  <2> QED
    BY <2>1, <2>2, <2>3 DEF TypeOK
<1>4. ASSUME NEW w \in Workers, NEW s \in Settled, pc[w] = "run", Settle(w, s)
      PROVE  /\ UNCHANGED <<tasks, name, retries, runs>>
             /\ IF t = hand[w] THEN status[t] = "running" /\ status'[t] = s
                ELSE status'[t] = status[t]
  BY <1>2, <1>4 DEF Settle, TypeOK
<1>5. ASSUME NEW w \in Workers,
             Missing(w) \/ Returns(w) \/ RaisesForGood(w)
      PROVE  /\ UNCHANGED <<tasks, name, retries, runs>>
             /\ IF t # hand[w] THEN status'[t] = status[t]
                ELSE /\ status[t] = "running"
                     /\ \/ status'[t] = "completed" /\ name[t] \in Registered
                        \/ /\ status'[t] = "failed"
                           /\ \/ name[t] \notin Registered
                              \/ retries[t] >= MaxRetries
  BY <1>4, <1>5 DEF Missing, Returns, RaisesForGood, Settled
<1>6. ASSUME NEW w \in Workers, RaisesAndRetries(w)
      PROVE  /\ UNCHANGED <<tasks, name, runs>>
             /\ IF t = hand[w]
                THEN /\ status[t] = "running" /\ status'[t] = "pending"
                     /\ name[t] \in Registered
                     /\ retries'[t] = retries[t] + 1
                ELSE status'[t] = status[t] /\ retries'[t] = retries[t]
  BY <1>2, <1>6 DEF RaisesAndRetries, TypeOK
<1>7. ASSUME \/ \E w \in Workers : LoopTest(w) \/ PopTask(w) \/ PopNothing(w)
             \/ Shutdown \/ UNCHANGED vars
      PROVE  UNCHANGED <<tasks, name, status, retries, runs>>
  BY <1>7 DEF LoopTest, PopTask, PopNothing, Shutdown, vars
<1> QED
  BY <1>1, <1>3, <1>5, <1>6, <1>7 DEF Next, Work

(* A settled task is never run, retried or settled again.                  *)
THEOREM SettledTasksStay == Spec => SettledForGood
<1>1. TypeOK /\ EachTaskInOnePlace /\ [Next]_vars =>
        [\A t \in tasks : status[t] \in Settled =>
            status'[t] = status[t] /\ retries'[t] = retries[t]]_vars
  BY StepOnOldTask DEF Settled
<1> QED
  BY <1>1, TypeCorrect, TasksAreShared, PTL DEF Spec, SettledForGood

-----------------------------------------------------------------------------
(* How often a function is called.                                         *)

(* The function of a task that was never submitted was never called.       *)
FreshUncalled == \A t \in Tasks \ tasks : runs[t] = 0

LEMMA CallsStep ==
    /\ TypeOK /\ EachTaskInOnePlace /\ FreshUncalled /\ CallsAreCounted
    /\ [Next]_vars
    => FreshUncalled' /\ CallsAreCounted'
<1> SUFFICES ASSUME TypeOK, EachTaskInOnePlace, FreshUncalled, CallsAreCounted,
                    [Next]_vars
             PROVE  FreshUncalled' /\ CallsAreCounted'
  OBVIOUS
<1>1. ASSUME NEW t \in Tasks, t \notin tasks'
      PROVE  t \notin tasks /\ runs'[t] = runs[t]
  <2>1. ASSUME NEW w \in Workers, Claim(w) PROVE t \notin tasks /\ runs'[t] = runs[t]
    <3>1. tasks' = tasks /\ hand[w] \in tasks
      BY <2>1 DEF Claim, EachTaskInOnePlace, HeldByOne
    <3> QED
      BY <1>1, <2>1, <3>1 DEF Claim, TypeOK
  <2> QED
    BY <1>1, <2>1 DEF Next, Work, Submit, LoopTest, PopTask, PopNothing, Missing,
       Returns, RaisesAndRetries, RaisesForGood, Settle, Shutdown, vars
<1>2. FreshUncalled'
  BY <1>1 DEF FreshUncalled
<1>3. ASSUME NEW t \in tasks', t \notin tasks
      PROVE  runs'[t] = 0 /\ status'[t] = "pending" /\ retries'[t] = 0
  BY <1>3 DEF Next, Work, Submit, LoopTest, PopTask, PopNothing, Claim, Missing,
     Returns, RaisesAndRetries, RaisesForGood, Settle, Shutdown, vars, TypeOK,
     FreshUncalled
<1>4. ASSUME NEW t \in tasks
      PROVE  /\ runs[t] \in Nat /\ retries[t] \in 0..MaxRetries
             /\ status[t] \in TaskStatus /\ MaxRetries \in Nat
  BY TaskQueueAssumption DEF TypeOK
<1>5. CallsAreCounted'
  BY <1>3, <1>4, StepOnOldTask DEF CallsAreCounted, TaskStatus
<1> QED
  BY <1>2, <1>5

(* A task's function is called at most MaxRetries + 1 times, and a task    *)
(* that failed had all of them, or has no function.                        *)
THEOREM CallsCounted == Spec => []CallsAreCounted
<1>1. Init => FreshUncalled /\ CallsAreCounted
  BY DEF Init, FreshUncalled, CallsAreCounted
<1> QED
  BY <1>1, CallsStep, TypeCorrect, TasksAreShared, PTL DEF Spec

-----------------------------------------------------------------------------
(* The counters.                                                           *)

LEMMA TasksAreFinite ==
    ASSUME TypeOK
    PROVE  /\ IsFiniteSet(tasks)
           /\ \A s : IsFiniteSet(WithStatus(s))
<1>1. IsFiniteSet(tasks)
  BY TaskQueueAssumption, FS_Subset DEF TypeOK
<1>2. \A s : WithStatus(s) \subseteq tasks
  BY DEF WithStatus
<1> QED
  BY <1>1, <1>2, FS_Subset

LEMMA StatsInit == Init => StatsAddUp
<1> SUFFICES ASSUME Init PROVE StatsAddUp
  OBVIOUS
<1>1. tasks = {} /\ WithStatus("completed") = {} /\ WithStatus("failed") = {}
  BY DEF Init, WithStatus
<1>2. stats["submitted"] = 0 /\ stats["completed"] = 0 /\ stats["failed"] = 0
  BY DEF Init
<1> QED
  BY <1>1, <1>2, FS_EmptySet DEF StatsAddUp

LEMMA StatsStep ==
    TypeOK /\ EachTaskInOnePlace /\ StatsAddUp /\ [Next]_vars => StatsAddUp'
<1> SUFFICES ASSUME TypeOK, EachTaskInOnePlace, StatsAddUp, [Next]_vars
             PROVE  StatsAddUp'
  OBVIOUS
<1>1. ASSUME NEW t \in Tasks, NEW n \in Names, Submit(t, n) PROVE StatsAddUp'
  <2>1. /\ tasks' = tasks \cup {t} /\ t \notin tasks
        /\ stats'["submitted"] = stats["submitted"] + 1
        /\ stats'["completed"] = stats["completed"]
        /\ stats'["failed"] = stats["failed"]
    BY <1>1 DEF Submit, TypeOK
  <2>2. Cardinality(tasks') = Cardinality(tasks) + 1
    BY <2>1, TasksAreFinite, FS_AddElement
  <2>3. status'[t] = "pending" /\ \A u \in tasks : status'[u] = status[u]
    BY <1>1 DEF Submit, TypeOK
  <2>4. /\ WithStatus("completed")' = WithStatus("completed")
        /\ WithStatus("failed")' = WithStatus("failed")
    BY <2>1, <2>3 DEF WithStatus
  <2> QED
    BY <2>1, <2>2, <2>4 DEF StatsAddUp
<1>2. ASSUME NEW w \in Workers, NEW s \in Settled, pc[w] = "run", Settle(w, s)
      PROVE  StatsAddUp'
  <2>1. hand[w] \in tasks /\ status[hand[w]] = "running"
    BY <1>2 DEF EachTaskInOnePlace, HeldByOne
  <2>2. /\ tasks' = tasks /\ status'[hand[w]] = s
        /\ \A u \in tasks : u # hand[w] => status'[u] = status[u]
    BY <1>2, <2>1 DEF Settle, TypeOK
  <2>3. /\ stats'[s] = stats[s] + 1
        /\ \A c \in {"submitted", "completed", "failed"} :
              c # s => stats'[c] = stats[c]
    BY <1>2 DEF Settle, TypeOK, Settled
  <2>4. /\ WithStatus(s)' = WithStatus(s) \cup {hand[w]}
        /\ hand[w] \notin WithStatus(s)
        /\ \A c \in Settled : c # s => WithStatus(c)' = WithStatus(c)
    BY <2>1, <2>2 DEF WithStatus, Settled
  <2>5. Cardinality(WithStatus(s)') = Cardinality(WithStatus(s)) + 1
    BY <2>4, TasksAreFinite, FS_AddElement
  <2> QED
    BY <2>2, <2>3, <2>4, <2>5 DEF StatsAddUp, Settled
<1>3. ASSUME NEW w \in Workers,
             Missing(w) \/ Returns(w) \/ RaisesForGood(w)
      PROVE  StatsAddUp'
  BY <1>2, <1>3 DEF Missing, Returns, RaisesForGood, Settled
<1>4. ASSUME NEW w \in Workers, Claim(w) \/ RaisesAndRetries(w)
      PROVE  StatsAddUp'
  <2>1. /\ UNCHANGED <<tasks, stats>>
        /\ \A u \in tasks : \/ status'[u] = status[u]
                             \/ /\ status[u] \in {"pending", "running"}
                                /\ status'[u] \in {"pending", "running"}
    BY <1>4 DEF Claim, RaisesAndRetries, EachTaskInOnePlace, HeldByOne, TypeOK
  <2>2. /\ WithStatus("completed")' = WithStatus("completed")
        /\ WithStatus("failed")' = WithStatus("failed")
    BY <2>1 DEF WithStatus
  <2> QED
    BY <2>1, <2>2 DEF StatsAddUp
<1>5. ASSUME \/ \E w \in Workers : LoopTest(w) \/ PopTask(w) \/ PopNothing(w)
             \/ Shutdown \/ UNCHANGED vars
      PROVE  StatsAddUp'
  BY <1>5 DEF LoopTest, PopTask, PopNothing, Shutdown, vars, StatsAddUp,
              WithStatus
<1> QED
  BY <1>1, <1>3, <1>4, <1>5 DEF Next, Work

(* What get_stats answers never drifts from the tasks.                     *)
THEOREM StatsNeverDrift == Spec => []StatsAddUp
BY StatsInit, StatsStep, TypeCorrect, TasksAreShared, PTL DEF Spec

-----------------------------------------------------------------------------
(* The queue as its clients see it.                                        *)
Busy == {t \in Tasks : \E w \in Workers : Holds(w, t)}

Runnable == {t \in tasks : name[t] \in Registered}

OutcomeOf(t) == IF t \notin tasks THEN "new"
                ELSE IF status[t] \in Settled THEN status[t] ELSE "open"

Outcome == [t \in Tasks |-> OutcomeOf(t)]

LEMMA BusyWhenReleased ==
    ASSUME TypeOK, HeldByOne, NEW w \in Workers, pc[w] \in {"claim", "run"}, Release(w)
    PROVE  Busy' = Busy \ {hand[w]}
<1>1. \A v \in Workers \ {w} : pc'[v] = pc[v] /\ hand'[v] = hand[v]
  BY DEF Release, TypeOK
<1>2. pc'[w] = "loop"
  BY DEF Release, TypeOK
<1>3. \A v \in Workers : Holds(v, hand[w]) => v = w
  BY DEF HeldByOne
<1>4. ASSUME NEW t \in Tasks
      PROVE  t \in Busy' <=> t \in Busy \ {hand[w]}
  <2>1. t \in Busy' <=> \E v \in Workers : pc'[v] \in {"claim", "run"} /\ hand'[v] = t
    BY DEF Busy, Holds
  <2>2. t \in Busy <=> \E v \in Workers : Holds(v, t)
    BY DEF Busy
  <2>3. CASE t = hand[w]
    BY <1>1, <1>2, <1>3, <2>1, <2>3 DEF Holds
  <2>4. CASE t # hand[w]
    BY <1>1, <1>2, <2>1, <2>2, <2>4 DEF Holds
  <2> QED
    BY <2>3, <2>4
<1> QED
  BY <1>4 DEF Busy

LEMMA BusyUnmoved ==
    ASSUME \A v \in Workers : (pc'[v] \in {"claim", "run"} <=> pc[v] \in {"claim", "run"})
                              /\ (pc[v] \in {"claim", "run"} => hand'[v] = hand[v])
    PROVE  Busy' = Busy
BY DEF Busy, Holds

(* Only one outcome changes when only one status does.                     *)
LEMMA OutcomeOfOne ==
    ASSUME TypeOK, NEW u \in Tasks, NEW s,
           \A t \in Tasks \ {u} : (t \in tasks' <=> t \in tasks) /\ status'[t] = status[t],
           u \in tasks', s = IF status'[u] \in Settled THEN status'[u] ELSE "open"
    PROVE  Outcome' = [Outcome EXCEPT ![u] = s]
<1>1. \A t \in Tasks \ {u} : OutcomeOf(t)' = OutcomeOf(t)
  BY DEF OutcomeOf
<1>2. OutcomeOf(u)' = s
  BY DEF OutcomeOf
<1> QED
  BY <1>1, <1>2 DEF Outcome

LEMMA OutcomesUnmoved ==
    ASSUME TypeOK, UNCHANGED tasks,
           \A t \in tasks : status'[t] = status[t] \/ (status[t] \notin Settled /\ status'[t] \notin Settled)
    PROVE  Outcome' = Outcome
<1>1. \A t \in Tasks : OutcomeOf(t)' = OutcomeOf(t)
  BY DEF OutcomeOf
<1> QED
  BY <1>1 DEF Outcome

LEMMA StepIsWork ==
    TypeOK /\ EachTaskInOnePlace /\ [Next]_vars
        => [WorkDone!QNext]_(WorkDone!queueVars)
<1> SUFFICES ASSUME TypeOK, EachTaskInOnePlace, [Next]_vars
             PROVE  WorkDone!QNext \/ UNCHANGED WorkDone!queueVars
  OBVIOUS
<1> DEFINE seen == <<queue, Busy, Runnable, Outcome, retries>>
<1>v. WorkDone!queueVars = seen
  BY DEF WorkDone!queueVars, Busy, Runnable, Outcome, OutcomeOf
<1>0. /\ HeldByOne /\ QueuedIsPending /\ tasks \subseteq Tasks
      /\ \A w \in Workers : pc[w] \in {"claim", "run"} => hand[w] \in Tasks
      /\ \A w \in Workers : pc[w] = "run" =>
            hand[w] \in tasks /\ hand[w] \in Busy /\ status[hand[w]] = "running"
      /\ Outcome \in [Tasks -> {"new", "open", "completed", "failed"}]
  BY DEF EachTaskInOnePlace, TypeOK, HeldByOne, Busy, Holds, Outcome, OutcomeOf, Settled
<1>1. ASSUME NEW t \in Tasks, NEW n \in Names, Submit(t, n)
      PROVE  WorkDone!QNext
  <2>1. Busy' = Busy
    BY <1>1, BusyUnmoved DEF Submit
  <2>2. Outcome' = [Outcome EXCEPT ![t] = "open"]
    BY <1>1, OutcomeOfOne DEF Submit, TypeOK, Settled
  <2>3. Outcome[t] = "new"
    BY <1>1 DEF Submit, Outcome, OutcomeOf
  <2>4. Runnable' \in {Runnable, Runnable \cup {t}}
    BY <1>0, <1>1 DEF Submit, Runnable, TypeOK
  <2>5. WorkDone!Accept(t)
    BY <1>1, <2>1, <2>2, <2>3, <2>4
       DEF Submit, WorkDone!Accept, Busy, Runnable, Outcome, OutcomeOf
  <2> QED
    BY <2>5 DEF WorkDone!QNext
<1>2. ASSUME NEW w \in Workers, LoopTest(w) \/ PopNothing(w)
      PROVE  UNCHANGED seen
  <2>1. Busy' = Busy
    BY <1>2, BusyUnmoved DEF LoopTest, PopNothing, TypeOK
  <2>2. Outcome' = Outcome /\ Runnable' = Runnable
    BY <1>2, OutcomesUnmoved DEF LoopTest, PopNothing, Runnable
  <2> QED
    BY <1>2, <2>1, <2>2 DEF LoopTest, PopNothing
<1>3. ASSUME NEW w \in Workers, PopTask(w)
      PROVE  WorkDone!QNext
  <2>1. Head(queue) \in Tasks
    BY <1>3, TailFacts DEF PopTask, TypeOK
  <2>2. /\ \A v \in Workers \ {w} : pc'[v] = pc[v] /\ hand'[v] = hand[v]
        /\ pc[w] = "pop" /\ pc'[w] = "claim" /\ hand'[w] = Head(queue)
    BY <1>3 DEF PopTask, TypeOK
  <2>3. Busy' = Busy \cup {Head(queue)}
    BY <2>1, <2>2 DEF Busy, Holds
  <2>4. Outcome' = Outcome /\ Runnable' = Runnable
    BY <1>3, OutcomesUnmoved DEF PopTask, Runnable
  <2>5. WorkDone!Take
    BY <1>3, <2>3, <2>4
       DEF PopTask, WorkDone!Take, Busy, Runnable, Outcome, OutcomeOf
  <2> QED
    BY <2>5 DEF WorkDone!QNext
(* The claim is never refused.                                             *)
<1>4. ASSUME NEW w \in Workers, Claim(w)
      PROVE  UNCHANGED seen
  <2>1. hand[w] \in tasks /\ status[hand[w]] = "pending" /\ pc[w] = "claim"
    BY <1>0, <1>4 DEF Claim, HeldByOne
  <2>2. /\ status' = [status EXCEPT ![hand[w]] = "running"]
        /\ pc' = [pc EXCEPT ![w] = "run"] /\ hand' = hand
        /\ UNCHANGED <<tasks, name, retries, queue>>
    BY <1>4, <2>1 DEF Claim
  <2>3. Busy' = Busy
    BY <2>1, <2>2, BusyUnmoved DEF TypeOK
  <2>4. Outcome' = Outcome
    BY <1>0, <2>1, <2>2, OutcomesUnmoved DEF TypeOK, Settled
  <2> QED
    BY <2>2, <2>3, <2>4 DEF Runnable
<1>5. ASSUME NEW w \in Workers, NEW s \in Settled, pc[w] = "run", Settle(w, s)
      PROVE  WorkDone!Finish(hand[w], s)
  <2>1. Busy' = Busy \ {hand[w]}
    BY <1>0, <1>5, BusyWhenReleased DEF Settle
  <2>2. Outcome' = [Outcome EXCEPT ![hand[w]] = s]
    BY <1>0, <1>5, OutcomeOfOne DEF Settle, TypeOK
  <2>3. Runnable' = Runnable /\ UNCHANGED <<queue, retries>>
    BY <1>5 DEF Settle, Runnable
  <2> QED
    BY <2>1, <2>2, <2>3
       DEF WorkDone!Finish, Busy, Runnable, Outcome, OutcomeOf
<1>6. ASSUME NEW w \in Workers, Returns(w)
      PROVE  WorkDone!QNext
  <2>1. hand[w] \in Busy \cap Runnable /\ hand[w] \in Tasks
    BY <1>0, <1>6 DEF Returns, Runnable
  <2>2. WorkDone!Complete(hand[w])
    BY <1>5, <1>6, <2>1
       DEF Returns, Settled, WorkDone!Complete, Busy, Runnable
  <2> QED
    <3>1. \E t \in Tasks : WorkDone!Complete(t)
      BY <2>1, <2>2 DEF WorkDone!Complete, WorkDone!Finish
    <3> QED
      BY <3>1 DEF WorkDone!QNext
<1>7. ASSUME NEW w \in Workers, Missing(w) \/ RaisesForGood(w)
      PROVE  WorkDone!QNext
  <2>1. pc[w] = "run" /\ hand[w] \in Busy /\ hand[w] \in Tasks
    BY <1>0, <1>7 DEF Missing, RaisesForGood
  <2>2. hand[w] \in Runnable => retries[hand[w]] = MaxRetries
    BY <1>7, <2>1, TaskQueueAssumption DEF Missing, RaisesForGood, Runnable, TypeOK
  <2>3. WorkDone!Finish(hand[w], "failed")
    BY <1>5, <1>7, <2>1 DEF Missing, RaisesForGood, Settled
  <2>4. WorkDone!GiveUp(hand[w])
    BY <2>1, <2>2, <2>3 DEF WorkDone!GiveUp, Busy, Runnable
  <2> QED
    <3>1. \E t \in Tasks : WorkDone!GiveUp(t)
      BY <2>1, <2>4 DEF WorkDone!GiveUp, WorkDone!Finish
    <3> QED
      BY <3>1 DEF WorkDone!QNext
<1>8. ASSUME NEW w \in Workers, RaisesAndRetries(w)
      PROVE  WorkDone!QNext
  <2>1. /\ hand[w] \in Busy \cap Runnable /\ hand[w] \in Tasks
        /\ hand[w] \in tasks /\ status[hand[w]] = "running"
    BY <1>0, <1>8 DEF RaisesAndRetries, Runnable
  <2>2. Busy' = Busy \ {hand[w]}
    BY <1>0, <1>8, BusyWhenReleased DEF RaisesAndRetries
  <2>3. Outcome' = Outcome
    BY <1>0, <1>8, <2>1, OutcomesUnmoved DEF RaisesAndRetries, TypeOK, Settled
  <2>4. Runnable' = Runnable
    BY <1>8 DEF RaisesAndRetries, Runnable
  <2>5. WorkDone!SendBack(hand[w])
    BY <1>8, <2>1, <2>2, <2>3, <2>4
       DEF RaisesAndRetries, WorkDone!SendBack, Busy, Runnable, Outcome, OutcomeOf
  <2> QED
    BY <2>1, <2>5 DEF WorkDone!QNext
<1>9. ASSUME Shutdown \/ UNCHANGED vars
      PROVE  UNCHANGED seen
  <2>1. Busy' = Busy
    BY <1>9, BusyUnmoved DEF Shutdown, vars
  <2>2. Outcome' = Outcome
    BY <1>9, OutcomesUnmoved DEF Shutdown, vars
  <2> QED
    BY <1>9, <2>1, <2>2 DEF Shutdown, vars, Runnable
<1>10. UNCHANGED seen => UNCHANGED WorkDone!queueVars
  BY DEF WorkDone!queueVars, Busy, Runnable, Outcome, OutcomeOf
<1> HIDE DEF seen
<1> QED
  BY <1>1, <1>2, <1>3, <1>4, <1>6, <1>7, <1>8, <1>9, <1>10 DEF Next, Work

(* For any number of workers and tasks the task queue serves its clients   *)
(* as one that hands out whole tasks, oldest first, and settles each or    *)
(* puts it back, at most MaxRetries times.                                 *)
THEOREM QueueWorksAsOne == Spec => WorksAsQueue
<1>1. Init => WorkDone!QInit
  BY DEF Init, WorkDone!QInit, Holds
<1> QED
  BY <1>1, StepIsWork, TypeCorrect, TasksAreShared, PTL
     DEF Spec, WorksAsQueue, WorkDone!QSpec
=============================================================================

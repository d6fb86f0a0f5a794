----------------------------- MODULE TaskQueue -----------------------------
(***************************************************************************)
(* The in-memory task queue (tasks.py): worker threads that pop the ids of *)
(* submitted tasks, run them and put the failed ones back.                 *)
(*                                                                         *)
(* Everything shared is guarded by one lock, but a worker takes the lock   *)
(* three times for a task: to pop its id, to claim it, to record how it    *)
(* went.  One action is one such critical section; the shutdown flag is    *)
(* written and read without the lock.                                      *)
(***************************************************************************)
EXTENDS Integers, Sequences, FiniteSets

CONSTANTS Tasks,            \* task ids that may be submitted
          Names,            \* function names a client may submit
          Registered,       \* those of them with a registered function
          Workers,          \* worker threads (four in create_task_queue)
          MaxRetries        \* Task.max_retries (three)

ASSUME TaskQueueAssumption == /\ Registered \subseteq Names
                              /\ MaxRetries \in Nat
                              /\ IsFiniteSet(Tasks)

NoTask == "no task"         \* task_id = None

ASSUME NoTaskAssumption == NoTask \notin Tasks

VARIABLES tasks,            \* the ids _tasks holds
          name,             \* each submitted task's name
          status, retries,  \* each submitted task's status and retries
          queue,            \* _queue: the ids to run, oldest first
          stats,            \* _stats
          shutdown,         \* _shutdown
          pc, hand,         \* where each worker is, the id it popped
          runs              \* history: how often each function was called

vars == <<tasks, name, status, retries, queue, stats, shutdown, pc, hand, runs>>

TaskStatus == {"pending", "running", "completed", "failed"}

WorkerSteps == {"loop", "pop", "claim", "run", "exited"}

TypeOK == /\ tasks \subseteq Tasks
          /\ name \in [Tasks -> Names \cup {NoTask}]
          /\ status \in [Tasks -> TaskStatus]
          /\ retries \in [Tasks -> 0..MaxRetries]
          /\ queue \in Seq(Tasks)
          /\ stats \in [{"submitted", "completed", "failed"} -> Nat]
          /\ shutdown \in BOOLEAN
          /\ pc \in [Workers -> WorkerSteps]
          /\ hand \in [Workers -> Tasks \cup {NoTask}]
          /\ \A w \in Workers : pc[w] \in {"claim", "run"} => hand[w] \in Tasks
          /\ runs \in [Tasks -> Nat]

Init == /\ tasks = {}
        /\ name = [t \in Tasks |-> NoTask]
        /\ status = [t \in Tasks |-> "pending"]
        /\ retries = [t \in Tasks |-> 0]
        /\ queue = <<>>
        /\ stats = [s \in {"submitted", "completed", "failed"} |-> 0]
        /\ shutdown = FALSE
        /\ pc = [w \in Workers |-> "loop"]
        /\ hand = [w \in Workers |-> NoTask]
        /\ runs = [t \in Tasks |-> 0]

-----------------------------------------------------------------------------
(* submit: a fresh id, registered, queued and counted under the lock.      *)
Submit(t, n) ==
    /\ t \notin tasks
    /\ tasks' = tasks \cup {t}
    /\ name' = [name EXCEPT ![t] = n]
    /\ status' = [status EXCEPT ![t] = "pending"]
    /\ retries' = [retries EXCEPT ![t] = 0]
    /\ queue' = Append(queue, t)
    /\ stats' = [stats EXCEPT !.submitted = @ + 1]
    /\ UNCHANGED <<shutdown, pc, hand, runs>>

(* The head of the loop: the flag is read without the lock.                *)
LoopTest(w) ==
    /\ pc[w] = "loop"
    /\ pc' = [pc EXCEPT ![w] = IF shutdown THEN "exited" ELSE "pop"]
    /\ UNCHANGED <<tasks, name, status, retries, queue, stats, shutdown,
                   hand, runs>>

(* The first critical section; on an empty queue the worker sleeps and     *)
(* starts over.                                                            *)
PopLeavesId(w) ==                  \* mutant: the id stays in the queue
    /\ pc[w] = "pop"
    /\ queue # <<>>
    /\ hand' = [hand EXCEPT ![w] = Head(queue)]
    /\ pc' = [pc EXCEPT ![w] = "claim"]
    /\ UNCHANGED <<tasks, name, status, retries, queue, stats, shutdown, runs>>

PopsNewest(w) ==                   \* mutant: _queue.pop() for _queue.pop(0)
    /\ pc[w] = "pop"
    /\ queue # <<>>
    /\ hand' = [hand EXCEPT ![w] = queue[Len(queue)]]
    /\ queue' = SubSeq(queue, 1, Len(queue) - 1)
    /\ pc' = [pc EXCEPT ![w] = "claim"]
    /\ UNCHANGED <<tasks, name, status, retries, stats, shutdown, runs>>

PopTask(w) ==
    /\ pc[w] = "pop"
    /\ queue # <<>>
    /\ hand' = [hand EXCEPT ![w] = Head(queue)]
    /\ queue' = Tail(queue)
    /\ pc' = [pc EXCEPT ![w] = "claim"]
    /\ UNCHANGED <<tasks, name, status, retries, stats, shutdown, runs>>

PopNothing(w) ==
    /\ pc[w] = "pop"
    /\ queue = <<>>
    /\ pc' = [pc EXCEPT ![w] = "loop"]
    /\ UNCHANGED <<tasks, name, status, retries, queue, stats, shutdown,
                   hand, runs>>

(* A worker is done with the task it popped.                               *)
Release(w) == /\ pc' = [pc EXCEPT ![w] = "loop"]
              /\ hand' = [hand EXCEPT ![w] = NoTask]

(* The second critical section: only a pending task is claimed.  The call  *)
(* of a registered function follows at once.                               *)
Claim(w) ==
    LET t == hand[w] IN
    /\ pc[w] = "claim"
    /\ IF t \in tasks /\ status[t] = "pending"
       THEN /\ status' = [status EXCEPT ![t] = "running"]
            /\ pc' = [pc EXCEPT ![w] = "run"]
            /\ runs' = IF name[t] \in Registered
                       THEN [runs EXCEPT ![t] = @ + 1] ELSE runs
            /\ UNCHANGED hand
       ELSE Release(w) /\ UNCHANGED <<status, runs>>
    /\ UNCHANGED <<tasks, name, retries, queue, stats, shutdown>>

(* The third: the function is missing, has returned or has raised.         *)
Settle(w, s) ==
    /\ status' = [status EXCEPT ![hand[w]] = s]
    /\ stats' = [stats EXCEPT ![s] = @ + 1]
    /\ Release(w)
    /\ UNCHANGED <<tasks, name, retries, queue, shutdown, runs>>

MissingNotCounted(w) ==     \* mutant: a missing function is not counted
    /\ pc[w] = "run"
    /\ name[hand[w]] \notin Registered
    /\ status' = [status EXCEPT ![hand[w]] = "failed"]
    /\ Release(w)
    /\ UNCHANGED <<tasks, name, retries, queue, stats, shutdown, runs>>

Missing(w) ==
    /\ pc[w] = "run"
    /\ name[hand[w]] \notin Registered
    /\ Settle(w, "failed")

Returns(w) ==
    /\ pc[w] = "run"
    /\ name[hand[w]] \in Registered
    /\ Settle(w, "completed")

RetriesOnceTooOften(w) ==           \* mutant: retries <= max_retries
    LET t == hand[w] IN
    /\ pc[w] = "run"
    /\ name[t] \in Registered
    /\ retries[t] <= MaxRetries
    /\ retries' = [retries EXCEPT ![t] = @ + 1]
    /\ status' = [status EXCEPT ![t] = "pending"]
    /\ queue' = Append(queue, t)
    /\ Release(w)
    /\ UNCHANGED <<tasks, name, stats, shutdown, runs>>

RetriesUncounted(w) ==              \* mutant: task.retries is not increased
    LET t == hand[w] IN
    /\ pc[w] = "run"
    /\ name[t] \in Registered
    /\ retries[t] < MaxRetries
    /\ status' = [status EXCEPT ![t] = "pending"]
    /\ queue' = Append(queue, t)
    /\ Release(w)
    /\ UNCHANGED <<tasks, name, retries, stats, shutdown, runs>>

RetriesUnqueued(w) ==               \* mutant: a retry is not queued again
    LET t == hand[w] IN
    /\ pc[w] = "run"
    /\ name[t] \in Registered
    /\ retries[t] < MaxRetries
    /\ retries' = [retries EXCEPT ![t] = @ + 1]
    /\ status' = [status EXCEPT ![t] = "pending"]
    /\ Release(w)
    /\ UNCHANGED <<tasks, name, queue, stats, shutdown, runs>>

RaisesAndRetries(w) ==
    LET t == hand[w] IN
    /\ pc[w] = "run"
    /\ name[t] \in Registered
    /\ retries[t] < MaxRetries
    /\ retries' = [retries EXCEPT ![t] = @ + 1]
    /\ status' = [status EXCEPT ![t] = "pending"]
    /\ queue' = Append(queue, t)
    /\ Release(w)
    /\ UNCHANGED <<tasks, name, stats, shutdown, runs>>

RaisesForGood(w) ==
    /\ pc[w] = "run"
    /\ name[hand[w]] \in Registered
    /\ retries[hand[w]] >= MaxRetries
    /\ Settle(w, "failed")

(* shutdown sets the flag; joining the workers changes nothing.            *)
Shutdown == /\ ~shutdown
            /\ shutdown' = TRUE
            /\ UNCHANGED <<tasks, name, status, retries, queue, stats, pc,
                           hand, runs>>

-----------------------------------------------------------------------------
Work(w) == \/ LoopTest(w) \/ PopTask(w) \/ PopNothing(w) \/ Claim(w)
           \/ Missing(w) \/ Returns(w) \/ RaisesAndRetries(w)
           \/ RaisesForGood(w)

Next == \/ \E t \in Tasks, n \in Names : Submit(t, n)
        \/ \E w \in Workers : Work(w)
        \/ Shutdown

Spec == Init /\ [][Next]_vars

(* A worker thread keeps running, and the functions it calls return or     *)
(* raise: they bound their waits (urlopen has a timeout).  Nobody has to   *)
(* submit a task or shut the queue down.                                   *)
FairSpec == Spec /\ \A w \in Workers : WF_vars(Work(w))

-----------------------------------------------------------------------------
(* Properties.                                                             *)

Settled == {"completed", "failed"}

WithStatus(s) == {t \in tasks : status[t] = s}

(* A worker has popped t and is not done with it.                          *)
Holds(w, t) == pc[w] \in {"claim", "run"} /\ hand[w] = t

Queued(t) == \E k \in 1..Len(queue) : queue[k] = t

QueuedOnce == \A j, k \in 1..Len(queue) : queue[j] = queue[k] => j = k

QueuedIsPending ==
    \A k \in 1..Len(queue) :
        /\ queue[k] \in tasks
        /\ status[queue[k]] = "pending"
        /\ \A w \in Workers : ~Holds(w, queue[k])

HeldByOne ==
    \A w \in Workers : pc[w] \in {"claim", "run"} =>
        /\ hand[w] \in tasks
        /\ status[hand[w]] = IF pc[w] = "claim" THEN "pending" ELSE "running"
        /\ \A v \in Workers : Holds(v, hand[w]) => v = w

NoneLost ==
    \A t \in tasks : status[t] \notin Settled =>
        Queued(t) \/ \E w \in Workers : Holds(w, t)

(* A task that is not settled is in exactly one place, and its status says *)
(* in which: pending in the queue once, or in the hand of one worker that  *)
(* has yet to claim it; running in the hand of one worker.  So no task is  *)
(* lost between the three critical sections, none is queued twice and none *)
(* runs on two workers.                                                    *)
EachTaskInOnePlace == QueuedOnce /\ QueuedIsPending /\ HeldByOne /\ NoneLost

(* The counters never drift from the tasks: at any time get_stats answers  *)
(* submitted = completed + failed + pending + running.                     *)
StatsAddUp ==
    /\ stats["submitted"] = Cardinality(tasks)
    /\ stats["completed"] = Cardinality(WithStatus("completed"))
    /\ stats["failed"] = Cardinality(WithStatus("failed"))

(* A function is called once more than its task was retried while the task *)
(* runs or is settled, so never more than MaxRetries + 1 times, and a task *)
(* that failed was given up only after the last retry, or has no function. *)
CallsAreCounted ==
    \A t \in tasks :
        IF name[t] \in Registered
        THEN /\ runs[t] = retries[t] + IF status[t] = "pending" THEN 0 ELSE 1
             /\ status[t] = "failed" => runs[t] = MaxRetries + 1
        ELSE runs[t] = 0 /\ status[t] # "completed"

(* A settled task stays as it is, whatever a late worker does.             *)
SettledForGood ==
    [][\A t \in tasks : status[t] \in Settled =>
          status'[t] = status[t] /\ retries'[t] = retries[t]]_vars

(* A submitted task is settled in the end, unless the queue is shut down.  *)
EveryTaskSettles ==
    \A t \in Tasks : (t \in tasks) ~> (status[t] \in Settled \/ shutdown)

(* To a client the three critical sections of a worker are two: a task is  *)
(* taken, oldest first, and settled or queued again; no claim is refused,  *)
(* no task is dropped and none is in two hands.                            *)
WorkDone == INSTANCE WorkQueue
              WITH backlog <- queue,
                   busy <- {t \in Tasks : \E w \in Workers : Holds(w, t)},
                   runnable <- {t \in tasks : name[t] \in Registered},
                   outcome <- [t \in Tasks |-> IF t \notin tasks THEN "new"
                                 ELSE IF status[t] \in Settled THEN status[t]
                                 ELSE "open"]

WorksAsQueue == WorkDone!QSpec
=============================================================================

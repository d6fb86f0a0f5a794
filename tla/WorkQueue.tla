----------------------------- MODULE WorkQueue ------------------------------
(***************************************************************************)
(* What the task queue promises whoever submits to it: first come, first   *)
(* served; a task that has been taken is worked on until it is completed,  *)
(* given up or sent back to the end of the line; it is sent back at most   *)
(* MaxRetries times and given up only then, unless there is nothing to     *)
(* call.  Who works, and under which locks, is module TaskQueue's affair.  *)
(***************************************************************************)
EXTENDS Naturals, Sequences

CONSTANTS Tasks, MaxRetries

VARIABLES backlog,          \* the tasks that wait, oldest first
          busy,             \* the tasks somebody works on
          runnable,         \* the submitted tasks whose function is known
          outcome,          \* what is known of each task
          retries           \* how often each was sent back

queueVars == <<backlog, busy, runnable, outcome, retries>>

QInit == /\ backlog = <<>> /\ busy = {} /\ runnable = {}
         /\ outcome = [t \in Tasks |-> "new"]
         /\ retries = [t \in Tasks |-> 0]

Accept(t) == /\ outcome[t] = "new"
             /\ outcome' = [outcome EXCEPT ![t] = "open"]
             /\ runnable' \in {runnable, runnable \cup {t}}
             /\ backlog' = Append(backlog, t)
             /\ retries' = [retries EXCEPT ![t] = 0]
             /\ UNCHANGED busy

Take == /\ backlog # <<>>
        /\ busy' = busy \cup {Head(backlog)}
        /\ backlog' = Tail(backlog)
        /\ UNCHANGED <<runnable, outcome, retries>>

Finish(t, how) == /\ busy' = busy \ {t}
                  /\ outcome' = [outcome EXCEPT ![t] = how]
                  /\ UNCHANGED <<backlog, runnable, retries>>

Complete(t) == t \in busy \cap runnable /\ Finish(t, "completed")

GiveUp(t) == /\ t \in busy
             /\ t \in runnable => retries[t] = MaxRetries
             /\ Finish(t, "failed")

SendBack(t) == /\ t \in busy \cap runnable
               /\ retries[t] < MaxRetries
               /\ retries' = [retries EXCEPT ![t] = @ + 1]
               /\ busy' = busy \ {t}
               /\ backlog' = Append(backlog, t)
               /\ UNCHANGED <<runnable, outcome>>

QNext == \/ Take
         \/ \E t \in Tasks : Accept(t) \/ Complete(t) \/ GiveUp(t) \/ SendBack(t)

QSpec == QInit /\ [][QNext]_queueVars
=============================================================================

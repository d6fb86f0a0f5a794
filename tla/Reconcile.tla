------------------------------ MODULE Reconcile ------------------------------
(***************************************************************************)
(* How the recordings of one Pocket tenant are reconciled with the         *)
(* provider: the durable jobs and materializations of pocket.py, the       *)
(* worker function process_pocket_reconciliation and the manual endpoint   *)
(* of api.py.                                                              *)
(*                                                                         *)
(* A webhook only signals that a recording has changed; the content is     *)
(* fetched from the provider, by a worker of the task queue for a job or   *)
(* by a server thread for the manual endpoint.  A reconciliation is a      *)
(* sequence of store calls around the fetch, and any number of them may be *)
(* under way for one recording.  Jobs, observations and materializations   *)
(* are durable; the task queue and the requests are not.                   *)
(*                                                                         *)
(* The task queue is what module TaskQueue shows of it: a task is held by  *)
(* one worker at a time and is called again after an exception, MaxRetries *)
(* times.  Consent and contract checks appear as fetches that fail for     *)
(* good; service.ingest, modelled in Intake, as the lookup of the external *)
(* id and the insertion of the observation; any call may raise.            *)
(* Observations from before revisions were kept ("legacy" in               *)
(* advance_materialization) are left out.                                  *)
(***************************************************************************)
EXTENDS Integers, Sequences, FiniteSets

CONSTANTS Recordings,
          Workers,          \* worker threads of the task queue
          Clients,          \* server threads that serve the manual endpoint
          MaxAttempts,      \* pocket_reconciliation_jobs.max_attempts: 4
          MaxRetries,       \* TaskQueue's max_retries: 3
          RecoverLimit,     \* limit of recover_reconciliation_jobs: 100
          MaxRevision,      \* bound of the model: revisions of all recordings
          MaxCrashes,       \* bound of the model: crashes
          MaxFaults         \* bound of the model: crashes, jobs whose start or
                            \*   end could not be recorded and revisions cut,
                            \*   all together, up to which calls may raise
                            \*   that add to the latter two

ASSUME ReconcileAssumption ==
    /\ Workers \cap Clients = {} /\ IsFiniteSet(Recordings)
    /\ MaxAttempts \in Nat \ {0} /\ MaxRetries \in Nat
    /\ RecoverLimit \in Nat
    /\ MaxRevision \in Nat \ {0} /\ MaxCrashes \in Nat /\ MaxFaults \in Nat

VARIABLES revision,         \* the provider: revisions so far; 0: no text yet
          signals,          \* recordings with a webhook to be delivered
          jobs,             \* pocket_reconciliation_jobs, by created_at
          submitting,       \* a job the webhook created but has not submitted
          queue,            \* tasks of the task queue: <<job, retries>>
          ingested,         \* observations: <<recording, revision>>
          current,          \* pocket_materializations; 0: no row
          retired,          \* pocket_retired_materializations
          pc, work,         \* where each thread stands, and with what
          crashes,          \* crashes so far
          overtaken,        \* history: recordings that an overtaken
                            \*   reconciliation has advanced
          cut,              \* history: revisions of which a reconciliation
                            \*   ended between Store and Advance
          faulted           \* history: jobs of which a call that records
                            \*   their start or their end has raised since
                            \*   the program was started

vars == <<revision, signals, jobs, submitting, queue, ingested, current,
          retired, pc, work, crashes, overtaken, cut, faulted>>

Threads == Workers \cup Clients

Revisions == Recordings \X (1..MaxRevision)

Job == [recording : Recordings, attempts : Nat,
        status : {"pending", "running", "completed", "failed"}]

Active == {"pending", "running"}

(* What a thread works with: the job (0 for the manual endpoint) and the   *)
(* retries of its task; the revision it has fetched, the current one at    *)
(* that time, whether the observation existed; whether to try again.       *)
Work == [job : Nat, retries : 0..MaxRetries, recording : Recordings,
         revision : 0..MaxRevision, base : 0..MaxRevision, known : BOOLEAN,
         retriable : BOOLEAN, internal : BOOLEAN]

Started(j, n, r) ==
    [job |-> j, retries |-> n, recording |-> r, revision |-> 0, base |-> 0,
     known |-> FALSE, retriable |-> FALSE, internal |-> FALSE]

Steps == {"fetch", "lookup", "store", "advance", "complete", "fail", "raise"}

TypeOK ==
    /\ revision \in [Recordings -> 0..MaxRevision]
    /\ signals \subseteq Recordings
    /\ jobs \in Seq(Job)
    /\ submitting \in 0..Len(jobs)
    /\ queue \in Seq((1..Len(jobs)) \X (0..MaxRetries))
    /\ ingested \subseteq Revisions /\ retired \subseteq Revisions
    /\ current \in [Recordings -> 0..MaxRevision]
    /\ pc \in [Threads -> Steps \cup {"idle"}]
    /\ \A t \in Threads : pc[t] # "idle" =>
          work[t] \in Work /\ (work[t].job = 0 <=> t \in Clients)
    /\ crashes \in 0..MaxCrashes /\ overtaken \subseteq Recordings
    /\ cut \subseteq Revisions /\ faulted \subseteq DOMAIN jobs

NoWork == Started(0, 0, CHOOSE r \in Recordings : TRUE)

Init == /\ revision = [r \in Recordings |-> 0] /\ signals = {}
        /\ jobs = <<>> /\ submitting = 0 /\ queue = <<>>
        /\ ingested = {} /\ retired = {}
        /\ current = [r \in Recordings |-> 0]
        /\ pc = [t \in Threads |-> "idle"]
        /\ work = [t \in Threads |-> NoWork]
        /\ crashes = 0 /\ overtaken = {} /\ cut = {}
        /\ faulted = {}

plane == <<revision, signals, submitting, crashes, faulted>>
rows == <<ingested, current, retired, overtaken, cut>>

MoreFaults == crashes + Cardinality(faulted) + Cardinality(cut) < MaxFaults

-----------------------------------------------------------------------------
(* The provider changes a recording and sends a webhook; webhooks for a    *)
(* recording that are under way at the same time are one signal.           *)
Released == {x \in Revisions : x[2] <= revision[x[1]]}

Change(r) ==
    /\ Cardinality(Released) < MaxRevision
    /\ revision' = [revision EXCEPT ![r] = @ + 1]
    /\ signals' = signals \cup {r}
    /\ UNCHANGED <<jobs, submitting, queue, pc, work, crashes, faulted, rows>>

(* enqueue_reconciliation: one active job per recording.                   *)
ActiveJobs(r) == {j \in DOMAIN jobs : jobs[j].recording = r
                                      /\ jobs[j].status \in Active}

EnqueuePendingOnly(r) ==   \* mutant: only a pending job is looked for, and
                           \*   the unique index too covers only those
    /\ r \in signals /\ submitting = 0
    /\ signals' = signals \ {r}
    /\ IF \E j \in ActiveJobs(r) : jobs[j].status = "pending"
       THEN UNCHANGED <<jobs, submitting>>
       ELSE /\ jobs' = Append(jobs, [recording |-> r, status |-> "pending",
                                     attempts |-> 0])
            /\ submitting' = Len(jobs) + 1
    /\ UNCHANGED <<revision, queue, pc, work, crashes, faulted, rows>>

Enqueue(r) ==
    /\ r \in signals /\ submitting = 0
    /\ signals' = signals \ {r}
    /\ IF ActiveJobs(r) # {}
       THEN UNCHANGED <<jobs, submitting>>
       ELSE /\ jobs' = Append(jobs, [recording |-> r, status |-> "pending",
                                     attempts |-> 0])
            /\ submitting' = Len(jobs) + 1
    /\ UNCHANGED <<revision, queue, pc, work, crashes, faulted, rows>>

(* The webhook then submits the job it has created to the task queue.      *)
Submit ==
    /\ submitting # 0
    /\ queue' = Append(queue, <<submitting, 0>>)
    /\ submitting' = 0
    /\ UNCHANGED <<revision, signals, jobs, pc, work, crashes, faulted, rows>>

-----------------------------------------------------------------------------
(* A reconciliation by thread t.  What it no longer needs is forgotten.    *)
Goto(t, step) == pc' = [pc EXCEPT ![t] = step]

Leave(t) == /\ Goto(t, "idle")
            /\ work' = [work EXCEPT ![t] = NoWork]

Again(t) == Started(work[t].job, work[t].retries, work[t].recording)

(* The manual endpoint has nothing to record about a failure.              *)
GiveUp(t, retriable, internal) ==
    IF t \in Clients
    THEN Leave(t)
    ELSE /\ Goto(t, "fail")
         /\ work' = [work EXCEPT ![t] = [Again(t) EXCEPT
                         !.retriable = retriable, !.internal = internal]]

(* A worker takes a task and calls start_reconciliation, which refuses a   *)
(* job that is not pending: the task is done then.                         *)
Start(w) ==
    /\ pc[w] = "idle" /\ queue # <<>>
    /\ LET j == Head(queue)[1] IN
       /\ queue' = Tail(queue)
       /\ IF jobs[j].status # "pending"
          THEN UNCHANGED <<jobs, work, pc>>
          ELSE /\ jobs' = [jobs EXCEPT ![j] =
                              [jobs[j] EXCEPT !.status = "running",
                                              !.attempts = @ + 1]]
               /\ work' = [work EXCEPT
                             ![w] = Started(j, Head(queue)[2], jobs[j].recording)]
               /\ Goto(w, "fetch")
    /\ UNCHANGED <<plane, rows>>

(* What the provider answers of recording r, and what is current then.     *)
Holding(w, r) == [w EXCEPT !.revision = revision[r], !.base = current[r]]

Fetch(w) ==
    LET r == work[w].recording IN
    /\ pc[w] = "fetch" /\ revision[r] > 0
    /\ work' = [work EXCEPT ![w] = Holding(@, r)]
    /\ Goto(w, "lookup")
    /\ UNCHANGED <<jobs, queue, plane, rows>>

(* No text yet, 429, 5xx and unreachable are worth a retry; other errors,  *)
(* a missing key and rejected content are not, nor is any other exception, *)
(* which the function raises again.                                        *)
FetchFails(w, retriable, internal) ==
    /\ pc[w] = "fetch" /\ ~(retriable /\ internal)
    /\ GiveUp(w, retriable, internal)
    /\ UNCHANGED <<jobs, queue, plane, rows>>

(* Somebody calls POST /pocket/reconcile/{recording_id}: a call whose      *)
(* fetch fails leaves nothing behind.                                      *)
Request(c, r) ==
    /\ pc[c] = "idle" /\ revision[r] > 0
    /\ work' = [work EXCEPT ![c] = Holding(Started(0, 0, r), r)]
    /\ Goto(c, "lookup")
    /\ UNCHANGED <<jobs, queue, plane, rows>>

Fetched(t) == <<work[t].recording, work[t].revision>>

(* ingest: is there an observation of this revision already?               *)
Lookup(t) ==
    /\ pc[t] = "lookup"
    /\ work' = [work EXCEPT ![t].known = Fetched(t) \in ingested]
    /\ Goto(t, "store")
    /\ UNCHANGED <<jobs, queue, plane, rows>>

(* ingest: a second insertion of an external id raises.                    *)
Store(t) ==
    /\ pc[t] = "store"
    /\ IF ~work[t].known /\ Fetched(t) \in ingested
       THEN GiveUp(t, FALSE, TRUE) /\ UNCHANGED ingested
       ELSE /\ ingested' = ingested \cup {Fetched(t)}
            /\ Goto(t, "advance")
            /\ work' = [work EXCEPT ![t].known = FALSE]
    /\ UNCHANGED <<jobs, queue, plane, current, retired, overtaken, cut>>

(* advance_materialization retires the previous row, in a first statement, *)
(* and makes the new one current, under one lock.                          *)
Retires(t) == LET r == work[t].recording IN
              IF current[r] \in {0, work[t].revision} THEN {}
              ELSE {<<r, current[r]>>}

Overtakes(t, r) == IF work[t].base # current[r] THEN overtaken \cup {r}
                   ELSE overtaken

Advanced(t) == IF t \in Clients THEN Leave(t)
               ELSE /\ Goto(t, "complete")
                    /\ work' = [work EXCEPT ![t] = Again(t)]

AdvanceRetiresNew(t) ==      \* mutant: the new row is retired, not the old one
    LET r == work[t].recording IN
    /\ pc[t] = "advance"
    /\ current' = [current EXCEPT ![r] = work[t].revision]
    /\ retired' = retired \cup (IF Retires(t) = {} THEN {} ELSE {Fetched(t)})
    /\ overtaken' = Overtakes(t, r)
    /\ Advanced(t)
    /\ UNCHANGED <<jobs, queue, plane, ingested, cut>>

AdvanceUnretired(t) ==          \* mutant: the previous row is not retired
    LET r == work[t].recording IN
    /\ pc[t] = "advance"
    /\ current' = [current EXCEPT ![r] = work[t].revision]
    /\ overtaken' = Overtakes(t, r)
    /\ Advanced(t)
    /\ UNCHANGED <<jobs, queue, plane, ingested, retired, cut>>

Advance(t) ==
    LET r == work[t].recording IN
    /\ pc[t] = "advance"
    /\ current' = [current EXCEPT ![r] = work[t].revision]
    /\ retired' = retired \cup Retires(t)
    /\ overtaken' = Overtakes(t, r)
    /\ Advanced(t)
    /\ UNCHANGED <<jobs, queue, plane, ingested, cut>>

(* A call of ingest or advance_materialization raises: the job fails for   *)
(* good.  An observation that is stored by then stays without being made   *)
(* current; so may a retirement, which is a statement of its own.          *)
Undone(t) == IF pc[t] = "advance" THEN {Fetched(t)} ELSE {}

Half(t) == IF pc[t] = "advance" THEN Retires(t) ELSE {}

CallFails(t) ==
    /\ pc[t] \in {"lookup", "store", "advance"}
    /\ Undone(t) \subseteq cut \/ MoreFaults
    /\ cut' = cut \cup Undone(t)
    /\ retired' \in {retired, retired \cup Half(t)}
    /\ GiveUp(t, FALSE, TRUE)
    /\ UNCHANGED <<jobs, queue, plane, ingested, current, overtaken>>

Complete(w) ==
    /\ pc[w] = "complete"
    /\ jobs' = [jobs EXCEPT ![work[w].job].status = "completed"]
    /\ Leave(w)
    /\ UNCHANGED <<queue, plane, rows>>

(* fail_reconciliation; the function then raises if the job is to be       *)
(* retried, and after an exception of its own in any case.                 *)
Fails(w, retry) ==
    /\ pc[w] = "fail"
    /\ jobs' = [jobs EXCEPT ![work[w].job].status =
                   IF retry THEN "pending" ELSE "failed"]
    /\ IF retry \/ work[w].internal
       THEN Goto(w, "raise") /\ work' = [work EXCEPT ![w] = Again(w)]
       ELSE Leave(w)
    /\ UNCHANGED <<queue, plane, rows>>

FailOffByOne(w) ==                          \* mutant: attempts <= max_attempts
    Fails(w, work[w].retriable /\ jobs[work[w].job].attempts <= MaxAttempts)

Fail(w) ==
    Fails(w, work[w].retriable /\ jobs[work[w].job].attempts < MaxAttempts)

(* start_, complete_ or fail_reconciliation itself raises: the job is what *)
(* it was, which no task will change when it is running.                   *)
StartFails(w) ==
    /\ pc[w] = "idle" /\ queue # <<>> /\ MoreFaults
    /\ LET j == Head(queue)[1] IN
       /\ work' = [work EXCEPT
                     ![w] = Started(j, Head(queue)[2], jobs[j].recording)]
       /\ faulted' = faulted \cup {j}
    /\ queue' = Tail(queue)
    /\ Goto(w, "raise")
    /\ UNCHANGED <<revision, signals, jobs, submitting, crashes, rows>>

EndFails(w) ==
    /\ pc[w] \in {"complete", "fail"} /\ MoreFaults
    /\ faulted' = faulted \cup {work[w].job}
    /\ Goto(w, "raise") /\ work' = [work EXCEPT ![w] = Again(w)]
    /\ UNCHANGED <<revision, signals, jobs, submitting, queue, crashes, rows>>

(* The task queue calls a task again that raised, and gives up in the end. *)
Raise(w) ==
    /\ pc[w] = "raise"
    /\ queue' = IF work[w].retries < MaxRetries
                THEN Append(queue, <<work[w].job, work[w].retries + 1>>)
                ELSE queue
    /\ Leave(w)
    /\ UNCHANGED <<jobs, plane, rows>>

-----------------------------------------------------------------------------
(* A crash, and the start after it: recover_reconciliation_jobs makes the  *)
(* running jobs pending and the first of the pending ones are submitted.   *)
Recovered == [j \in DOMAIN jobs |->
                IF jobs[j].status = "running"
                THEN [jobs[j] EXCEPT !.status = "pending"] ELSE jobs[j]]

(* The tasks of the RecoverLimit oldest jobs of S, in their order.         *)
Submitted(S) ==
    LET n == IF Cardinality(S) < RecoverLimit THEN Cardinality(S) ELSE RecoverLimit
    IN {q \in [1..n -> S \X {0}] :
           /\ \A k, l \in 1..n : k < l => q[k][1] < q[l][1]
           /\ \A k \in 1..n : \A j \in S :
                 j < q[k][1] => \E l \in 1..n : q[l][1] = j}

(* What the threads had begun is left as it is; one at most was inside     *)
(* advance_materialization.                                                *)
LeftUndone ==
    /\ cut' = cut \cup UNION {Undone(t) : t \in Threads}
    /\ retired' \in {retired} \cup {retired \cup Half(t) : t \in Threads}
    /\ UNCHANGED <<ingested, current, overtaken>>

CrashForgetsRunning ==       \* mutant: running jobs are left as they are
    /\ crashes < MaxCrashes
    /\ crashes' = crashes + 1
    /\ queue' \in Submitted({j \in DOMAIN jobs : jobs[j].status = "pending"})
    /\ submitting' = 0
    /\ pc' = [t \in Threads |-> "idle"]
    /\ work' = [t \in Threads |-> NoWork]
    /\ LeftUndone /\ faulted' = {}
    /\ UNCHANGED <<revision, signals, jobs>>

Crash ==
    /\ crashes < MaxCrashes
    /\ crashes' = crashes + 1
    /\ jobs' = Recovered
    /\ queue' \in Submitted({j \in DOMAIN jobs : Recovered[j].status = "pending"})
    /\ submitting' = 0
    /\ pc' = [t \in Threads |-> "idle"]
    /\ work' = [t \in Threads |-> NoWork]
    /\ LeftUndone /\ faulted' = {}
    /\ UNCHANGED <<revision, signals>>

-----------------------------------------------------------------------------
Reconciliation(t) == Lookup(t) \/ Store(t) \/ Advance(t) \/ CallFails(t)

Worker(w) == \/ Start(w) \/ Fetch(w)
             \/ (\E b, i \in BOOLEAN : FetchFails(w, b, i))
             \/ Reconciliation(w)
             \/ Complete(w) \/ Fail(w) \/ Raise(w)
             \/ StartFails(w) \/ EndFails(w)

Next == \/ \E r \in Recordings : Change(r) \/ Enqueue(r)
        \/ Submit
        \/ \E w \in Workers : Worker(w)
        \/ \E c \in Clients : (\E r \in Recordings : Request(c, r))
                              \/ Reconciliation(c)
        \/ Crash

Spec == Init /\ [][Next]_vars

(* The event loop and the worker threads run on; a fetch ends by its       *)
(* timeout.  Nobody has to change a recording or to call the endpoint.     *)
FairSpec == /\ Spec
            /\ WF_vars(Submit)
            /\ \A w \in Workers : WF_vars(Worker(w))

-----------------------------------------------------------------------------
(* Properties.                                                             *)

Pending(j) == jobs[j].status = "pending"
Running(j) == jobs[j].status = "running"

(* Worker w is busy with job j, up to the store call that ends it.         *)
BusyWith(w, j) == pc[w] \in Steps \ {"raise"} /\ work[w].job = j

(* The places from which a pending job will be started.                    *)
QueuedAt(j) == {k \in DOMAIN queue : queue[k][1] = j}
Raising(j) == {w \in Workers : pc[w] = "raise" /\ work[w].job = j
                               /\ work[w].retries < MaxRetries}

(* A recording has one job at most that is pending or running: retries and *)
(* the recovery after a crash never run into the unique index on them.     *)
OneJobPerRecording == \A r \in Recordings : Cardinality(ActiveJobs(r)) <= 1

(* No job is stranded, as long as a start after a crash finds no more than *)
(* RecoverLimit of them: a pending one has one task that will start it, or *)
(* is about to get it, and a running one is in the hand of one worker.  It *)
(* takes max_retries >= max_attempts - 1 of the two counters.  A job of    *)
(* which the start or the end could not be recorded may wait for a restart.*)
NoJobStranded ==
    \A j \in DOMAIN jobs \ faulted :
        /\ Pending(j) => Cardinality(QueuedAt(j)) + Cardinality(Raising(j))
                           + (IF submitting = j THEN 1 ELSE 0) = 1
        /\ Running(j) => Cardinality({w \in Workers : BusyWith(w, j)}) = 1

(* However its tasks are retried and its recoveries fall, a job is started *)
(* at most MaxAttempts times and once more for each crash; while it is     *)
(* pending, a start is left of these.                                      *)
AttemptsBounded ==
    \A j \in DOMAIN jobs :
        /\ jobs[j].attempts <= MaxAttempts + crashes
        /\ Pending(j) => jobs[j].attempts < MaxAttempts + crashes

(* The current materialization has its observation.  It is not older than  *)
(* a retired one, unless a reconciliation that another one overtook after  *)
(* its fetch has advanced the recording, and it is retired itself only if  *)
(* a reconciliation of it was cut.                                         *)
IsCut(r) == \E v \in 1..MaxRevision : <<r, v>> \in cut

CurrentIsLatest ==
    \A r \in Recordings : current[r] # 0 =>
        /\ <<r, current[r]>> \in ingested
        /\ r \notin overtaken => \A v \in 1..MaxRevision :
              <<r, v>> \in retired => v < current[r] \/ (v = current[r] /\ IsCut(r))

(* What reads serve of a recording, when nothing is under way for it and   *)
(* the checks of the filter do not raise (for those see PocketEvents).     *)
Quiet(r) == /\ ActiveJobs(r) = {}
            /\ \A t \in Threads : pc[t] # "idle" => work[t].recording # r

Served(r) == {v \in 1..MaxRevision : <<r, v>> \in ingested \ retired}

(* Besides its current materialization a recording serves nothing but      *)
(* revisions of which a reconciliation ended, by a crash or because a call *)
(* raised, after it had stored the observation and before it made it       *)
(* current.                                                                *)
StaleOnlyIfCut ==
    \A r \in Recordings : Quiet(r) =>
        \A v \in Served(r) : v = current[r] \/ <<r, v>> \in cut

(* A new revision retires the one before: reads serve one at a time        *)
(* (test_rest_revision_retires_previous_materialization).                  *)
OneRevisionServed ==
    \A r \in Recordings : Quiet(r) => Cardinality(Served(r)) <= 1

(* Every job ends, whatever the provider answers and whatever crashes,     *)
(* unless its start or its end could not be recorded: the one job of a     *)
(* recording that is active does not stay it.                              *)
JobsEnd == \A r \in Recordings :
              ActiveJobs(r) # {} ~> ActiveJobs(r) \subseteq faulted
=============================================================================

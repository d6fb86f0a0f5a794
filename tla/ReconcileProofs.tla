--------------------------- MODULE ReconcileProofs ---------------------------
(***************************************************************************)
(* For any number of recordings, workers, clients, revisions and crashes:  *)
(* a recording has one active job, since a job that runs is in the hand of *)
(* one worker; its current materialization is the newest, since a fetch is *)
(* never older than what was current then; and what is stored is current   *)
(* or retired, or somebody is about to make it current or was cut before.  *)
(* With room for all at a start, and retries enough, no job is stranded: a *)
(* pending one waits in one place, and a running one has its worker.       *)
(***************************************************************************)
EXTENDS Reconcile, FiniteSetTheorems, FunctionTheorems, SequenceTheorems, TLAPS

-----------------------------------------------------------------------------
(* The inductive invariant.                                                *)

WorkOK == /\ DOMAIN work = Threads
          /\ \A w \in Workers : pc[w] # "idle" => work[w].job \in DOMAIN jobs
          /\ \A c \in Clients : pc[c] \in {"idle", "lookup", "store", "advance"}

(* A job that a worker is busy with is running, and no other worker is.    *)
BusyOK ==
    /\ \A w \in Workers : pc[w] \in Steps \ {"raise"} =>
          jobs[work[w].job].status = "running"
    /\ \A v, w \in Workers :
          /\ pc[v] \in Steps \ {"raise"} /\ pc[w] \in Steps \ {"raise"}
          /\ work[v].job = work[w].job
          => v = w

ActiveOK == \A j, k \in DOMAIN jobs :
               /\ jobs[j].status \in Active /\ jobs[k].status \in Active
               /\ jobs[j].recording = jobs[k].recording
               => j = k

(* What a thread has fetched exists, and was not older than the current.   *)
HoldsOK ==
    \A t \in Threads :
       /\ pc[t] \in {"lookup", "store", "advance"} =>
             /\ work[t].revision \in 1..revision[work[t].recording]
             /\ work[t].base <= work[t].revision
       /\ pc[t] = "advance" => Fetched(t) \in ingested

CurrentOK ==
    \A r \in Recordings :
       /\ current[r] # 0 => <<r, current[r]>> \in ingested
       /\ current[r] <= revision[r]
       /\ r \notin overtaken => \A v \in 1..MaxRevision :
             <<r, v>> \in retired => v < current[r] \/ (v = current[r] /\ IsCut(r))

ServedOK ==
    \A r \in Recordings, v \in 1..MaxRevision : v \in Served(r) =>
       \/ v = current[r] \/ <<r, v>> \in cut
       \/ \E t \in Threads : /\ pc[t] = "advance" /\ work[t].recording = r
                             /\ work[t].revision = v

IInv == TypeOK /\ WorkOK /\ BusyOK /\ ActiveOK /\ HoldsOK /\ CurrentOK /\ ServedOK

-----------------------------------------------------------------------------
LEMMA NotBoth == \A t \in Threads : t \in Clients <=> t \notin Workers
BY ReconcileAssumption DEF Threads

(* The cap on all revisions is a cap on each.                              *)
LEMMA RevisionsBelowCap ==
    ASSUME revision \in [Recordings -> 0..MaxRevision], NEW r \in Recordings,
           Cardinality(Released) < MaxRevision
    PROVE  revision[r] + 1 \in 0..MaxRevision
<1>1. /\ MaxRevision \in Nat /\ IsFiniteSet(Recordings) /\ revision[r] \in 0..MaxRevision
  BY ReconcileAssumption
<1>2. IsFiniteSet(Released) /\ Cardinality(Released) \in Nat
  <2>1. IsFiniteSet(1..MaxRevision)
    BY <1>1, FS_Interval
  <2>2. IsFiniteSet(Recordings \X (1..MaxRevision))
    BY <1>1, <2>1, FS_Product
  <2>3. Released \subseteq Recordings \X (1..MaxRevision)
    BY DEF Released, Revisions
  <2> QED
    BY <2>2, <2>3, FS_Subset, FS_CardinalityType
<1>3. SUFFICES ASSUME revision[r] = MaxRevision PROVE FALSE
  BY <1>1, <1>3
<1>4. PICK f \in [1..MaxRevision -> Released] :
         \A i \in 1..MaxRevision : f[i] = <<r, i>>
  <2>1. \A i \in 1..MaxRevision : <<r, i>> \in Released
    BY <1>1, <1>3 DEF Released, Revisions
  <2>2. [i \in 1..MaxRevision |-> <<r, i>>] \in [1..MaxRevision -> Released]
    BY <2>1
  <2> QED
    BY <2>2
<1>5. f \in Injection(1..MaxRevision, Released)
  <2>1. \A i, k \in 1..MaxRevision : f[i] = f[k] => i = k
    BY <1>4
  <2> QED
    BY <2>1, Fun_IsInj
<1>6. Cardinality(1..MaxRevision) = MaxRevision
  BY <1>1, FS_Interval
<1>7. Cardinality(1..MaxRevision) <= Cardinality(Released)
  BY <1>2, <1>5, FS_Injection
<1> QED
  BY <1>1, <1>2, <1>6, <1>7

LEMMA InitOK == Init => IInv
<1> SUFFICES ASSUME Init PROVE IInv
  OBVIOUS
<1> USE ReconcileAssumption DEF Init
<1>1. TypeOK
  BY DEF TypeOK, Threads
<1>2. WorkOK /\ BusyOK /\ ActiveOK /\ HoldsOK
  BY DEF WorkOK, BusyOK, ActiveOK, HoldsOK, Steps, Threads
<1>3. CurrentOK
  BY DEF CurrentOK
<1>4. ServedOK
  BY DEF ServedOK, Served
<1> QED
  BY <1>1, <1>2, <1>3, <1>4 DEF IInv

-----------------------------------------------------------------------------
(* A step of one thread, which leaves the others where they are.           *)
ThreadsOK == /\ pc \in [Threads -> Steps \cup {"idle"}]
             /\ \A t \in Threads : pc[t] # "idle" =>
                   work[t] \in Work /\ (work[t].job = 0 <=> t \in Clients)

LEMMA ThreadStep ==
    ASSUME ThreadsOK, WorkOK, NEW t \in Threads, NEW p \in Steps \cup {"idle"}, NEW q,
           Goto(t, p), work' = [work EXCEPT ![t] = q],
           p # "idle" => /\ q \in Work /\ (q.job = 0 <=> t \in Clients)
                         /\ t \in Workers => q.job \in DOMAIN jobs,
           t \in Clients => p \in {"idle", "lookup", "store", "advance"},
           DOMAIN jobs \subseteq DOMAIN jobs'
    PROVE  ThreadsOK' /\ WorkOK'
<1>1. /\ pc' = [pc EXCEPT ![t] = p] /\ pc \in [Threads -> Steps \cup {"idle"}]
      /\ DOMAIN work = Threads
  BY DEF Goto, ThreadsOK, WorkOK
<1>2. /\ pc'[t] = p /\ work'[t] = q
      /\ \A u \in Threads \ {t} : pc'[u] = pc[u] /\ work'[u] = work[u]
  BY <1>1
<1>3. ThreadsOK'
  BY <1>1, <1>2 DEF ThreadsOK
<1>4. WorkOK'
  BY <1>1, <1>2 DEF WorkOK, Threads
<1> QED
  BY <1>3, <1>4

LEMMA StartedIsWork ==
    ASSUME TypeOK, NEW j \in Nat, NEW n \in 0..MaxRetries, NEW r \in Recordings
    PROVE  Started(j, n, r) \in Work
BY ReconcileAssumption DEF Started, Work

LEMMA AgainIsWork ==
    ASSUME TypeOK, NEW t \in Threads, pc[t] # "idle", NEW a \in BOOLEAN,
           NEW b \in BOOLEAN
    PROVE  /\ Again(t) \in Work /\ Again(t).job = work[t].job
           /\ [Again(t) EXCEPT !.retriable = a, !.internal = b] \in Work
           /\ [Again(t) EXCEPT !.retriable = a, !.internal = b].job = work[t].job
<1>1. work[t] \in Work
  BY DEF TypeOK
<1>2. /\ work[t].job \in Nat /\ work[t].retries \in 0..MaxRetries
      /\ work[t].recording \in Recordings
  BY <1>1 DEF Work
<1>3. Again(t) \in Work
  BY <1>2, StartedIsWork DEF Again
<1>4. Again(t).job = work[t].job
  BY DEF Again, Started
<1> QED
  BY <1>3, <1>4 DEF Work

(* What each step of a reconciliation makes of the thread that takes it.   *)
LEMMA GivesUp ==
    ASSUME IInv, NEW t \in Threads, pc[t] # "idle", NEW a \in BOOLEAN,
           NEW b \in BOOLEAN, GiveUp(t, a, b), UNCHANGED jobs
    PROVE  ThreadsOK' /\ WorkOK'
<1>0. ThreadsOK /\ WorkOK /\ TypeOK
  BY DEF IInv, TypeOK, ThreadsOK
<1>1. CASE t \in Clients
  BY <1>1, <1>0, ThreadStep DEF GiveUp, Leave
<1>2. CASE t \notin Clients
  <2> DEFINE q == [Again(t) EXCEPT !.retriable = a, !.internal = b]
  <2>1. q \in Work /\ q.job = work[t].job
    BY <1>0, AgainIsWork
  <2>2. Goto(t, "fail") /\ work' = [work EXCEPT ![t] = q]
    BY <1>2 DEF GiveUp
  <2> HIDE DEF q
  <2>3. (q.job = 0 <=> t \in Clients) /\ q.job \in DOMAIN jobs
    BY <2>1, <1>0, <1>2, NotBoth DEF ThreadsOK, WorkOK
  <2>4. "fail" \in Steps \cup {"idle"}
    BY DEF Steps
  <2> QED
    BY <1>0, <1>2, <2>1, <2>2, <2>3, <2>4, ThreadStep
<1> QED
  BY <1>1, <1>2

(* The tables keep their shape, apart from the threads and the queue.      *)
TablesOK == /\ revision \in [Recordings -> 0..MaxRevision]
            /\ signals \subseteq Recordings
            /\ jobs \in Seq(Job)
            /\ submitting \in 0..Len(jobs)
            /\ queue \in Seq((1..Len(jobs)) \X (0..MaxRetries))
            /\ ingested \subseteq Revisions /\ retired \subseteq Revisions
            /\ current \in [Recordings -> 0..MaxRevision]
            /\ crashes \in 0..MaxCrashes /\ overtaken \subseteq Recordings
            /\ cut \subseteq Revisions /\ faulted \subseteq DOMAIN jobs

LEMMA TypeParts == TypeOK <=> TablesOK /\ ThreadsOK
BY DEF TypeOK, TablesOK, ThreadsOK

(* A job changes its status, its recording and its attempts stay.          *)
LEMMA JobStep ==
    ASSUME TablesOK, NEW j, NEW status \in {"pending", "running", "completed", "failed"},
           jobs' = [jobs EXCEPT ![j].status = status]
    PROVE  /\ jobs' \in Seq(Job) /\ Len(jobs') = Len(jobs)
           /\ DOMAIN jobs' = DOMAIN jobs
           /\ \A k \in DOMAIN jobs : /\ jobs'[k].recording = jobs[k].recording
                                     /\ jobs'[k].attempts = jobs[k].attempts
           /\ \A k \in DOMAIN jobs \ {j} : jobs'[k] = jobs[k]
           /\ j \in DOMAIN jobs => jobs'[j].status = status
<1>1. jobs \in [1..Len(jobs) -> Job] /\ Len(jobs) \in Nat /\ DOMAIN jobs = 1..Len(jobs)
  BY DEF TablesOK
<1>2. jobs' \in [1..Len(jobs) -> Job]
  BY <1>1 DEF Job
<1>3. jobs' \in Seq(Job) /\ Len(jobs') = Len(jobs)
  BY <1>1, <1>2
<1>4. \A k \in DOMAIN jobs : jobs[k] \in Job
  BY <1>1
<1> QED
  BY <1>1, <1>3, <1>4 DEF Job

(* A worker takes a task: what start_reconciliation leaves.                *)
LEMMA StartStep ==
    ASSUME TablesOK, NEW w \in Workers, Start(w)
    PROVE  \E j \in DOMAIN jobs, n \in 0..MaxRetries :
              /\ queue' \in Seq((1..Len(jobs)) \X (0..MaxRetries))
              /\ \/ UNCHANGED <<jobs, work, pc>>
                 \/ /\ jobs[j].status = "pending" /\ jobs'[j].status = "running"
                    /\ jobs'[j].attempts = jobs[j].attempts + 1
                    /\ jobs' \in Seq(Job) /\ Len(jobs') = Len(jobs)
                    /\ DOMAIN jobs' = DOMAIN jobs
                    /\ \A k \in DOMAIN jobs : jobs'[k].recording = jobs[k].recording
                    /\ \A k \in DOMAIN jobs \ {j} : jobs'[k] = jobs[k]
                    /\ work' = [work EXCEPT ![w] = Started(j, n, jobs[j].recording)]
                    /\ Goto(w, "fetch")
<1>1. /\ jobs \in [1..Len(jobs) -> Job] /\ Len(jobs) \in Nat /\ DOMAIN jobs = 1..Len(jobs)
      /\ queue \in Seq((1..Len(jobs)) \X (0..MaxRetries)) /\ queue # <<>>
  BY DEF TablesOK, Start
<1>2. /\ Head(queue) \in (1..Len(jobs)) \X (0..MaxRetries)
      /\ Tail(queue) \in Seq((1..Len(jobs)) \X (0..MaxRetries))
  BY <1>1
<1>3. PICK j \in DOMAIN jobs, n \in 0..MaxRetries : Head(queue) = <<j, n>>
  BY <1>1, <1>2
<1>4. queue' \in Seq((1..Len(jobs)) \X (0..MaxRetries))
  BY <1>2 DEF Start
<1>5. CASE jobs[j].status # "pending"
  BY <1>3, <1>4, <1>5 DEF Start
<1>6. CASE jobs[j].status = "pending"
  <2>1. PICK new : new = [jobs[j] EXCEPT !.status = "running", !.attempts = @ + 1]
    OBVIOUS
  <2>2. jobs[j] \in Job
    BY <1>1
  <2>3. /\ new \in Job /\ new.status = "running"
        /\ new.recording = jobs[j].recording
        /\ new.attempts = jobs[j].attempts + 1
    <3>1. PICK c \in Nat : c = jobs[j].attempts + 1
      BY <2>2 DEF Job
    <3>2. new = [jobs[j] EXCEPT !.status = "running", !.attempts = c]
      BY <2>1, <2>2, <3>1 DEF Job
    <3> QED
      BY <2>2, <3>1, <3>2 DEF Job
  <2>4. jobs' = [jobs EXCEPT ![j] = new]
    <3>1. Head(queue)[1] = j
      BY <1>3
    <3>2. jobs' = [jobs EXCEPT ![j] =
                     [jobs[j] EXCEPT !.status = "running", !.attempts = @ + 1]]
      BY <1>6, <3>1 DEF Start
    <3> QED
      BY <2>1, <3>2
  <2>5. jobs' \in [1..Len(jobs) -> Job]
    BY <1>1, <2>3, <2>4
  <2>6. jobs' \in Seq(Job) /\ Len(jobs') = Len(jobs)
    BY <1>1, <2>5
  <2>7. /\ work' = [work EXCEPT ![w] = Started(j, n, jobs[j].recording)]
        /\ Goto(w, "fetch")
    BY <1>3, <1>6 DEF Start
  <2> QED
    BY <1>1, <1>4, <1>6, <2>3, <2>4, <2>6, <2>7
<1> QED
  BY <1>5, <1>6

(* What a thread holds after the provider has answered.                    *)
LEMMA HoldingIsWork ==
    ASSUME TablesOK, NEW q \in Work, NEW r \in Recordings
    PROVE  /\ Holding(q, r) \in Work
           /\ Holding(q, r).job = q.job /\ Holding(q, r).recording = q.recording
           /\ Holding(q, r).revision = revision[r] /\ Holding(q, r).base = current[r]
BY DEF Holding, Work, TablesOK

(* What a thread leaves undone is a revision, and so is what it may have   *)
(* retired by then: the one that is current.                               *)
LEMMA LeftBehind ==
    ASSUME IInv, NEW t \in Threads
    PROVE  /\ Undone(t) \subseteq Revisions /\ Half(t) \subseteq Revisions
           /\ \A x \in Half(t) :
                 /\ Undone(t) = {Fetched(t)} /\ Fetched(t)[1] = x[1]
                 /\ x[2] = current[x[1]]
<1> SUFFICES ASSUME pc[t] = "advance"
             PROVE  /\ Fetched(t) \in Revisions /\ Retires(t) \subseteq Revisions
                    /\ \A x \in Retires(t) : /\ Fetched(t)[1] = x[1]
                                             /\ x[2] = current[x[1]]
  BY DEF Undone, Half
<1>1. PICK r \in Recordings : r = work[t].recording
  BY DEF IInv, TypeOK, Work
<1>2. /\ work[t].revision \in 1..revision[r] /\ revision[r] \in 0..MaxRevision
      /\ current[r] \in 0..MaxRevision /\ MaxRevision \in Nat
  BY <1>1, ReconcileAssumption DEF IInv, HoldsOK, TypeOK
<1>3. Fetched(t) \in Revisions /\ Fetched(t)[1] = r
  BY <1>1, <1>2 DEF Fetched, Revisions
<1>4. Retires(t) \subseteq {<<r, current[r]>>} /\ (Retires(t) # {} => current[r] # 0)
  BY <1>1 DEF Retires
<1> QED
  BY <1>2, <1>3, <1>4 DEF Revisions

LEMMA TypesStay == IInv /\ [Next]_vars => TypeOK' /\ WorkOK'
<1> SUFFICES ASSUME IInv, [Next]_vars PROVE TablesOK' /\ ThreadsOK' /\ WorkOK'
  BY DEF TypeOK, TablesOK, ThreadsOK
<1> USE ReconcileAssumption DEF vars, plane, rows
<1>0. TypeOK /\ TablesOK /\ ThreadsOK /\ WorkOK
  BY TypeParts DEF IInv
<1>a. ASSUME NEW t \in Threads, pc[t] # "idle"
      PROVE  /\ work[t] \in Work /\ work[t].recording \in Recordings
             /\ work[t].revision \in 0..MaxRevision /\ work[t].retries \in 0..MaxRetries
             /\ work[t].job \in Nat /\ (work[t].job = 0 <=> t \in Clients)
             /\ t \in Workers => work[t].job \in DOMAIN jobs
  BY <1>0, <1>a DEF ThreadsOK, WorkOK, Work
<1>b. Workers \subseteq Threads /\ Clients \subseteq Threads
  BY DEF Threads
<1>c. DOMAIN jobs = 1..Len(jobs) /\ Len(jobs) \in Nat
  BY <1>0 DEF TablesOK
<1>1. CASE \E r \in Recordings : Change(r)
  <2>1. PICK r \in Recordings : Change(r)
    BY <1>1
  <2>2. revision[r] + 1 \in 0..MaxRevision
    BY <2>1, <1>0, RevisionsBelowCap DEF Change, TablesOK
  <2>3. TablesOK'
    BY <2>1, <2>2, <1>0 DEF Change, TablesOK
  <2> QED
    BY <2>1, <2>3, <1>0 DEF Change, ThreadsOK, WorkOK
<1>2. CASE \E r \in Recordings : Enqueue(r)
  <2>1. PICK r \in Recordings : Enqueue(r)
    BY <1>2
  <2>2. CASE UNCHANGED <<jobs, submitting>>
    BY <2>1, <2>2, <1>0 DEF Enqueue, TablesOK, ThreadsOK, WorkOK
  <2>3. CASE jobs' = Append(jobs, [recording |-> r, status |-> "pending",
                                   attempts |-> 0])
             /\ submitting' = Len(jobs) + 1
    <3>1. [recording |-> r, status |-> "pending", attempts |-> 0] \in Job
      BY DEF Job
    <3>2. jobs' \in Seq(Job) /\ Len(jobs') = Len(jobs) + 1
      BY <2>3, <3>1, <1>0 DEF TablesOK
    <3>3. DOMAIN jobs' = 1..(Len(jobs) + 1) /\ DOMAIN jobs \subseteq DOMAIN jobs'
      BY <3>2, <1>c
    <3>4. (1..Len(jobs)) \X (0..MaxRetries) \subseteq (1..Len(jobs')) \X (0..MaxRetries)
      BY <3>2, <1>c
    <3>5. queue' \in Seq((1..Len(jobs')) \X (0..MaxRetries))
      BY <2>1, <3>4, <1>0, SeqMonotonic DEF Enqueue, TablesOK
    <3>6. submitting' \in 0..Len(jobs')
      <4>1. PICK n \in Nat : n = Len(jobs)
        BY <1>c
      <4>2. submitting' = n + 1 /\ Len(jobs') = n + 1
        BY <2>3, <3>2, <4>1
      <4> QED
        BY <4>2
    <3>7. TablesOK'
      BY <2>1, <3>2, <3>5, <3>6, <1>0 DEF Enqueue, TablesOK
    <3> QED
      BY <2>1, <3>3, <3>7, <1>0 DEF Enqueue, ThreadsOK, WorkOK
  <2> QED
    BY <2>1, <2>2, <2>3 DEF Enqueue
<1>3. CASE Submit
  <2>1. <<submitting, 0>> \in (1..Len(jobs)) \X (0..MaxRetries)
    BY <1>3, <1>0, <1>c DEF Submit, TablesOK
  <2>2. TablesOK'
    BY <1>3, <2>1, <1>0, <1>c DEF Submit, TablesOK
  <2> QED
    BY <1>3, <2>2, <1>0 DEF Submit, ThreadsOK, WorkOK
<1>4. CASE \E w \in Workers : Start(w)
  <2>1. PICK w \in Workers : Start(w)
    BY <1>4
  <2>2. PICK j \in DOMAIN jobs, n \in 0..MaxRetries :
              /\ queue' \in Seq((1..Len(jobs)) \X (0..MaxRetries))
              /\ \/ UNCHANGED <<jobs, work, pc>>
                 \/ /\ jobs' \in Seq(Job) /\ Len(jobs') = Len(jobs)
                    /\ DOMAIN jobs' = DOMAIN jobs
                    /\ work' = [work EXCEPT ![w] = Started(j, n, jobs[j].recording)]
                    /\ Goto(w, "fetch")
    BY SMTT(30), <2>1, <1>0, StartStep
  <2>3. TablesOK'
    BY <2>1, <2>2, <1>0 DEF Start, TablesOK
  <2>4. CASE UNCHANGED <<jobs, work, pc>>
    BY <2>3, <2>4, <1>0 DEF ThreadsOK, WorkOK
  <2>5. CASE /\ DOMAIN jobs' = DOMAIN jobs
             /\ work' = [work EXCEPT ![w] = Started(j, n, jobs[j].recording)]
             /\ Goto(w, "fetch")
    <3>1. j \in Nat /\ jobs[j].recording \in Recordings
      <4>1. jobs[j] \in Job
        BY <1>0 DEF TablesOK
      <4> QED
        BY <4>1, <1>c DEF Job
    <3>2. PICK q : q = Started(j, n, jobs[j].recording)
      OBVIOUS
    <3>3. q \in Work /\ q.job = j
      BY <3>1, <3>2, <1>0, <1>c, StartedIsWork DEF Started
    <3>4. q.job \in DOMAIN jobs /\ q.job # 0 /\ w \notin Clients
      BY <3>3, <1>c
    <3>5. "fetch" \in Steps \cup {"idle"}
      BY DEF Steps
    <3>6. work' = [work EXCEPT ![w] = q]
      BY <2>5, <3>2
    <3> QED
      BY <2>3, <2>5, <3>3, <3>4, <3>5, <3>6, <1>0, <1>b, ThreadStep
  <2> QED
    BY <2>2, <2>4, <2>5
<1>5. CASE \E w \in Workers : Fetch(w)
  <2>1. PICK w \in Workers : Fetch(w)
    BY <1>5
  <2>2. PICK q : q = Holding(work[w], work[w].recording)
    OBVIOUS
  <2>3. w \in Threads /\ pc[w] = "fetch" /\ q \in Work /\ q.job = work[w].job
    BY <2>1, <2>2, <1>a, <1>b, <1>0, HoldingIsWork DEF Fetch
  <2>4. /\ work' = [work EXCEPT ![w] = q] /\ Goto(w, "lookup")
        /\ UNCHANGED <<jobs, queue, plane, rows>>
    BY <2>1, <2>2 DEF Fetch
  <2>5. "lookup" \in Steps \cup {"idle"}
    BY DEF Steps
  <2>6. (q.job = 0 <=> w \in Clients) /\ q.job \in DOMAIN jobs
    BY <2>3, <1>a
  <2> QED
    BY <2>3, <2>4, <2>5, <2>6, <1>0, ThreadStep DEF TablesOK
<1>6. CASE \E w \in Workers, b, i \in BOOLEAN : FetchFails(w, b, i)
  <2>1. PICK w \in Workers, b \in BOOLEAN, i \in BOOLEAN : FetchFails(w, b, i)
    BY <1>6
  <2>2. /\ w \in Threads /\ pc[w] # "idle" /\ GiveUp(w, b, i)
        /\ UNCHANGED <<jobs, queue, plane, rows>>
    BY <2>1, <1>b DEF FetchFails
  <2> QED
    BY <2>2, <1>0, GivesUp DEF TablesOK
<1>7. CASE \E c \in Clients, r \in Recordings : Request(c, r)
  <2>1. PICK c \in Clients, r \in Recordings : Request(c, r)
    BY <1>7
  <2>2. PICK q : q = Holding(Started(0, 0, r), r)
    OBVIOUS
  <2>3. Started(0, 0, r) \in Work /\ Started(0, 0, r).job = 0
    BY <1>0, StartedIsWork DEF Started
  <2>4. q \in Work /\ q.job = 0
    BY <2>2, <2>3, <1>0, HoldingIsWork
  <2>5. /\ work' = [work EXCEPT ![c] = q] /\ Goto(c, "lookup")
        /\ UNCHANGED <<jobs, queue, plane, rows>>
    BY <2>1, <2>2 DEF Request
  <2>6. "lookup" \in Steps \cup {"idle"} /\ c \in Threads /\ c \notin Workers
    BY <1>b DEF Steps
  <2> QED
    BY <2>4, <2>5, <2>6, <1>0, ThreadStep DEF TablesOK
<1>8. CASE \E t \in Threads : Lookup(t)
  <2>1. PICK t \in Threads : Lookup(t)
    BY <1>8
  <2>2. PICK q : q = [work[t] EXCEPT !.known = Fetched(t) \in ingested]
    OBVIOUS
  <2>3. pc[t] = "lookup" /\ q \in Work /\ q.job = work[t].job
    <3>1. pc[t] = "lookup" /\ work[t] \in Work
      BY <2>1, <1>a DEF Lookup
    <3>2. CASE Fetched(t) \in ingested
      <4>1. q = [work[t] EXCEPT !.known = TRUE]
        BY <2>2, <3>2
      <4> QED
        BY <3>1, <4>1 DEF Work
    <3>3. CASE Fetched(t) \notin ingested
      <4>1. (Fetched(t) \in ingested) = FALSE
        BY <3>3
      <4>2. q = [work[t] EXCEPT !.known = FALSE]
        BY <2>2, <4>1
      <4> QED
        BY <3>1, <4>2 DEF Work
    <3> QED
      BY <3>2, <3>3
  <2>4. /\ work' = [work EXCEPT ![t] = q] /\ Goto(t, "store")
        /\ UNCHANGED <<jobs, queue, plane, rows>>
    BY <2>1, <2>2, <1>0 DEF Lookup, WorkOK
  <2>5. "store" \in Steps \cup {"idle"}
    BY DEF Steps
  <2>6. (q.job = 0 <=> t \in Clients) /\ (t \in Workers => q.job \in DOMAIN jobs)
    BY <2>3, <1>a
  <2> QED
    BY <2>3, <2>4, <2>5, <2>6, <1>0, ThreadStep DEF TablesOK
<1>9. CASE \E t \in Threads : Store(t)
  <2>1. PICK t \in Threads : Store(t)
    BY <1>9
  <2>2. /\ pc[t] = "store"
        /\ UNCHANGED <<jobs, queue, plane, current, retired, overtaken, cut>>
    BY <2>1 DEF Store
  <2>3. CASE GiveUp(t, FALSE, TRUE) /\ UNCHANGED ingested
    BY <2>2, <2>3, <1>0, GivesUp DEF TablesOK
  <2>4. CASE /\ ingested' = ingested \cup {Fetched(t)} /\ Goto(t, "advance")
             /\ work' = [work EXCEPT ![t].known = FALSE]
    <3>1. PICK q : q = [work[t] EXCEPT !.known = FALSE]
      OBVIOUS
    <3>2. q \in Work /\ q.job = work[t].job
      BY <2>2, <3>1, <1>a DEF Work
    <3>3. work' = [work EXCEPT ![t] = q]
      BY <2>4, <3>1, <1>0 DEF WorkOK
    <3>4. "advance" \in Steps \cup {"idle"}
      BY DEF Steps
    <3>5. (q.job = 0 <=> t \in Clients) /\ (t \in Workers => q.job \in DOMAIN jobs)
      BY <2>2, <3>2, <1>a
    <3>6. ThreadsOK' /\ WorkOK'
      BY <2>2, <2>4, <3>2, <3>3, <3>4, <3>5, <1>0, ThreadStep
    <3>7. Fetched(t) \in Revisions
      <4>1. work[t].recording \in Recordings /\ work[t].revision \in 1..revision[work[t].recording]
        BY <2>2, <1>a DEF IInv, HoldsOK
      <4>2. revision[work[t].recording] \in 0..MaxRevision
        BY <4>1, <1>0 DEF TablesOK
      <4> QED
        BY <4>1, <4>2 DEF Fetched, Revisions
    <3> QED
      BY <2>2, <2>4, <3>6, <3>7, <1>0 DEF TablesOK
  <2> QED
    BY <2>1, <2>3, <2>4 DEF Store
<1>10. CASE \E t \in Threads : Advance(t)
  <2>1. PICK t \in Threads : Advance(t)
    BY <1>10
  <2>2. PICK r \in Recordings : r = work[t].recording
    BY <2>1, <1>a DEF Advance
  <2>3. /\ pc[t] = "advance"
        /\ current' = [current EXCEPT ![r] = work[t].revision]
        /\ retired' = retired \cup Retires(t)
        /\ overtaken' = Overtakes(t, r)
        /\ Advanced(t)
        /\ UNCHANGED <<jobs, queue, plane, ingested, cut>>
    BY <2>1, <2>2 DEF Advance
  <2>4. TablesOK'
    <3>1. work[t].revision \in 0..MaxRevision
      BY <2>3, <1>a
    <3>2. Retires(t) \subseteq Revisions
      BY <2>3, LeftBehind DEF Half
    <3>3. retired' \subseteq Revisions
      BY <2>3, <3>2, <1>0 DEF TablesOK
    <3> QED
      BY <2>3, <3>1, <3>3, <1>0 DEF TablesOK, Overtakes
  <2>5. CASE t \in Clients
    BY <2>3, <2>4, <2>5, <1>0, ThreadStep DEF Advanced, Leave
  <2>6. CASE t \notin Clients
    <3>1. Goto(t, "complete") /\ work' = [work EXCEPT ![t] = Again(t)]
      BY <2>3, <2>6 DEF Advanced
    <3>2. PICK q : q = Again(t)
      OBVIOUS
    <3>3. q \in Work /\ q.job = work[t].job
      BY <2>3, <3>2, <1>0, AgainIsWork
    <3>4. (q.job = 0 <=> t \in Clients) /\ (t \in Workers => q.job \in DOMAIN jobs)
      BY <2>3, <3>3, <1>a
    <3>5. "complete" \in Steps \cup {"idle"}
      BY DEF Steps
    <3> QED
      BY <2>3, <2>4, <2>6, <3>1, <3>2, <3>3, <3>4, <3>5, <1>0, ThreadStep
  <2> QED
    BY <2>5, <2>6
<1>16. CASE \E t \in Threads : CallFails(t)
  <2>1. PICK t \in Threads : CallFails(t)
    BY <1>16
  <2>2. /\ pc[t] # "idle" /\ GiveUp(t, FALSE, TRUE)
        /\ cut' = cut \cup Undone(t) /\ retired' \in {retired, retired \cup Half(t)}
        /\ UNCHANGED <<jobs, queue, plane, ingested, current, overtaken>>
    BY <2>1 DEF CallFails
  <2>3. cut' \subseteq Revisions /\ retired' \subseteq Revisions
    BY <2>2, <1>0, LeftBehind DEF TablesOK
  <2> QED
    BY <2>2, <2>3, <1>0, GivesUp DEF TablesOK
<1>17. CASE \E w \in Workers : StartFails(w)
  <2>1. PICK w \in Workers : StartFails(w)
    BY <1>17
  <2>2. /\ queue \in Seq((1..Len(jobs)) \X (0..MaxRetries)) /\ queue # <<>>
        /\ w \in Threads /\ w \notin Clients
    BY <2>1, <1>0, <1>b, NotBoth DEF StartFails, TablesOK
  <2>3. /\ Head(queue) \in (1..Len(jobs)) \X (0..MaxRetries)
        /\ Tail(queue) \in Seq((1..Len(jobs)) \X (0..MaxRetries))
    BY <2>2
  <2>4. PICK j \in DOMAIN jobs, n \in 0..MaxRetries : Head(queue) = <<j, n>>
    BY <2>3, <1>c
  <2>5. PICK q : q = Started(j, n, jobs[j].recording)
    OBVIOUS
  <2>6. q \in Work /\ q.job = j
    <3>1. jobs[j] \in Job /\ j \in Nat
      BY <1>0, <1>c DEF TablesOK
    <3>2. jobs[j].recording \in Recordings
      BY <3>1 DEF Job
    <3> QED
      BY <2>5, <3>1, <3>2, <1>0, StartedIsWork DEF Started
  <2>7. /\ work' = [work EXCEPT ![w] = q] /\ Goto(w, "raise")
        /\ faulted' = faulted \cup {j} /\ queue' = Tail(queue)
        /\ UNCHANGED <<revision, signals, jobs, submitting, crashes, rows>>
    <3>1. Head(queue)[1] = j /\ Head(queue)[2] = n
      BY <2>4
    <3>2. /\ work' = [work EXCEPT ![w] = Started(j, n, jobs[j].recording)]
          /\ faulted' = faulted \cup {j}
      BY <2>1, <3>1 DEF StartFails
    <3> QED
      BY <2>1, <2>5, <3>2 DEF StartFails
  <2>8. TablesOK'
    BY <2>3, <2>7, <1>0 DEF TablesOK
  <2>9. "raise" \in Steps \cup {"idle"} /\ j # 0
    BY <1>c DEF Steps
  <2> QED
    BY <2>2, <2>6, <2>7, <2>8, <2>9, <1>0, ThreadStep
<1>18. CASE \E w \in Workers : EndFails(w)
  <2>1. PICK w \in Workers : EndFails(w)
    BY <1>18
  <2>2. pc[w] # "idle" /\ w \in Threads /\ w \notin Clients
    BY <2>1, <1>b, NotBoth DEF EndFails
  <2>3. PICK q : q = Again(w)
    OBVIOUS
  <2>4. q \in Work /\ q.job = work[w].job
    BY <2>2, <2>3, <1>0, AgainIsWork
  <2>5. (q.job = 0 <=> w \in Clients) /\ q.job \in DOMAIN jobs
    BY <2>2, <2>4, <1>a
  <2>6. /\ work' = [work EXCEPT ![w] = q] /\ Goto(w, "raise")
        /\ faulted' = faulted \cup {q.job}
        /\ UNCHANGED <<revision, signals, jobs, submitting, queue, crashes, rows>>
    BY <2>1, <2>3, <2>4 DEF EndFails
  <2>7. TablesOK'
    BY <2>5, <2>6, <1>0 DEF TablesOK
  <2>8. "raise" \in Steps \cup {"idle"}
    BY DEF Steps
  <2> QED
    BY <2>2, <2>4, <2>5, <2>6, <2>7, <2>8, <1>0, ThreadStep
<1>11. CASE \E w \in Workers : Complete(w)
  <2>1. PICK w \in Workers : Complete(w)
    BY <1>11
  <2>2. /\ jobs' \in Seq(Job) /\ Len(jobs') = Len(jobs) /\ DOMAIN jobs' = DOMAIN jobs
    BY <2>1, <1>0, JobStep DEF Complete
  <2>3. TablesOK'
    BY <2>1, <2>2, <1>0 DEF Complete, TablesOK
  <2> QED
    BY <2>1, <2>2, <2>3, <1>0, <1>b, ThreadStep DEF Complete, Leave
<1>12. CASE \E w \in Workers : Fail(w)
  <2>1. PICK w \in Workers : Fail(w)
    BY <1>12
  <2>2. PICK retry \in BOOLEAN : Fails(w, retry)
    BY <2>1 DEF Fail
  <2>3. PICK status \in {"pending", "failed"} :
           jobs' = [jobs EXCEPT ![work[w].job].status = status]
    BY <2>2 DEF Fails
  <2>4. /\ jobs' \in Seq(Job) /\ Len(jobs') = Len(jobs) /\ DOMAIN jobs' = DOMAIN jobs
    BY <2>3, <1>0, JobStep
  <2>5. TablesOK'
    BY <2>2, <2>4, <1>0 DEF Fails, TablesOK
  <2>6. pc[w] # "idle" /\ w \in Threads /\ w \notin Clients
    BY <2>2, <1>b DEF Fails
  <2>7. CASE Leave(w)
    BY <2>4, <2>5, <2>6, <2>7, <1>0, ThreadStep DEF Leave
  <2>8. CASE Goto(w, "raise") /\ work' = [work EXCEPT ![w] = Again(w)]
    <3>1. PICK q : q = Again(w)
      OBVIOUS
    <3>2. q \in Work /\ q.job = work[w].job
      BY <2>6, <3>1, <1>0, AgainIsWork
    <3>3. (q.job = 0 <=> w \in Clients) /\ q.job \in DOMAIN jobs
      BY <2>6, <3>2, <1>a
    <3>4. "raise" \in Steps \cup {"idle"}
      BY DEF Steps
    <3> QED
      BY <2>4, <2>5, <2>6, <2>8, <3>1, <3>2, <3>3, <3>4, <1>0, ThreadStep
  <2> QED
    BY <2>2, <2>7, <2>8 DEF Fails
<1>13. CASE \E w \in Workers : Raise(w)
  <2>1. PICK w \in Workers : Raise(w)
    BY <1>13
  <2>2. pc[w] # "idle" /\ w \in Threads
    BY <2>1, <1>b DEF Raise
  <2>3. /\ work[w].job \in 1..Len(jobs)
        /\ work[w].retries < MaxRetries => work[w].retries + 1 \in 0..MaxRetries
    BY <2>2, <1>a, <1>c
  <2>4. queue' \in Seq((1..Len(jobs)) \X (0..MaxRetries))
    BY <2>1, <2>3, <1>0 DEF Raise, TablesOK
  <2>5. TablesOK'
    BY <2>1, <2>4, <1>0 DEF Raise, TablesOK
  <2> QED
    BY <2>1, <2>2, <2>5, <1>0, ThreadStep DEF Raise, Leave
<1>14. CASE Crash
  <2>1. jobs \in [1..Len(jobs) -> Job]
    BY <1>0 DEF TablesOK
  <2>2. jobs' \in [1..Len(jobs) -> Job]
    <3>1. \A j \in 1..Len(jobs) : jobs[j] \in Job
                                  /\ [jobs[j] EXCEPT !.status = "pending"] \in Job
      BY <2>1 DEF Job
    <3> QED
      BY <1>14, <3>1, <1>c DEF Crash, Recovered
  <2>3. jobs' \in Seq(Job) /\ Len(jobs') = Len(jobs) /\ DOMAIN jobs' = DOMAIN jobs
    BY <2>2, <1>c
  <2> DEFINE P == {j \in DOMAIN jobs : Recovered[j].status = "pending"}
  <2>4. queue' \in Submitted(P)
    BY <1>14 DEF Crash
  <2>5. IsFiniteSet(P) /\ Cardinality(P) \in Nat
    <3>1. IsFiniteSet(1..Len(jobs)) /\ P \subseteq 1..Len(jobs)
      BY <1>c, FS_Interval
    <3> QED
      BY <3>1, FS_Subset, FS_CardinalityType
  <2>6. P \subseteq 1..Len(jobs)
    BY <1>c
  <2> HIDE DEF P
  <2>7. PICK n \in Nat : queue' \in [1..n -> P \X {0}]
    BY <2>4, <2>5 DEF Submitted
  <2>8. queue' \in [1..n -> (1..Len(jobs)) \X (0..MaxRetries)]
    <3>1. P \X {0} \subseteq (1..Len(jobs)) \X (0..MaxRetries)
      <4>1. 0 \in 0..MaxRetries
        OBVIOUS
      <4> QED
        BY <2>6, <4>1
    <3> QED
      BY <2>7, <3>1
  <2>9. queue' \in Seq((1..Len(jobs)) \X (0..MaxRetries))
    BY <2>8
  <2>10. TablesOK'
    <3>1. cut' \subseteq Revisions
      BY <1>14, <1>0, LeftBehind DEF Crash, LeftUndone, TablesOK
    <3>2. retired' \subseteq Revisions
      BY <1>14, <1>0, LeftBehind DEF Crash, LeftUndone, TablesOK
    <3>3. /\ crashes < MaxCrashes /\ crashes' = crashes + 1 /\ faulted' = {}
          /\ submitting' = 0 /\ UNCHANGED <<revision, signals, ingested, current>>
          /\ overtaken' \subseteq Recordings
      BY <1>14, <1>0 DEF Crash, LeftUndone, TablesOK
    <3>4. crashes' \in 0..MaxCrashes /\ submitting' \in 0..Len(jobs')
      BY <2>3, <3>3, <1>0, ReconcileAssumption DEF TablesOK, ReconcileAssumption
    <3> QED
      BY <2>3, <2>9, <3>1, <3>2, <3>3, <3>4, <1>0 DEF TablesOK
  <2> QED
    BY <1>14, <2>10 DEF Crash, ThreadsOK, WorkOK, Threads
<1>15. CASE UNCHANGED vars
  BY <1>15, <1>0 DEF TablesOK, ThreadsOK, WorkOK
<1> QED
  BY <1>1, <1>2, <1>3, <1>4, <1>5, <1>6, <1>7, <1>8, <1>9, <1>10, <1>11, <1>12,
     <1>13, <1>14, <1>15, <1>16, <1>17, <1>18
  DEF Next, Worker, Reconciliation, Threads

-----------------------------------------------------------------------------
(* What a step does to the threads: thread t moves to p and the others     *)
(* stay.                                                                   *)
Moves(t, p) == /\ pc'[t] = p
               /\ \A u \in Threads \ {t} : pc'[u] = pc[u] /\ work'[u] = work[u]

LEMMA GotoMoves ==
    ASSUME IInv, NEW t \in Threads, NEW p, Goto(t, p),
           \E q : work' = [work EXCEPT ![t] = q]
    PROVE  Moves(t, p)
BY DEF IInv, TypeOK, WorkOK, Goto, Moves

LEMMA GiveUpMoves ==
    ASSUME IInv, NEW t \in Threads, NEW a, NEW b, GiveUp(t, a, b)
    PROVE  /\ Moves(t, IF t \in Clients THEN "idle" ELSE "fail")
           /\ t \notin Clients => work'[t].job = work[t].job
<1>1. CASE t \in Clients
  BY <1>1, GotoMoves DEF GiveUp, Leave
<1>2. CASE t \notin Clients
  <2>1. Goto(t, "fail") /\ work' = [work EXCEPT ![t] =
           [Again(t) EXCEPT !.retriable = a, !.internal = b]]
    BY <1>2 DEF GiveUp
  <2>2. work'[t].job = work[t].job
    BY <2>1 DEF Again, Started, IInv, WorkOK
  <2> QED
    BY <2>1, <2>2, <1>2, GotoMoves
<1> QED
  BY <1>1, <1>2

(* The kinds of steps, by what the proofs below need to know of them.      *)
LEMMA FetchEffect ==
    ASSUME IInv, NEW t \in Threads, NEW r \in Recordings, NEW q \in Work,
           q.recording = r, revision[r] > 0,
           work' = [work EXCEPT ![t] = Holding(q, r)], Goto(t, "lookup")
    PROVE  /\ Moves(t, "lookup")
           /\ work'[t].job = q.job /\ work'[t].recording = r
           /\ work'[t].revision = revision[r] /\ work'[t].base = current[r]
<1>1. Moves(t, "lookup")
  BY GotoMoves
<1>2. work'[t] = Holding(q, r)
  BY DEF IInv, WorkOK
<1> QED
  BY <1>1, <1>2, HoldingIsWork, TypeParts DEF IInv

(* Lookup and Store keep what was fetched.                                 *)
SameFetch(t) == /\ work'[t].job = work[t].job
                /\ work'[t].recording = work[t].recording
                /\ work'[t].revision = work[t].revision
                /\ work'[t].base = work[t].base

LEMMA LookupEffect ==
    ASSUME IInv, NEW t \in Threads, Lookup(t)
    PROVE  /\ Moves(t, "store") /\ SameFetch(t)
           /\ UNCHANGED <<jobs, queue, plane, rows>>
<1>1. Moves(t, "store") /\ UNCHANGED <<jobs, queue, plane, rows>>
  BY GotoMoves DEF Lookup
<1>2. work'[t] = [work[t] EXCEPT !.known = Fetched(t) \in ingested]
  BY DEF Lookup, IInv, WorkOK
<1>3. work[t] \in Work
  BY DEF Lookup, IInv, TypeOK
<1> QED
  BY <1>1, <1>2, <1>3 DEF SameFetch, Work

LEMMA StoreEffect ==
    ASSUME IInv, NEW t \in Threads, Store(t)
    PROVE  /\ UNCHANGED <<jobs, queue, plane, current, retired, overtaken, cut>>
           /\ \/ /\ Moves(t, "advance") /\ SameFetch(t)
                 /\ ingested' = ingested \cup {Fetched(t)}
              \/ /\ Moves(t, IF t \in Clients THEN "idle" ELSE "fail")
                 /\ t \notin Clients => work'[t].job = work[t].job
                 /\ UNCHANGED ingested
<1>1. CASE GiveUp(t, FALSE, TRUE) /\ UNCHANGED ingested
  BY <1>1, GiveUpMoves DEF Store
<1>2. CASE /\ ingested' = ingested \cup {Fetched(t)} /\ Goto(t, "advance")
           /\ work' = [work EXCEPT ![t].known = FALSE]
  <2>1. work' = [work EXCEPT ![t] = [work[t] EXCEPT !.known = FALSE]]
    BY <1>2
  <2>2. Moves(t, "advance")
    BY <1>2, <2>1, GotoMoves
  <2>3. work[t] \in Work /\ work'[t] = [work[t] EXCEPT !.known = FALSE]
    BY <2>1 DEF Store, IInv, TypeOK, WorkOK
  <2>4. SameFetch(t)
    BY <2>3 DEF SameFetch, Work
  <2> QED
    BY <1>2, <2>2, <2>4 DEF Store
<1> QED
  BY <1>1, <1>2 DEF Store

LEMMA AdvanceEffect ==
    ASSUME IInv, NEW t \in Threads, Advance(t)
    PROVE  \E r \in Recordings :
              /\ r = work[t].recording /\ pc[t] = "advance"
              /\ current' = [current EXCEPT ![r] = work[t].revision]
              /\ retired' = IF current[r] \in {0, work[t].revision} THEN retired
                            ELSE retired \cup {<<r, current[r]>>}
              /\ overtaken' = IF work[t].base # current[r] THEN overtaken \cup {r}
                              ELSE overtaken
              /\ Moves(t, IF t \in Clients THEN "idle" ELSE "complete")
              /\ t \notin Clients => work'[t].job = work[t].job
              /\ UNCHANGED <<jobs, queue, plane, ingested, cut>>
<1>1. work[t].recording \in Recordings /\ DOMAIN work = Threads
  BY DEF Advance, IInv, TypeOK, WorkOK, Work
<1>2. /\ Moves(t, IF t \in Clients THEN "idle" ELSE "complete")
      /\ t \notin Clients => work'[t].job = work[t].job
  <2>1. CASE t \in Clients
    BY <2>1, GotoMoves DEF Advance, Advanced, Leave
  <2>2. CASE t \notin Clients
    <3>1. Goto(t, "complete") /\ work' = [work EXCEPT ![t] = Again(t)]
      BY <2>2 DEF Advance, Advanced
    <3> QED
      BY <3>1, <2>2, <1>1, GotoMoves DEF Again, Started
  <2> QED
    BY <2>1, <2>2
<1> QED
  BY <1>1, <1>2 DEF Advance, Overtakes, Retires

LEMMA CallFailsEffect ==
    ASSUME IInv, NEW t \in Threads, CallFails(t)
    PROVE  /\ pc[t] \in {"lookup", "store", "advance"}
           /\ Moves(t, IF t \in Clients THEN "idle" ELSE "fail")
           /\ t \notin Clients => work'[t].job = work[t].job
           /\ cut' = cut \cup Undone(t)
           /\ retired' \in {retired, retired \cup Half(t)}
           /\ UNCHANGED <<jobs, queue, plane, ingested, current, overtaken>>
BY GiveUpMoves DEF CallFails

(* A worker whose call of start_, complete_ or fail_reconciliation raises. *)
LEMMA FaultEffect ==
    ASSUME IInv, NEW w \in Workers, StartFails(w) \/ EndFails(w)
    PROVE  /\ Moves(w, "raise") /\ pc[w] \in {"idle", "complete", "fail"}
           /\ UNCHANGED <<revision, signals, jobs, submitting, crashes, rows>>
BY GotoMoves DEF StartFails, EndFails, Threads

LEMMA FailEffect ==
    ASSUME IInv, NEW w \in Workers, Fail(w)
    PROVE  /\ pc[w] = "fail"
           /\ \E status \in {"pending", "failed"} :
                 jobs' = [jobs EXCEPT ![work[w].job].status = status]
           /\ \E p \in {"idle", "raise"} : Moves(w, p)
           /\ UNCHANGED <<queue, plane, rows>>
<1>1. PICK retry \in BOOLEAN : Fails(w, retry)
  BY DEF Fail
<1>2. \E p \in {"idle", "raise"} : Moves(w, p)
  BY <1>1, GotoMoves DEF Fails, Leave, Threads
<1> QED
  BY <1>1, <1>2 DEF Fails

-----------------------------------------------------------------------------
Busy(w) == pc[w] \in Steps \ {"raise"}

(* A job is started when it is pending, so nobody else is busy with it.    *)
LEMMA BusyStays == IInv /\ [Next]_vars => BusyOK'
<1> SUFFICES ASSUME IInv, [Next]_vars PROVE BusyOK'
  OBVIOUS
<1> USE DEF vars, plane, rows
<1>0. /\ BusyOK /\ TablesOK /\ WorkOK /\ Workers \subseteq Threads
      /\ pc \in [Threads -> Steps \cup {"idle"}]
  BY TypeParts DEF IInv, Threads, ThreadsOK
<1>n. "idle" \notin Steps /\ "fetch" \in Steps \ {"raise"}
  BY DEF Steps
<1>a. ASSUME \A w \in Workers : Busy(w)' =>
                /\ Busy(w) /\ work'[w].job = work[w].job
                /\ jobs'[work[w].job].status = jobs[work[w].job].status
      PROVE  BusyOK'
  BY <1>a, <1>0 DEF BusyOK, Busy
<1>b. ASSUME NEW t \in Threads, NEW p, Moves(t, p), UNCHANGED jobs,
             t \in Workers => \/ Busy(t) /\ work'[t].job = work[t].job
                              \/ p \in {"idle", "raise"}
      PROVE  BusyOK'
  <2> SUFFICES ASSUME NEW w \in Workers, Busy(w)'
               PROVE  Busy(w) /\ work'[w].job = work[w].job
    BY <1>a, <1>b
  <2>1. CASE w = t
    BY <2>1, <1>b, <1>n DEF Moves, Busy
  <2>2. CASE w # t
    BY <2>2, <1>b, <1>0 DEF Moves, Busy
  <2> QED
    BY <2>1, <2>2
(* A job that ends or is given back was in the hand of w alone.            *)
<1>c. ASSUME NEW w \in Workers, NEW p \in {"idle", "raise"}, Moves(w, p), Busy(w),
             NEW status \in {"pending", "running", "completed", "failed"},
             jobs' = [jobs EXCEPT ![work[w].job].status = status]
      PROVE  BusyOK'
  <2> SUFFICES ASSUME NEW v \in Workers, Busy(v)'
               PROVE  /\ Busy(v) /\ work'[v].job = work[v].job
                      /\ jobs'[work[v].job].status = jobs[work[v].job].status
    BY <1>a
  <2>1. v # w
    BY <1>c, <1>n DEF Moves, Busy
  <2>2. pc'[v] = pc[v] /\ work'[v] = work[v]
    BY <2>1, <1>0, <1>c DEF Moves
  <2>3. Busy(v) /\ work[v].job # work[w].job
    BY <2>1, <2>2, <1>0, <1>c DEF Busy, BusyOK
  <2>4. work[v].job \in DOMAIN jobs
    BY <2>3, <1>0, <1>n DEF WorkOK, Busy
  <2> QED
    BY <2>2, <2>3, <2>4, <1>0, <1>c, JobStep
<1>1. CASE \/ UNCHANGED vars \/ Submit \/ \E r \in Recordings : Change(r)
  <2>1. UNCHANGED <<jobs, pc, work>>
    BY <1>1 DEF Submit, Change
  <2> QED
    BY <2>1, <1>a DEF Busy
<1>2. CASE \E r \in Recordings : Enqueue(r)
  <2>1. PICK r \in Recordings : Enqueue(r)
    BY <1>2
  <2>2. \A k \in DOMAIN jobs : jobs'[k] = jobs[k]
    <3>1. CASE UNCHANGED jobs
      BY <3>1
    <3>2. CASE jobs' = Append(jobs, [recording |-> r, status |-> "pending",
                                     attempts |-> 0])
      BY <3>2, <1>0 DEF TablesOK
    <3> QED
      BY <2>1, <3>1, <3>2 DEF Enqueue
  <2>3. UNCHANGED <<pc, work>>
    BY <2>1 DEF Enqueue
  <2>4. \A w \in Workers : Busy(w) => work[w].job \in DOMAIN jobs
    BY <1>0, <1>n DEF WorkOK, Busy
  <2> QED
    BY <2>2, <2>3, <2>4, <1>a DEF Busy
<1>3. CASE \E w \in Workers : Start(w)
  <2>1. PICK w \in Workers : Start(w)
    BY <1>3
  <2>2. PICK j \in DOMAIN jobs, n \in 0..MaxRetries :
              \/ UNCHANGED <<jobs, work, pc>>
              \/ /\ jobs[j].status = "pending" /\ jobs'[j].status = "running"
                 /\ \A k \in DOMAIN jobs \ {j} : jobs'[k] = jobs[k]
                 /\ work' = [work EXCEPT ![w] = Started(j, n, jobs[j].recording)]
                 /\ Goto(w, "fetch")
    BY <2>1, <1>0, StartStep
  <2>3. CASE UNCHANGED <<jobs, work, pc>>
    BY <2>3, <1>a DEF Busy
  <2>4. CASE /\ jobs[j].status = "pending" /\ jobs'[j].status = "running"
             /\ \A k \in DOMAIN jobs \ {j} : jobs'[k] = jobs[k]
             /\ work' = [work EXCEPT ![w] = Started(j, n, jobs[j].recording)]
             /\ Goto(w, "fetch")
    <3>1. Moves(w, "fetch")
      BY <2>4, <1>0, GotoMoves
    <3>2. work'[w].job = j
      BY <2>4, <1>0 DEF WorkOK, Started
    <3>3. ASSUME NEW v \in Workers \ {w}, Busy(v)'
          PROVE  /\ Busy(v) /\ work'[v].job = work[v].job /\ work[v].job # j
                 /\ jobs'[work[v].job].status = "running"
      <4>1. pc'[v] = pc[v] /\ work'[v] = work[v]
        BY <3>1, <1>0 DEF Moves
      <4>2. Busy(v) /\ jobs[work[v].job].status = "running"
        BY <4>1, <3>3, <1>0 DEF Busy, BusyOK
      <4>3. work[v].job \in DOMAIN jobs
        BY <4>2, <1>0, <1>n DEF WorkOK, Busy
      <4> QED
        BY <2>4, <4>1, <4>2, <4>3
    <3>4. \A v \in Workers : Busy(v)' => jobs'[work'[v].job].status = "running"
      BY <2>4, <3>2, <3>3
    <3>5. \A u, v \in Workers : Busy(u)' /\ Busy(v)' /\ work'[u].job = work'[v].job
                                => u = v
      BY <3>2, <3>3, <1>0 DEF BusyOK, Busy
    <3> QED
      BY <3>4, <3>5 DEF BusyOK, Busy
  <2> QED
    BY <2>2, <2>3, <2>4
<1>4. CASE \E w \in Workers : Fetch(w)
  <2>1. PICK w \in Workers : Fetch(w)
    BY <1>4
  <2>2. /\ work[w] \in Work /\ work[w].recording \in Recordings /\ Busy(w)
        /\ revision[work[w].recording] > 0 /\ Goto(w, "lookup") /\ UNCHANGED jobs
        /\ work' = [work EXCEPT ![w] = Holding(work[w], work[w].recording)]
    BY <2>1, <1>0 DEF Fetch, IInv, TypeOK, Work, Busy, Steps
  <2>3. Moves(w, "lookup") /\ work'[w].job = work[w].job
    BY <2>2, <1>0, FetchEffect
  <2> QED
    BY <2>2, <2>3, <1>0, <1>b
<1>5. CASE \E w \in Workers, b, i \in BOOLEAN : FetchFails(w, b, i)
  <2>1. PICK w \in Workers, b \in BOOLEAN, i \in BOOLEAN : FetchFails(w, b, i)
    BY <1>5
  <2>2. /\ Moves(w, "fail") /\ work'[w].job = work[w].job /\ Busy(w)
        /\ UNCHANGED jobs
    BY <2>1, <1>0, NotBoth, GiveUpMoves DEF FetchFails, Busy, Steps
  <2> QED
    BY <2>2, <1>0, <1>b
<1>6. CASE \E c \in Clients, r \in Recordings : Request(c, r)
  <2>1. PICK c \in Clients, r \in Recordings : Request(c, r)
    BY <1>6
  <2>2. Moves(c, "lookup") /\ UNCHANGED jobs /\ c \in Threads /\ c \notin Workers
    BY <2>1, GotoMoves, NotBoth DEF Request, Threads
  <2> QED
    BY <2>2, <1>b
<1>7. CASE \E t \in Threads : Reconciliation(t)
  <2>1. PICK t \in Threads : Reconciliation(t)
    BY <1>7
  <2>2. Busy(t)
    BY <2>1 DEF Reconciliation, Lookup, Store, Advance, CallFails, Busy, Steps
  <2>3. CASE Lookup(t)
    BY <2>2, <2>3, <1>b, LookupEffect DEF SameFetch
  <2>4. CASE Store(t)
    BY <2>2, <2>4, <1>b, StoreEffect, NotBoth DEF SameFetch
  <2>5. CASE Advance(t)
    BY <2>2, <2>5, <1>b, AdvanceEffect, NotBoth
  <2>6. CASE CallFails(t)
    BY <2>2, <2>6, <1>b, CallFailsEffect, NotBoth
  <2> QED
    BY <2>1, <2>3, <2>4, <2>5, <2>6 DEF Reconciliation
<1>8. CASE \E w \in Workers : Complete(w)
  <2>1. PICK w \in Workers : Complete(w)
    BY <1>8
  <2>2. Moves(w, "idle") /\ Busy(w)
    BY <2>1, <1>0, GotoMoves DEF Complete, Leave, Busy, Steps
  <2> QED
    BY <2>1, <2>2, <1>c DEF Complete
<1>9. CASE \E w \in Workers : Fail(w)
  <2>1. PICK w \in Workers : Fail(w)
    BY <1>9
  <2>2. Busy(w)
    BY <2>1, FailEffect DEF Busy, Steps
  <2> QED
    BY ZenonT(60), <2>1, <2>2, <1>c, FailEffect
<1>10. CASE \E w \in Workers : Raise(w)
  <2>1. PICK w \in Workers : Raise(w)
    BY <1>10
  <2>2. Moves(w, "idle") /\ UNCHANGED jobs
    BY <2>1, <1>0, GotoMoves DEF Raise, Leave
  <2> QED
    BY <2>2, <1>0, <1>b
<1>12. CASE \E w \in Workers : StartFails(w) \/ EndFails(w)
  BY <1>12, <1>0, <1>b, FaultEffect
<1>11. CASE Crash
  <2>1. \A w \in Workers : ~Busy(w)'
    BY <1>11, <1>0, <1>n DEF Crash, Busy
  <2> QED
    BY <2>1, <1>a
<1> QED
  BY <1>1, <1>2, <1>3, <1>4, <1>5, <1>6, <1>7, <1>8, <1>9, <1>10, <1>11, <1>12
  DEF Next, Worker, Threads

(* Jobs keep their recording, and only Enqueue adds an active one.         *)
LEMMA ActiveStays == IInv /\ [Next]_vars => ActiveOK'
<1> SUFFICES ASSUME IInv, [Next]_vars PROVE ActiveOK'
  OBVIOUS
<1> USE DEF vars, plane, rows
<1>0. ActiveOK /\ BusyOK /\ TablesOK /\ WorkOK /\ Workers \subseteq Threads
  BY TypeParts DEF IInv, Threads
<1>a. ASSUME DOMAIN jobs' = DOMAIN jobs,
             \A k \in DOMAIN jobs :
                /\ jobs'[k].recording = jobs[k].recording
                /\ jobs'[k].status \in Active => jobs[k].status \in Active
      PROVE  ActiveOK'
  BY <1>a, <1>0 DEF ActiveOK
<1>b. ASSUME NEW w \in Workers, pc[w] \in Steps \ {"raise"},
             NEW status \in {"pending", "running", "completed", "failed"},
             jobs' = [jobs EXCEPT ![work[w].job].status = status]
      PROVE  ActiveOK'
  <2>1. jobs[work[w].job].status \in Active
    BY <1>0, <1>b DEF BusyOK, Active
  <2>2. /\ DOMAIN jobs' = DOMAIN jobs
        /\ \A k \in DOMAIN jobs : jobs'[k].recording = jobs[k].recording
        /\ \A k \in DOMAIN jobs \ {work[w].job} : jobs'[k] = jobs[k]
    BY <1>0, <1>b, JobStep
  <2>3. PICK j : j = work[w].job
    OBVIOUS
  <2> QED
    BY <2>1, <2>2, <2>3, <1>a
<1>1. CASE UNCHANGED jobs
  BY <1>1, <1>a
<1>2. CASE \E r \in Recordings : Enqueue(r)
  <2> SUFFICES ASSUME ~UNCHANGED jobs PROVE ActiveOK'
    BY <1>1
  <2>1. PICK r \in Recordings : Enqueue(r)
    BY <1>2
  <2>2. /\ ActiveJobs(r) = {}
        /\ jobs' = Append(jobs, [recording |-> r, status |-> "pending",
                                 attempts |-> 0])
    BY <2>1 DEF Enqueue
  <2>3. /\ DOMAIN jobs' = DOMAIN jobs \cup {Len(jobs) + 1}
        /\ \A k \in DOMAIN jobs : jobs'[k] = jobs[k]
        /\ jobs'[Len(jobs) + 1].recording = r
    BY <2>2, <1>0 DEF TablesOK
  <2>4. \A k \in DOMAIN jobs : jobs[k].status \in Active => jobs[k].recording # r
    BY <2>2 DEF ActiveJobs
  <2> QED
    BY <2>3, <2>4, <1>0 DEF ActiveOK
<1>3. CASE \E w \in Workers : Start(w)
  <2>1. PICK w \in Workers : Start(w)
    BY <1>3
  <2>2. PICK j \in DOMAIN jobs :
              \/ UNCHANGED jobs
              \/ /\ jobs[j].status = "pending"
                 /\ DOMAIN jobs' = DOMAIN jobs
                 /\ \A k \in DOMAIN jobs : jobs'[k].recording = jobs[k].recording
                 /\ \A k \in DOMAIN jobs \ {j} : jobs'[k] = jobs[k]
    BY <2>1, <1>0, StartStep
  <2> QED
    BY <2>2, <1>a DEF Active
<1>4. CASE \E w \in Workers : Complete(w)
  BY <1>4, <1>b DEF Complete, Steps
<1>5. CASE \E w \in Workers : Fail(w)
  BY <1>5, <1>b, FailEffect DEF Steps
<1>6. CASE Crash
  <2>1. \A k \in DOMAIN jobs : jobs[k] \in Job
    BY <1>0 DEF TablesOK
  <2>2. jobs' = [j \in DOMAIN jobs |->
                   IF jobs[j].status = "running"
                   THEN [jobs[j] EXCEPT !.status = "pending"] ELSE jobs[j]]
    BY <1>6 DEF Crash, Recovered
  <2>3. \A k \in DOMAIN jobs : /\ jobs'[k].recording = jobs[k].recording
                               /\ jobs'[k].status \in Active => jobs[k].status \in Active
    BY <2>1, <2>2 DEF Job, Active
  <2> QED
    BY <2>2, <2>3, <1>a
<1>7. CASE \/ UNCHANGED vars \/ Submit \/ (\E r \in Recordings : Change(r))
           \/ (\E w \in Workers : Fetch(w) \/ Raise(w) \/ StartFails(w)
                                   \/ EndFails(w))
           \/ (\E w \in Workers, b, i \in BOOLEAN : FetchFails(w, b, i))
           \/ (\E c \in Clients, r \in Recordings : Request(c, r))
           \/ \E t \in Threads : Reconciliation(t)
  <2>1. UNCHANGED jobs
    BY <1>7 DEF Submit, Change, Fetch, Raise, FetchFails, Request, Reconciliation,
                Lookup, Store, Advance, CallFails, StartFails, EndFails
  <2> QED
    BY <2>1, <1>1
<1> QED
  BY <1>2, <1>3, <1>4, <1>5, <1>6, <1>7 DEF Next, Worker, Threads

-----------------------------------------------------------------------------
(* What is fetched is as new as what is current then; the provider's       *)
(* revisions and the observations only grow.                               *)
Fetching(t) == pc[t] \in {"lookup", "store", "advance"}

LEMMA HoldsStays == IInv /\ [Next]_vars => HoldsOK'
<1> SUFFICES ASSUME IInv, [Next]_vars PROVE HoldsOK'
  OBVIOUS
<1> USE DEF vars, plane, rows
<1>0. /\ HoldsOK /\ CurrentOK /\ TablesOK /\ ThreadsOK /\ Workers \subseteq Threads
      /\ Clients \subseteq Threads
  BY TypeParts DEF IInv, Threads
<1>a. /\ \A r \in Recordings : revision'[r] >= revision[r] /\ revision'[r] \in Nat
      /\ ingested \subseteq ingested'
  <2>1. CASE \E r \in Recordings : Change(r)
    BY <2>1, <1>0, ReconcileAssumption DEF Change, TablesOK
  <2>2. CASE UNCHANGED revision
    <3>1. \A r \in Recordings : revision[r] \in Nat
      BY <1>0, ReconcileAssumption DEF TablesOK
    <3>2. ingested \subseteq ingested'
      BY DEF Next, Change, Enqueue, Submit, Worker, Start, Fetch, FetchFails,
             Reconciliation, Lookup, Store, Advance, CallFails, Complete, Fail, Fails,
             Raise, StartFails, EndFails, Request, Crash, LeftUndone
    <3> QED
      BY <2>2, <3>1, <3>2
  <2>3. UNCHANGED revision \/ \E r \in Recordings : Change(r)
    BY DEF Next, Enqueue, Submit, Worker, Start, Fetch, FetchFails, Reconciliation,
           Lookup, Store, Advance, CallFails, Complete, Fail, Fails, Raise, StartFails,
           EndFails, Request, Crash
  <2> QED
    BY <2>1, <2>2, <2>3
<1>b. ASSUME NEW t \in Threads, Fetching(t)
      PROVE  /\ work[t].recording \in Recordings /\ work[t].base \in Nat
             /\ work[t].revision \in 1..revision[work[t].recording]
             /\ work[t].base <= work[t].revision
             /\ revision[work[t].recording] \in Nat
  BY <1>0, <1>b, ReconcileAssumption
  DEF HoldsOK, ThreadsOK, TablesOK, Work, Fetching
(* A thread that goes on with what it has fetched.                         *)
<1>c. ASSUME NEW t \in Threads, Fetching(t), SameFetch(t)
      PROVE  /\ work'[t].revision \in 1..revision'[work'[t].recording]
             /\ work'[t].base <= work'[t].revision
             /\ Fetched(t)' = Fetched(t)
  BY <1>a, <1>b, <1>c DEF SameFetch, Fetched
<1>d. ASSUME \A t \in Threads : Fetching(t)' =>
                /\ Fetching(t) /\ SameFetch(t)
                /\ pc'[t] = "advance" => pc[t] = "advance" \/ Fetched(t) \in ingested'
      PROVE  HoldsOK'
  <2> SUFFICES ASSUME NEW t \in Threads, Fetching(t)'
               PROVE  /\ work'[t].revision \in 1..revision'[work'[t].recording]
                      /\ work'[t].base <= work'[t].revision
                      /\ pc'[t] = "advance" => Fetched(t)' \in ingested'
    BY DEF HoldsOK, Fetching
  <2>1. Fetching(t) /\ SameFetch(t)
    BY <1>d
  <2>2. pc[t] = "advance" => Fetched(t) \in ingested'
    BY <1>0, <1>a DEF HoldsOK
  <2> QED
    BY <1>c, <1>d, <2>1, <2>2
<1>e. ASSUME NEW t \in Threads, NEW p, Moves(t, p),
             \/ p \notin {"lookup", "store", "advance"}
             \/ /\ Fetching(t) /\ SameFetch(t)
                /\ p = "advance" => Fetched(t) \in ingested'
      PROVE  HoldsOK'
  <2> SUFFICES ASSUME NEW u \in Threads, Fetching(u)'
               PROVE  /\ Fetching(u) /\ SameFetch(u)
                      /\ pc'[u] = "advance" =>
                            pc[u] = "advance" \/ Fetched(u) \in ingested'
    BY <1>d
  <2>1. CASE u = t
    BY <2>1, <1>e DEF Moves, Fetching
  <2>2. CASE u # t
    BY <2>2, <1>e DEF Moves, Fetching, SameFetch
  <2> QED
    BY <2>1, <2>2
(* A thread that has just fetched.                                         *)
<1>f. ASSUME NEW t \in Threads, NEW r \in Recordings, Moves(t, "lookup"),
             revision[r] > 0, UNCHANGED revision,
             work'[t].recording = r, work'[t].revision = revision[r],
             work'[t].base = current[r]
      PROVE  HoldsOK'
  <2> SUFFICES ASSUME NEW u \in Threads, Fetching(u)'
               PROVE  /\ work'[u].revision \in 1..revision'[work'[u].recording]
                      /\ work'[u].base <= work'[u].revision
                      /\ pc'[u] = "advance" => Fetched(u)' \in ingested'
    BY DEF HoldsOK, Fetching
  <2>1. CASE u = t
    <3>1. revision[r] \in Nat /\ current[r] <= revision[r] /\ pc'[u] = "lookup"
      BY <2>1, <1>f, <1>0, <1>a DEF CurrentOK, Moves
    <3> QED
      BY <3>1, <2>1, <1>f
  <2>2. CASE u # t
    <3>1. pc'[u] = pc[u] /\ work'[u] = work[u]
      BY <2>2, <1>f DEF Moves
    <3>2. Fetching(u) /\ SameFetch(u)
      BY <3>1 DEF Fetching, SameFetch
    <3>3. pc[u] = "advance" => Fetched(u) \in ingested'
      BY <1>0, <1>a DEF HoldsOK
    <3> QED
      BY <1>c, <3>1, <3>2, <3>3
  <2> QED
    BY <2>1, <2>2
<1>1. CASE UNCHANGED <<pc, work>>
  BY <1>1, <1>d DEF Fetching, SameFetch
<1>2. CASE \E w \in Workers : Start(w)
  <2>1. PICK w \in Workers : Start(w)
    BY <1>2
  <2>2. PICK j \in DOMAIN jobs, n \in 0..MaxRetries :
              \/ UNCHANGED <<pc, work>>
              \/ /\ work' = [work EXCEPT ![w] = Started(j, n, jobs[j].recording)]
                 /\ Goto(w, "fetch")
    BY <2>1, <1>0, StartStep
  <2>3. CASE /\ work' = [work EXCEPT ![w] = Started(j, n, jobs[j].recording)]
             /\ Goto(w, "fetch")
    BY <2>3, <1>0, <1>e, GotoMoves
  <2> QED
    BY <2>2, <2>3, <1>1
<1>3. CASE \E w \in Workers : Fetch(w)
  <2>1. PICK w \in Workers : Fetch(w)
    BY <1>3
  <2>2. /\ work[w] \in Work /\ work[w].recording \in Recordings
        /\ revision[work[w].recording] > 0 /\ Goto(w, "lookup") /\ UNCHANGED revision
        /\ work' = [work EXCEPT ![w] = Holding(work[w], work[w].recording)]
    BY <2>1, <1>0 DEF Fetch, ThreadsOK, Work
  <2> QED
    BY <2>2, <1>0, <1>f, FetchEffect
<1>4. CASE \E c \in Clients, r \in Recordings : Request(c, r)
  <2>1. PICK c \in Clients, r \in Recordings : Request(c, r)
    BY <1>4
  <2>2. Started(0, 0, r) \in Work /\ Started(0, 0, r).recording = r
    BY ReconcileAssumption, StartedIsWork DEF IInv, Started
  <2>3. /\ revision[r] > 0 /\ Goto(c, "lookup") /\ UNCHANGED revision
        /\ work' = [work EXCEPT ![c] = Holding(Started(0, 0, r), r)]
    BY <2>1 DEF Request
  <2> QED
    BY ZenonT(60), <2>2, <2>3, <1>0, <1>f, FetchEffect
<1>5. CASE \E t \in Threads : Reconciliation(t)
  <2>1. PICK t \in Threads : Reconciliation(t)
    BY <1>5
  <2>2. Fetching(t)
    BY <2>1 DEF Reconciliation, Lookup, Store, Advance, CallFails, Fetching
  <2>3. CASE Lookup(t)
    BY <2>2, <2>3, <1>e, LookupEffect
  <2>4. CASE Store(t)
    BY <2>2, <2>4, <1>e, StoreEffect
  <2>5. CASE Advance(t)
    BY <2>5, <1>e, AdvanceEffect
  <2>6. CASE CallFails(t)
    BY <2>6, <1>e, CallFailsEffect
  <2> QED
    BY <2>1, <2>3, <2>4, <2>5, <2>6 DEF Reconciliation
<1>6. CASE \E w \in Workers : Complete(w) \/ Fail(w) \/ Raise(w)
                              \/ \E b, i \in BOOLEAN : FetchFails(w, b, i)
  <2>1. PICK w \in Workers : Complete(w) \/ Fail(w) \/ Raise(w)
                              \/ \E b, i \in BOOLEAN : FetchFails(w, b, i)
    BY <1>6
  <2>2. Complete(w) \/ Raise(w) => Moves(w, "idle")
    BY <1>0, GotoMoves DEF Complete, Raise, Leave
  <2>3. Fail(w) => \E p \in {"idle", "raise"} : Moves(w, p)
    BY FailEffect
  <2>4. (\E b, i \in BOOLEAN : FetchFails(w, b, i)) => Moves(w, "fail")
    BY <1>0, GiveUpMoves, NotBoth DEF FetchFails
  <2>5. PICK p \in {"idle", "raise", "fail"} : Moves(w, p)
    BY <2>1, <2>2, <2>3, <2>4
  <2> QED
    BY <2>5, <1>0, <1>e
<1>9. CASE \E w \in Workers : StartFails(w) \/ EndFails(w)
  BY <1>9, <1>0, <1>e, FaultEffect
<1>7. CASE Crash
  BY <1>7, <1>d DEF Crash, Fetching
<1>8. CASE \/ UNCHANGED vars \/ Submit
           \/ \E r \in Recordings : Change(r) \/ Enqueue(r)
  BY <1>8, <1>1 DEF Submit, Change, Enqueue
<1> QED
  BY <1>2, <1>3, <1>4, <1>5, <1>6, <1>7, <1>8, <1>9 DEF Next, Worker, Threads

(* A revision that is made current by a reconciliation that nobody has     *)
(* overtaken is not older than the one it retires.                         *)
LEMMA CurrentStays == IInv /\ [Next]_vars => CurrentOK'
<1> SUFFICES ASSUME IInv, [Next]_vars PROVE CurrentOK'
  OBVIOUS
<1> USE DEF vars, plane, rows
<1>0. /\ HoldsOK /\ CurrentOK /\ TablesOK /\ ThreadsOK
  BY TypeParts DEF IInv
<1>c. MaxRevision \in Nat
  BY ReconcileAssumption
<1>1. CASE /\ UNCHANGED <<revision, current, retired, overtaken, cut>>
           /\ ingested \subseteq ingested'
  BY <1>1, <1>0 DEF CurrentOK, IsCut
(* What is left undone may have retired the current row, and is cut then.  *)
<1>h. ASSUME UNCHANGED <<revision, ingested, current, overtaken>>, NEW S \in SUBSET Threads,
             cut' = cut \cup UNION {Undone(t) : t \in S},
             NEW u \in S, retired' \in {retired, retired \cup Half(u)}
      PROVE  CurrentOK'
  <2> SUFFICES ASSUME NEW r \in Recordings, r \notin overtaken, NEW v \in 1..MaxRevision,
                      <<r, v>> \in retired'
               PROVE  v < current[r] \/ (v = current[r] /\ IsCut(r)')
    BY <1>h, <1>0 DEF CurrentOK
  <2>1. cut \subseteq cut' /\ Undone(u) \subseteq cut'
    BY <1>h
  <2>2. CASE <<r, v>> \in retired
    BY <2>1, <2>2, <1>0 DEF CurrentOK, IsCut
  <2>3. CASE <<r, v>> \in Half(u)
    <3>1. /\ Undone(u) = {Fetched(u)} /\ Fetched(u)[1] = r /\ v = current[r]
          /\ Fetched(u) \in Revisions
      BY <2>3, <1>h, LeftBehind
    <3>2. PICK x \in 1..MaxRevision : Fetched(u) = <<r, x>>
      BY <3>1 DEF Revisions
    <3> QED
      BY <2>1, <3>1, <3>2 DEF IsCut
  <2> QED
    BY <1>h, <2>2, <2>3
<1>6. CASE \E t \in Threads : CallFails(t)
  <2>1. PICK t \in Threads : CallFails(t)
    BY <1>6
  <2>2. PICK S \in SUBSET Threads : S = {t}
    OBVIOUS
  <2>3. cut' = cut \cup UNION {Undone(u) : u \in S}
    BY <2>1, <2>2, CallFailsEffect
  <2>4. /\ UNCHANGED <<revision, ingested, current, overtaken>>
        /\ retired' \in {retired, retired \cup Half(t)}
    BY <2>1, CallFailsEffect
  <2> QED
    BY <2>2, <2>3, <2>4, <1>h
<1>7. CASE Crash
  <2>1. /\ cut' = cut \cup UNION {Undone(t) : t \in Threads}
        /\ UNCHANGED <<revision, ingested, current, overtaken>>
        /\ retired' \in {retired} \cup {retired \cup Half(t) : t \in Threads}
    BY <1>7 DEF Crash, LeftUndone
  <2>2. CASE \E u \in Threads : retired' = retired \cup Half(u)
    BY <2>1, <2>2, <1>h
  <2>3. CASE retired' = retired
    BY <2>1, <2>3, <1>0 DEF CurrentOK, IsCut
  <2> QED
    BY <2>1, <2>2, <2>3
<1>2. CASE \E r \in Recordings : Change(r)
  <2>1. PICK r \in Recordings : Change(r)
    BY <1>2
  <2>2. \A q \in Recordings : current[q] \in Nat /\ revision[q] \in Nat
    BY <1>0, <1>c DEF TablesOK
  <2>3. \A q \in Recordings : revision'[q] >= revision[q] /\ revision'[q] \in Nat
    BY <2>1, <2>2, <1>0 DEF Change, TablesOK
  <2>4. UNCHANGED rows /\ \A q \in Recordings : IsCut(q)' <=> IsCut(q)
    BY <2>1 DEF Change, IsCut
  <2>5. \A q \in Recordings : current'[q] <= revision'[q]
    <3> SUFFICES ASSUME NEW q \in Recordings PROVE current[q] <= revision'[q]
      BY <2>4
    <3>1. current[q] <= revision[q] /\ revision[q] <= revision'[q]
      BY <2>2, <2>3, <1>0 DEF CurrentOK
    <3> QED
      BY <2>2, <2>3, <3>1
  <2> QED
    BY <2>4, <2>5, <1>0 DEF CurrentOK
<1>3. CASE \E t \in Threads : Store(t)
  <2>1. PICK t \in Threads : Store(t)
    BY <1>3
  <2>2. /\ UNCHANGED <<revision, current, retired, overtaken, cut>>
        /\ ingested \subseteq ingested'
    BY <2>1, StoreEffect
  <2> QED
    BY <2>2, <1>1
<1>4. CASE \E t \in Threads : Advance(t)
  <2>1. PICK t \in Threads : Advance(t)
    BY <1>4
  <2>2. PICK r \in Recordings :
              /\ r = work[t].recording /\ pc[t] = "advance"
              /\ current' = [current EXCEPT ![r] = work[t].revision]
              /\ retired' = IF current[r] \in {0, work[t].revision} THEN retired
                            ELSE retired \cup {<<r, current[r]>>}
              /\ overtaken' = IF work[t].base # current[r] THEN overtaken \cup {r}
                              ELSE overtaken
              /\ UNCHANGED <<revision, ingested, cut>>
    BY <2>1, AdvanceEffect
  <2>u. \A q \in Recordings : IsCut(q)' <=> IsCut(q)
    BY <2>2 DEF IsCut
  <2>3. /\ work[t].revision \in 1..revision[r] /\ <<r, work[t].revision>> \in ingested
        /\ work[t].base <= work[t].revision /\ work[t].base \in Nat
        /\ revision[r] \in 0..MaxRevision /\ current[r] \in 0..MaxRevision
    BY SMTT(30), <2>2, <1>0, <1>c DEF HoldsOK, Fetched, ThreadsOK, TablesOK, Work
  <2> SUFFICES ASSUME NEW q \in Recordings
               PROVE  /\ current'[q] # 0 => <<q, current'[q]>> \in ingested'
                      /\ current'[q] <= revision'[q]
                      /\ q \notin overtaken' => \A v \in 1..MaxRevision :
                            <<q, v>> \in retired' =>
                               v < current'[q] \/ (v = current'[q] /\ IsCut(q)')
    BY DEF CurrentOK
  <2>4. CASE q # r
    <3>1. current'[q] = current[q]
      BY <2>2, <2>4, <1>0 DEF TablesOK
    <3>2. \A v \in 1..MaxRevision : <<q, v>> \in retired' => <<q, v>> \in retired
      BY <2>2, <2>4
    <3>3. q \in overtaken' <=> q \in overtaken
      BY <2>2, <2>4
    <3> QED
      BY <2>2, <2>u, <3>1, <3>2, <3>3, <1>0 DEF CurrentOK
  <2>5. CASE q = r
    <3>1. current'[r] = work[t].revision
      BY <2>2, <1>0 DEF TablesOK
    <3>2. ASSUME r \notin overtaken', NEW v \in 1..MaxRevision, <<r, v>> \in retired'
          PROVE  v < work[t].revision \/ (v = work[t].revision /\ IsCut(r))
      <4>1. work[t].base = current[r] /\ r \notin overtaken
        BY <2>2, <3>2
      <4>2. CASE <<r, v>> \in retired
        <5>1. v < current[r] \/ (v = current[r] /\ IsCut(r))
          BY <4>1, <4>2, <1>0 DEF CurrentOK
        <5> QED
          BY <5>1, <4>1, <2>3, <1>c
      <4>3. CASE <<r, v>> \notin retired
        <5>1. v = current[r] /\ current[r] # work[t].revision
          BY <4>3, <3>2, <2>2
        <5> QED
          BY <5>1, <4>1, <2>3, <1>c
      <4> QED
        BY <4>2, <4>3
    <3>3. work[t].revision <= revision[r]
      BY <2>3, <1>c
    <3> QED
      BY <2>2, <2>3, <2>5, <2>u, <3>1, <3>2, <3>3
  <2> QED
    BY <2>4, <2>5
<1>5. CASE \/ UNCHANGED vars \/ Submit \/ (\E r \in Recordings : Enqueue(r))
           \/ (\E w \in Workers : Start(w) \/ Fetch(w) \/ Complete(w) \/ Fail(w)
                                  \/ Raise(w) \/ StartFails(w) \/ EndFails(w))
           \/ (\E w \in Workers, b, i \in BOOLEAN : FetchFails(w, b, i))
           \/ (\E c \in Clients, r \in Recordings : Request(c, r))
           \/ \E t \in Threads : Lookup(t)
  <2>1. UNCHANGED <<revision, rows>>
    BY <1>5 DEF Submit, Enqueue, Start, Fetch, Complete, Fail, Fails, Raise,
                StartFails, EndFails, FetchFails, Request, Lookup
  <2> QED
    BY <2>1, <1>1
<1> QED
  BY <1>2, <1>3, <1>4, <1>5, <1>6, <1>7 DEF Next, Worker, Reconciliation, Threads

(* What is stored and not retired is current, or about to be made so by    *)
(* the thread that has stored it, or was left so by one that was cut.      *)
LEMMA ServedStays == IInv /\ [Next]_vars => ServedOK'
<1> SUFFICES ASSUME IInv, [Next]_vars PROVE ServedOK'
  OBVIOUS
<1> USE DEF vars, plane, rows
<1>0. /\ ServedOK /\ HoldsOK /\ TablesOK /\ ThreadsOK /\ WorkOK
      /\ Workers \subseteq Threads /\ Clients \subseteq Threads
      /\ MaxRevision \in Nat
  BY TypeParts, ReconcileAssumption DEF IInv, Threads
(* Enough: nothing new is served, and nobody leaves "advance".             *)
<1>a. ASSUME UNCHANGED rows,
             \A t \in Threads : pc[t] = "advance" =>
                /\ pc'[t] = "advance" /\ work'[t] = work[t]
      PROVE  ServedOK'
  <2>1. \A r \in Recordings : Served(r)' = Served(r)
    BY <1>a DEF Served
  <2> QED
    BY <1>a, <1>0, <2>1 DEF ServedOK
<1>b. ASSUME NEW t \in Threads, NEW p, Moves(t, p), pc[t] # "advance",
             UNCHANGED rows
      PROVE  ServedOK'
  BY <1>a, <1>b DEF Moves
<1>1. CASE UNCHANGED <<rows, pc, work>>
  BY <1>1, <1>a
<1>2. CASE \E w \in Workers : Start(w)
  <2>1. PICK w \in Workers : Start(w)
    BY <1>2
  <2>2. PICK j \in DOMAIN jobs, n \in 0..MaxRetries :
              \/ UNCHANGED <<pc, work>>
              \/ /\ work' = [work EXCEPT ![w] = Started(j, n, jobs[j].recording)]
                 /\ Goto(w, "fetch")
    BY <2>1, <1>0, StartStep
  <2>3. UNCHANGED rows /\ pc[w] # "advance"
    BY <2>1 DEF Start
  <2>4. CASE /\ work' = [work EXCEPT ![w] = Started(j, n, jobs[j].recording)]
             /\ Goto(w, "fetch")
    BY <2>3, <2>4, <1>0, <1>b, GotoMoves
  <2> QED
    BY <2>2, <2>3, <2>4, <1>1
<1>3. CASE \/ (\E w \in Workers : Fetch(w) \/ Complete(w) \/ Raise(w))
           \/ (\E c \in Clients, r \in Recordings : Request(c, r))
  <2>1. PICK t \in Threads : /\ \E p : Goto(t, p)
                             /\ pc[t] # "advance"
                             /\ \E q : work' = [work EXCEPT ![t] = q]
                             /\ UNCHANGED rows
    BY <1>3, <1>0 DEF Fetch, Complete, Raise, Leave, Request
  <2> QED
    BY <2>1, <1>b, GotoMoves
<1>4. CASE \E w \in Workers : Fail(w)
  <2>1. PICK w \in Workers : Fail(w)
    BY <1>4
  <2> QED
    BY <2>1, <1>0, <1>b, FailEffect
<1>5. CASE \E w \in Workers, b, i \in BOOLEAN : FetchFails(w, b, i)
  <2>1. PICK w \in Workers, b \in BOOLEAN, i \in BOOLEAN : FetchFails(w, b, i)
    BY <1>5
  <2>2. pc[w] # "advance" /\ UNCHANGED rows
    BY <2>1 DEF FetchFails
  <2>3. \E p : Moves(w, p)
    BY <2>1, <1>0, GiveUpMoves DEF FetchFails
  <2> QED
    BY <2>2, <2>3, <1>0, <1>b
<1>6. CASE \E t \in Threads : Lookup(t)
  <2>1. PICK t \in Threads : Lookup(t)
    BY <1>6
  <2> QED
    BY <2>1, <1>b, LookupEffect DEF Lookup
(* The observation that is stored belongs to t, which is to advance it.    *)
<1>7. CASE \E t \in Threads : Store(t)
  <2>1. PICK t \in Threads : Store(t)
    BY <1>7
  <2>2. /\ pc[t] = "store"
        /\ UNCHANGED <<current, retired, overtaken, cut>>
    BY <2>1, StoreEffect DEF Store
  <2>3. CASE /\ Moves(t, "advance") /\ SameFetch(t)
             /\ ingested' = ingested \cup {Fetched(t)}
    <3> SUFFICES ASSUME NEW r \in Recordings, NEW v \in 1..MaxRevision,
                        v \in Served(r)'
                 PROVE  \/ v = current[r] \/ <<r, v>> \in cut
                        \/ \E u \in Threads : /\ pc'[u] = "advance"
                                              /\ work'[u].recording = r
                                              /\ work'[u].revision = v
      BY <2>2 DEF ServedOK
    <3>1. CASE <<r, v>> = Fetched(t)
      BY <3>1, <2>3 DEF Moves, SameFetch, Fetched
    <3>2. CASE <<r, v>> # Fetched(t)
      <4>1. v \in Served(r)
        BY <3>2, <2>2, <2>3 DEF Served
      <4>2. CASE v = current[r] \/ <<r, v>> \in cut
        BY <4>2
      <4>3. CASE v # current[r] /\ <<r, v>> \notin cut
        <5>1. PICK u \in Threads : /\ pc[u] = "advance" /\ work[u].recording = r
                                   /\ work[u].revision = v
          BY <4>1, <4>3, <1>0 DEF ServedOK
        <5> QED
          BY <5>1, <2>2, <2>3 DEF Moves
      <4> QED
        BY <4>2, <4>3
    <3> QED
      BY <3>1, <3>2
  <2>4. CASE (\E p : Moves(t, p)) /\ UNCHANGED ingested
    BY <2>2, <2>4, <1>b
  <2> QED
    BY <2>1, <2>3, <2>4, StoreEffect
<1>8. CASE \E t \in Threads : Advance(t)
  <2>1. PICK t \in Threads : Advance(t)
    BY <1>8
  <2>2. PICK r \in Recordings :
              /\ r = work[t].recording /\ pc[t] = "advance"
              /\ current' = [current EXCEPT ![r] = work[t].revision]
              /\ retired' = IF current[r] \in {0, work[t].revision} THEN retired
                            ELSE retired \cup {<<r, current[r]>>}
              /\ (\E p : Moves(t, p))
              /\ UNCHANGED <<ingested, cut>>
    BY <2>1, AdvanceEffect
  <2> SUFFICES ASSUME NEW q \in Recordings, NEW v \in 1..MaxRevision,
                      v \in Served(q)'
               PROVE  \/ v = current'[q] \/ <<q, v>> \in cut
                      \/ \E u \in Threads : /\ pc'[u] = "advance"
                                            /\ work'[u].recording = q
                                            /\ work'[u].revision = v
    BY <2>2 DEF ServedOK
  <2>3. v \in Served(q) /\ v \in 1..MaxRevision /\ <<q, v>> \notin retired'
    BY <2>2 DEF Served
  <2>4. CASE \E u \in Threads : /\ pc[u] = "advance" /\ work[u].recording = q
                                /\ work[u].revision = v
    <3>1. PICK u \in Threads : /\ pc[u] = "advance" /\ work[u].recording = q
                               /\ work[u].revision = v
      BY <2>4
    <3>2. CASE u = t
      BY <3>1, <3>2, <2>2, <1>0 DEF TablesOK
    <3>3. CASE u # t
      BY <3>1, <3>3, <2>2 DEF Moves
    <3> QED
      BY <3>2, <3>3
  <2>5. CASE v = current[q]
    <3>1. CASE q # r
      BY <3>1, <2>2, <2>5, <1>0 DEF TablesOK
    <3>2. CASE q = r
      <4>1. current[r] # 0
        BY <2>3, <2>5, <3>2, <1>0
      <4>2. current[r] = work[t].revision
        BY <4>1, <2>2, <2>3, <2>5, <3>2
      <4> QED
        BY <4>2, <2>2, <2>5, <3>2, <1>0 DEF TablesOK
    <3> QED
      BY <3>1, <3>2
  <2> QED
    BY <2>3, <2>4, <2>5, <1>0 DEF ServedOK
(* A thread that leaves "advance" otherwise is cut.                        *)
<1>c. ASSUME UNCHANGED <<ingested, current>>, retired \subseteq retired',
             cut \subseteq cut',
             \A t \in Threads : pc[t] = "advance" =>
                \/ pc'[t] = "advance" /\ work'[t] = work[t]
                \/ Undone(t) \subseteq cut'
      PROVE  ServedOK'
  <2> SUFFICES ASSUME NEW r \in Recordings, NEW v \in 1..MaxRevision,
                      v \in Served(r)'
               PROVE  \/ v = current[r] \/ <<r, v>> \in cut'
                      \/ \E u \in Threads : /\ pc'[u] = "advance"
                                            /\ work'[u].recording = r
                                            /\ work'[u].revision = v
    BY <1>c DEF ServedOK
  <2>1. v \in Served(r)
    BY <1>c DEF Served
  <2>2. CASE v = current[r] \/ <<r, v>> \in cut
    BY <2>2, <1>c
  <2>3. ASSUME NEW u \in Threads, pc[u] = "advance", work[u].recording = r,
               work[u].revision = v, Undone(u) \subseteq cut'
        PROVE  <<r, v>> \in cut'
    BY <2>3 DEF Undone, Fetched
  <2> QED
    BY <2>1, <2>2, <2>3, <1>c, <1>0 DEF ServedOK
<1>9. CASE Crash
  <2>1. /\ cut' = cut \cup UNION {Undone(t) : t \in Threads}
        /\ UNCHANGED <<ingested, current>> /\ retired \subseteq retired'
    BY <1>9 DEF Crash, LeftUndone
  <2> QED
    BY <2>1, <1>c
<1>11. CASE \E t \in Threads : CallFails(t)
  <2>1. PICK t \in Threads : CallFails(t)
    BY <1>11
  <2> QED
    BY <2>1, <1>c, CallFailsEffect DEF Moves
<1>12. CASE \E w \in Workers : StartFails(w) \/ EndFails(w)
  <2>1. PICK w \in Workers : StartFails(w) \/ EndFails(w)
    BY <1>12
  <2> QED
    BY <2>1, <1>0, <1>b, FaultEffect
<1>10. CASE \/ UNCHANGED vars \/ Submit
            \/ \E r \in Recordings : Change(r) \/ Enqueue(r)
  BY <1>10, <1>1 DEF Submit, Change, Enqueue
<1> QED
  BY <1>2, <1>3, <1>4, <1>5, <1>6, <1>7, <1>8, <1>9, <1>10, <1>11, <1>12
  DEF Next, Worker, Reconciliation, Threads

-----------------------------------------------------------------------------
LEMMA Invariance == Spec => []IInv
<1>1. Init => IInv
  BY InitOK
<1>2. IInv /\ [Next]_vars => IInv'
  BY TypesStay, BusyStays, ActiveStays, HoldsStays, CurrentStays, ServedStays
  DEF IInv
<1> QED
  BY <1>1, <1>2, PTL DEF Spec

(* Jobs, observations, materializations and threads are what TypeOK says.  *)
THEOREM TypeCorrect == Spec => []TypeOK
<1>1. IInv => TypeOK
  BY DEF IInv
<1> QED
  BY <1>1, Invariance, PTL

(* A recording has one job at most that is pending or running.             *)
THEOREM OneActiveJob == Spec => []OneJobPerRecording
<1>1. IInv => OneJobPerRecording
  <2> SUFFICES ASSUME IInv, NEW r \in Recordings
               PROVE  Cardinality(ActiveJobs(r)) <= 1
    BY DEF OneJobPerRecording
  <2>1. \A j, k \in ActiveJobs(r) : j = k
    BY DEF IInv, ActiveOK, ActiveJobs
  <2>2. CASE ActiveJobs(r) = {}
    BY <2>2, FS_EmptySet
  <2>3. CASE ActiveJobs(r) # {}
    <3>1. PICK j : ActiveJobs(r) = {j}
      BY <2>1, <2>3
    <3> QED
      BY <3>1, FS_Singleton
  <2> QED
    BY <2>2, <2>3
<1> QED
  BY <1>1, Invariance, PTL

(* The current materialization is stored and, unless a reconciliation was  *)
(* overtaken, not older than one that is retired; only a reconciliation    *)
(* that was cut retires it without a successor.                            *)
THEOREM CurrentIsNewest == Spec => []CurrentIsLatest
<1>1. IInv => CurrentIsLatest
  BY DEF IInv, CurrentOK, CurrentIsLatest
<1> QED
  BY <1>1, Invariance, PTL

(* Reads serve a materialization that is not current only if a             *)
(* reconciliation of it was cut, by a crash or by a call that raised.      *)
THEOREM OnlyCutsServeStale == Spec => []StaleOnlyIfCut
<1>1. IInv => StaleOnlyIfCut
  BY DEF IInv, ServedOK, StaleOnlyIfCut, Quiet, Served
<1> QED
  BY <1>1, Invariance, PTL

-----------------------------------------------------------------------------
(* A start takes one of the attempts a pending job has left; only a crash  *)
(* gives a job one that its retries would not.                             *)
LEMMA AttemptsStep ==
    IInv /\ AttemptsBounded /\ [Next]_vars => AttemptsBounded'
<1> SUFFICES ASSUME IInv, AttemptsBounded, [Next]_vars PROVE AttemptsBounded'
  OBVIOUS
<1> USE DEF vars, plane, rows
<1>0. /\ BusyOK /\ TablesOK /\ WorkOK /\ Workers \subseteq Threads
      /\ \A j \in DOMAIN jobs : jobs[j] \in Job /\ jobs[j].attempts \in Nat
      /\ crashes \in Nat /\ MaxAttempts \in Nat \ {0}
  <2>1. TablesOK /\ MaxAttempts \in Nat \ {0}
    BY TypeParts, ReconcileAssumption DEF IInv
  <2>2. \A j \in DOMAIN jobs : jobs[j] \in Job
    BY <2>1 DEF TablesOK
  <2>3. \A j \in DOMAIN jobs : jobs[j].attempts \in Nat
    BY <2>2 DEF Job
  <2>4. crashes \in Nat
    BY <2>1, ReconcileAssumption DEF TablesOK
  <2> QED
    BY <2>1, <2>2, <2>3, <2>4 DEF IInv, Threads
<1>1. CASE UNCHANGED <<jobs, crashes>>
  BY <1>1 DEF AttemptsBounded, Pending
(* A busy worker's job changes its status.                                 *)
<1>2. ASSUME NEW w \in Workers, pc[w] \in Steps \ {"raise"}, UNCHANGED crashes,
             NEW status \in {"pending", "completed", "failed"},
             status = "pending" => jobs[work[w].job].attempts < MaxAttempts,
             jobs' = [jobs EXCEPT ![work[w].job].status = status]
      PROVE  AttemptsBounded'
  <2>1. PICK j \in DOMAIN jobs : j = work[w].job
    BY <1>0, <1>2 DEF WorkOK, Steps
  <2>2. /\ DOMAIN jobs' = DOMAIN jobs
        /\ \A k \in DOMAIN jobs : jobs'[k].attempts = jobs[k].attempts
        /\ \A k \in DOMAIN jobs \ {j} : jobs'[k] = jobs[k]
        /\ jobs'[j].status = status
    BY <1>0, <1>2, <2>1, JobStep
  <2>3. \A k \in DOMAIN jobs : jobs'[k].attempts <= MaxAttempts + crashes'
    BY <1>2, <2>2 DEF AttemptsBounded
  <2>4. jobs'[j].status = "pending" => jobs'[j].attempts < MaxAttempts + crashes'
    <3>1. PICK a \in Nat : a = jobs[j].attempts
      BY <1>0
    <3>2. PICK c \in Nat : c = crashes
      BY <1>0
    <3>3. status = "pending" => a < MaxAttempts
      BY <1>2, <2>1, <3>1
    <3>4. status = "pending" => a < MaxAttempts + c
      BY <1>0, <3>1, <3>2, <3>3
    <3> QED
      BY <1>2, <2>2, <3>1, <3>2, <3>4
  <2>5. \A k \in DOMAIN jobs \ {j} :
           jobs'[k].status = "pending" => jobs'[k].attempts < MaxAttempts + crashes'
    BY <1>2, <2>2 DEF AttemptsBounded, Pending
  <2> QED
    BY <2>2, <2>3, <2>4, <2>5 DEF AttemptsBounded, Pending
<1>3. CASE \E r \in Recordings : Enqueue(r)
  <2> SUFFICES ASSUME ~UNCHANGED jobs PROVE AttemptsBounded'
    BY <1>1, <1>3 DEF Enqueue
  <2>1. PICK r \in Recordings : Enqueue(r)
    BY <1>3
  <2>2. /\ jobs' = Append(jobs, [recording |-> r, status |-> "pending",
                                 attempts |-> 0])
        /\ UNCHANGED crashes
    BY <2>1 DEF Enqueue
  <2>3. /\ DOMAIN jobs' = DOMAIN jobs \cup {Len(jobs) + 1}
        /\ \A k \in DOMAIN jobs : jobs'[k] = jobs[k]
        /\ jobs'[Len(jobs) + 1].attempts = 0
    BY <2>2, <1>0 DEF TablesOK
  <2> QED
    BY <2>2, <2>3, <1>0 DEF AttemptsBounded, Pending
<1>4. CASE \E w \in Workers : Start(w)
  <2>1. PICK w \in Workers : Start(w)
    BY <1>4
  <2>2. PICK j \in DOMAIN jobs :
              \/ UNCHANGED jobs
              \/ /\ jobs[j].status = "pending" /\ jobs'[j].status = "running"
                 /\ jobs'[j].attempts = jobs[j].attempts + 1
                 /\ DOMAIN jobs' = DOMAIN jobs
                 /\ \A k \in DOMAIN jobs \ {j} : jobs'[k] = jobs[k]
    BY <2>1, <1>0, StartStep
  <2>3. UNCHANGED crashes
    BY <2>1 DEF Start
  <2>4. CASE UNCHANGED jobs
    BY <1>1, <2>3, <2>4
  <2>5. CASE ~UNCHANGED jobs
    <3>1. jobs[j].attempts < MaxAttempts + crashes
      BY <2>2, <2>5 DEF AttemptsBounded, Pending
    <3>2. jobs'[j].attempts <= MaxAttempts + crashes
      BY <1>0, <2>2, <2>5, <3>1
    <3> QED
      BY <2>2, <2>3, <2>5, <3>2 DEF AttemptsBounded, Pending
  <2> QED
    BY <2>4, <2>5
<1>5. CASE \E w \in Workers : Complete(w)
  BY <1>2, <1>5 DEF Complete, Steps
<1>6. CASE \E w \in Workers : Fail(w)
  <2>1. PICK w \in Workers : Fail(w)
    BY <1>6
  <2>2. PICK retry \in BOOLEAN :
           /\ Fails(w, retry)
           /\ retry => jobs[work[w].job].attempts < MaxAttempts
    BY <2>1 DEF Fail
  <2> QED
    BY <1>2, <2>2 DEF Fails, Steps
<1>7. CASE Crash
  <2>1. /\ crashes' = crashes + 1
        /\ jobs' = [j \in DOMAIN jobs |->
                      IF jobs[j].status = "running"
                      THEN [jobs[j] EXCEPT !.status = "pending"] ELSE jobs[j]]
    BY <1>7 DEF Crash, Recovered
  <2>2. \A k \in DOMAIN jobs : jobs'[k].attempts = jobs[k].attempts
    BY <1>0, <2>1 DEF Job
  <2>3. \A k \in DOMAIN jobs : jobs[k].attempts < MaxAttempts + crashes'
    BY <1>0, <2>1 DEF AttemptsBounded
  <2> QED
    BY <1>0, <2>1, <2>2, <2>3 DEF AttemptsBounded, Pending
<1>8. CASE \/ UNCHANGED vars \/ Submit \/ (\E r \in Recordings : Change(r))
           \/ (\E w \in Workers : Fetch(w) \/ Raise(w) \/ StartFails(w)
                                   \/ EndFails(w))
           \/ (\E w \in Workers, b, i \in BOOLEAN : FetchFails(w, b, i))
           \/ (\E c \in Clients, r \in Recordings : Request(c, r))
           \/ \E t \in Threads : Reconciliation(t)
  <2>1. UNCHANGED <<jobs, crashes>>
    BY <1>8 DEF Submit, Change, Fetch, Raise, FetchFails, Request, Reconciliation,
                Lookup, Store, Advance, CallFails, StartFails, EndFails
  <2> QED
    BY <2>1, <1>1
<1> QED
  BY <1>3, <1>4, <1>5, <1>6, <1>7, <1>8 DEF Next, Worker, Threads

(* Two counters limit a job, in its row and in its task, and recoveries    *)
(* reset the second: it is started at most max_attempts times, and once    *)
(* more for each crash (pocket.py 872-928).                                *)
THEOREM AttemptsAreBounded == Spec => []AttemptsBounded
<1>1. Init => AttemptsBounded
  BY DEF Init, AttemptsBounded
<1> QED
  BY <1>1, Invariance, AttemptsStep, PTL DEF Spec

-----------------------------------------------------------------------------
(* No job is stranded when a start finds room for all of them and the task *)
(* queue does not give up before fail_reconciliation does.                 *)
RoomAndRetries == /\ Cardinality(Recordings) <= RecoverLimit
                  /\ MaxAttempts <= MaxRetries + 1

(* A job that waits to be started, or is started, and of which no call     *)
(* that records it has raised.                                             *)
Waiting(j) == Pending(j) /\ j \notin faulted
Held(j) == Running(j) /\ j \notin faulted

(* A task has been called no more often than its job has been started: one *)
(* that raises over a pending job is called again.                         *)
RetriesOK ==
    /\ \A k \in DOMAIN queue : queue[k][1] \notin faulted
                            => queue[k][2] <= jobs[queue[k][1]].attempts
    /\ \A w \in Workers : pc[w] # "idle" /\ work[w].job \notin faulted
                            => work[w].retries < jobs[work[w].job].attempts
    /\ \A w \in Workers : pc[w] = "raise" /\ Waiting(work[w].job)
                            => work[w].retries < MaxRetries

(* What waits to be started is not running, and a pending job waits once.  *)
WaitsOnce ==
    /\ \A k \in DOMAIN queue : ~Held(queue[k][1])
    /\ \A w \in Workers : pc[w] = "raise" => ~Held(work[w].job)
    /\ submitting # 0 =>
          /\ Waiting(submitting)
          /\ \A k \in DOMAIN queue : queue[k][1] # submitting
          /\ \A w \in Workers : pc[w] = "raise" => work[w].job # submitting
    /\ \A k \in DOMAIN queue : Waiting(queue[k][1]) =>
          /\ \A l \in DOMAIN queue : queue[l][1] = queue[k][1] => l = k
          /\ \A w \in Workers : pc[w] = "raise" => work[w].job # queue[k][1]
    /\ \A v, w \in Workers : /\ pc[v] = "raise" /\ pc[w] = "raise"
                             /\ work[v].job = work[w].job /\ Waiting(work[v].job)
                             => v = w

(* A pending job waits somewhere, and a running one has its worker.        *)
WaitsSomewhere ==
    \A j \in DOMAIN jobs :
       /\ Waiting(j) => \/ submitting = j
                        \/ \E k \in DOMAIN queue : queue[k][1] = j
                        \/ \E w \in Workers : pc[w] = "raise" /\ work[w].job = j
       /\ Held(j) => \E w \in Workers : BusyWith(w, j)

WaitInv == RetriesOK /\ WaitsOnce /\ WaitsSomewhere

LEMMA Shapes ==
    ASSUME IInv
    PROVE  /\ jobs \in Seq(Job) /\ Len(jobs) \in Nat /\ DOMAIN jobs = 1..Len(jobs)
           /\ \A j \in DOMAIN jobs : jobs[j] \in Job /\ jobs[j].attempts \in Nat
           /\ queue \in Seq((1..Len(jobs)) \X (0..MaxRetries)) /\ Len(queue) \in Nat
           /\ DOMAIN queue = 1..Len(queue)
           /\ \A k \in DOMAIN queue : /\ queue[k][1] \in DOMAIN jobs
                                      /\ queue[k][2] \in 0..MaxRetries
           /\ submitting \in 0..Len(jobs)
           /\ \A w \in Workers : pc[w] # "idle" => /\ work[w].job \in DOMAIN jobs
                                                   /\ work[w].retries \in 0..MaxRetries
                                                   /\ work[w] \in Work
           /\ DOMAIN work = Threads /\ Workers \subseteq Threads
           /\ pc \in [Threads -> Steps \cup {"idle"}]
           /\ faulted \subseteq DOMAIN jobs
<1>1. TypeOK /\ WorkOK /\ Workers \subseteq Threads
  BY DEF IInv, Threads
<1>2. jobs \in [1..Len(jobs) -> Job] /\ Len(jobs) \in Nat /\ DOMAIN jobs = 1..Len(jobs)
  BY <1>1 DEF TypeOK
<1>3. \A j \in DOMAIN jobs : jobs[j] \in Job /\ jobs[j].attempts \in Nat
  BY <1>2 DEF Job
<1>4. queue \in [1..Len(queue) -> (1..Len(jobs)) \X (0..MaxRetries)]
      /\ Len(queue) \in Nat /\ DOMAIN queue = 1..Len(queue)
  BY <1>1 DEF TypeOK
<1>5. \A w \in Workers : pc[w] # "idle" => work[w] \in Work /\ work[w].job \in DOMAIN jobs
  BY <1>1 DEF TypeOK, WorkOK
<1>6. \A w \in Workers : pc[w] # "idle" => work[w].retries \in 0..MaxRetries
  BY <1>5 DEF Work
<1>7. \A k \in DOMAIN queue : queue[k] \in (1..Len(jobs)) \X (0..MaxRetries)
  BY <1>4
<1>8. \A k \in DOMAIN queue : queue[k][1] \in DOMAIN jobs /\ queue[k][2] \in 0..MaxRetries
  BY <1>2, <1>7
<1> QED
  BY <1>1, <1>2, <1>3, <1>4, <1>5, <1>6, <1>8 DEF TypeOK, WorkOK

(* Steps that neither take nor give back a task.                           *)
LEMMA TaskKept ==
    ASSUME IInv, WaitInv, UNCHANGED <<jobs, queue, submitting, faulted>>,
           \A w \in Workers :
              /\ pc'[w] = "raise" <=> pc[w] = "raise"
              /\ Busy(w)' <=> Busy(w)
              /\ pc'[w] # "idle" <=> pc[w] # "idle"
              /\ pc[w] # "idle" => /\ work'[w].job = work[w].job
                                   /\ work'[w].retries = work[w].retries
    PROVE  WaitInv'
<1>1. \A w \in Workers, j \in DOMAIN jobs : BusyWith(w, j) => BusyWith(w, j)'
  BY DEF BusyWith, Busy, Steps
<1>2. RetriesOK'
  BY DEF WaitInv, RetriesOK, Waiting, Pending
<1>3. WaitsOnce'
  BY DEF WaitInv, WaitsOnce, Waiting, Pending, Held, Running
<1>4. WaitsSomewhere'
  BY <1>1 DEF WaitInv, WaitsSomewhere, Waiting, Pending, Held, Running
<1> QED
  BY <1>2, <1>3, <1>4 DEF WaitInv

LEMMA ThreadKept ==
    ASSUME IInv, WaitInv, UNCHANGED <<jobs, queue, submitting, faulted>>, NEW t \in Threads, NEW p,
           Moves(t, p),
           t \in Workers => /\ Busy(t) /\ p \in Steps \ {"raise"}
                            /\ work'[t].job = work[t].job
                            /\ work'[t].retries = work[t].retries
    PROVE  WaitInv'
<1>1. Workers \subseteq Threads
  BY DEF Threads
<1>2. ASSUME NEW w \in Workers
      PROVE  /\ pc'[w] = "raise" <=> pc[w] = "raise"
             /\ Busy(w)' <=> Busy(w)
             /\ pc'[w] # "idle" <=> pc[w] # "idle"
             /\ pc[w] # "idle" => /\ work'[w].job = work[w].job
                                  /\ work'[w].retries = work[w].retries
  <2>1. CASE w = t
    BY <2>1 DEF Moves, Busy, Steps
  <2>2. CASE w # t
    BY <1>1, <2>2 DEF Moves, Busy
  <2> QED
    BY <2>1, <2>2
<1> QED
  BY <1>2, TaskKept

(* A step of worker w with a task of job j, whose record has a fault.      *)
LEMMA FaultyStep ==
    ASSUME IInv, WaitInv, NEW w \in Workers, NEW p, Moves(w, p), NEW j,
           faulted' = faulted \cup {j}, submitting' = submitting, submitting # j,
           DOMAIN jobs' = DOMAIN jobs, \A i \in DOMAIN jobs \ {j} : jobs'[i] = jobs[i],
           pc[w] # "idle" => work[w].job = j, p # "idle" => work'[w].job = j, NEW f,
           \A k \in DOMAIN queue' : queue'[k][1] # j =>
              f[k] \in DOMAIN queue /\ queue'[k] = queue[f[k]],
           \A k, l \in DOMAIN queue' : queue'[k][1] # j /\ queue'[l][1] # j
                                       /\ f[k] = f[l] => k = l,
           \A k \in DOMAIN queue : queue[k][1] # j =>
              \E l \in DOMAIN queue' : queue'[l] = queue[k]
    PROVE  WaitInv'
<1>1. /\ \A v \in Workers \ {w} : pc'[v] = pc[v] /\ work'[v] = work[v]
      /\ pc'[w] = p
  BY Shapes DEF Moves
<1>2. /\ \A k \in DOMAIN queue : queue[k][1] \in DOMAIN jobs
      /\ \A v \in Workers : pc[v] # "idle" => work[v].job \in DOMAIN jobs
      /\ submitting # 0 => submitting \in DOMAIN jobs
  BY Shapes
<1>3. \A v \in Workers : pc'[v] # "idle" /\ work'[v].job # j =>
         v # w /\ pc'[v] = pc[v] /\ work'[v] = work[v] /\ work[v].job \in DOMAIN jobs
  BY <1>1, <1>2
<1>4. \A i \in DOMAIN jobs : i # j => /\ Waiting(i)' <=> Waiting(i)
                                     /\ Held(i)' <=> Held(i)
  BY DEF Waiting, Held, Pending, Running
<1>5. ~Waiting(j)' /\ ~Held(j)'
  BY DEF Waiting, Held
<1>6. RetriesOK'
  <2>1. \A k \in DOMAIN queue' : queue'[k][1] \notin faulted'
                                 => queue'[k][2] <= jobs'[queue'[k][1]].attempts
    BY <1>2 DEF WaitInv, RetriesOK
  <2>2. \A v \in Workers : pc'[v] # "idle" /\ work'[v].job \notin faulted'
                           => work'[v].retries < jobs'[work'[v].job].attempts
    BY <1>3 DEF WaitInv, RetriesOK
  <2>3. ASSUME NEW v \in Workers, pc'[v] = "raise", work'[v].job # j,
               Pending(work[v].job)', work'[v].job \notin faulted'
        PROVE  work'[v].retries < MaxRetries
    BY <1>3, <2>3 DEF WaitInv, RetriesOK, Waiting, Pending
  <2> QED
    BY <1>3, <2>1, <2>2, <2>3 DEF RetriesOK, Waiting, Pending
<1>7. WaitsOnce'
  <2>1. /\ \A k \in DOMAIN queue' : ~Held(queue[k][1])'
        /\ \A v \in Workers : pc'[v] = "raise" => ~Held(work[v].job)'
    <3>1. ASSUME NEW k \in DOMAIN queue', queue'[k][1] # j
          PROVE  ~(jobs'[queue'[k][1]].status = "running" /\ queue'[k][1] \notin faulted')
      BY <1>2, <3>1 DEF WaitInv, WaitsOnce, Held, Running
    <3>2. ASSUME NEW v \in Workers, pc'[v] = "raise", work'[v].job # j
          PROVE  ~(jobs'[work'[v].job].status = "running" /\ work'[v].job \notin faulted')
      BY <1>3, <3>2 DEF WaitInv, WaitsOnce, Held, Running
    <3> QED
      BY <3>1, <3>2 DEF Held, Running
  <2>2. submitting' # 0 =>
           /\ Waiting(submitting)'
           /\ \A k \in DOMAIN queue' : queue'[k][1] # submitting'
           /\ \A v \in Workers : pc'[v] = "raise" => work'[v].job # submitting'
    <3> SUFFICES ASSUME submitting # 0
                 PROVE  /\ jobs'[submitting].status = "pending" /\ submitting \notin faulted'
                        /\ \A k \in DOMAIN queue' : queue'[k][1] # submitting
                        /\ \A v \in Workers : pc'[v] = "raise" => work'[v].job # submitting
      BY DEF Waiting, Pending
    <3>1. /\ jobs[submitting].status = "pending" /\ submitting \notin faulted
          /\ \A k \in DOMAIN queue : queue[k][1] # submitting
          /\ \A v \in Workers : pc[v] = "raise" => work[v].job # submitting
      BY DEF WaitInv, WaitsOnce, Waiting, Pending
    <3> QED
      BY <1>2, <1>3, <3>1
  <2>3. ASSUME NEW k \in DOMAIN queue', queue'[k][1] # j,
               jobs'[queue'[k][1]].status = "pending", queue'[k][1] \notin faulted'
        PROVE  /\ \A l \in DOMAIN queue' : queue'[l][1] = queue'[k][1] => l = k
               /\ \A v \in Workers : pc'[v] = "raise" => work'[v].job # queue'[k][1]
    <3>1. /\ f[k] \in DOMAIN queue /\ queue'[k] = queue[f[k]]
          /\ Waiting(queue[f[k]][1])
      BY <1>2, <2>3 DEF Waiting, Pending
    <3>2. /\ \A l \in DOMAIN queue : queue[l][1] = queue[f[k]][1] => l = f[k]
          /\ \A v \in Workers : pc[v] = "raise" => work[v].job # queue[f[k]][1]
      BY <3>1 DEF WaitInv, WaitsOnce
    <3> QED
      BY <1>3, <2>3, <3>1, <3>2
  <2>4. ASSUME NEW u \in Workers, NEW v \in Workers, pc'[u] = "raise", pc'[v] = "raise",
               work'[u].job = work'[v].job, work'[u].job # j,
               jobs'[work'[u].job].status = "pending", work'[u].job \notin faulted'
        PROVE  u = v
    BY <1>3, <2>4 DEF WaitInv, WaitsOnce, Waiting, Pending
  <2>5. \A k \in DOMAIN queue' : Waiting(queue[k][1])' =>
           /\ \A l \in DOMAIN queue' : queue'[l][1] = queue'[k][1] => l = k
           /\ \A v \in Workers : pc'[v] = "raise" => work'[v].job # queue'[k][1]
    BY <2>3 DEF Waiting, Pending
  <2>6. \A u, v \in Workers : /\ pc'[u] = "raise" /\ pc'[v] = "raise"
                               /\ work'[u].job = work'[v].job /\ Waiting(work[u].job)'
                               => u = v
    BY <2>4 DEF Waiting, Pending
  <2> QED
    BY <2>1, <2>2, <2>5, <2>6 DEF WaitsOnce
<1>8. WaitsSomewhere'
  <2>1. ASSUME NEW i \in DOMAIN jobs, i # j, Waiting(i)
        PROVE  \/ submitting = i
               \/ \E k \in DOMAIN queue' : queue'[k][1] = i
               \/ \E v \in Workers : pc'[v] = "raise" /\ work'[v].job = i
    <3>1. \A v \in Workers : pc[v] = "raise" /\ work[v].job = i
                             => pc'[v] = "raise" /\ work'[v].job = i
      BY <1>1, <2>1
    <3>2. \A k \in DOMAIN queue : queue[k][1] = i
                                  => \E l \in DOMAIN queue' : queue'[l][1] = i
      BY <2>1
    <3> QED
      BY <2>1, <3>1, <3>2 DEF WaitInv, WaitsSomewhere
  <2>2. ASSUME NEW i \in DOMAIN jobs, i # j, Held(i)
        PROVE  \E v \in Workers : BusyWith(v, i)'
    <3>1. PICK v \in Workers : BusyWith(v, i)
      BY <2>2 DEF WaitInv, WaitsSomewhere
    <3>2. v # w
      BY <2>2, <3>1 DEF BusyWith, Steps
    <3> QED
      BY <1>1, <3>1, <3>2 DEF BusyWith
  <2> QED
    BY <1>4, <1>5, <2>1, <2>2
    DEF WaitsSomewhere, Waiting, Held, Pending, Running, BusyWith
<1> QED
  BY <1>6, <1>7, <1>8 DEF WaitInv

LEMMA AgainKeeps ==
    ASSUME NEW t
    PROVE  Again(t).job = work[t].job /\ Again(t).retries = work[t].retries
BY DEF Again, Started

LEMMA FetchWaits ==
    ASSUME IInv, WaitInv, NEW w \in Workers,
           Fetch(w) \/ \E b, i \in BOOLEAN : FetchFails(w, b, i)
    PROVE  WaitInv'
<1>1. /\ pc[w] = "fetch" /\ w \notin Clients /\ w \in Threads /\ work[w] \in Work
      /\ UNCHANGED <<jobs, queue, submitting, faulted>> /\ DOMAIN work = Threads
  BY NotBoth, Shapes DEF Fetch, FetchFails, Threads, plane
<1>2. CASE Fetch(w)
  <2>1. work' = [work EXCEPT ![w] = Holding(work[w], work[w].recording)]
    BY <1>2 DEF Fetch
  <2>2. work'[w].job = work[w].job /\ work'[w].retries = work[w].retries
    BY <1>1, <2>1 DEF Holding, Work
  <2>3. Moves(w, "lookup")
    BY <1>1, <1>2, <2>1, GotoMoves DEF Fetch
  <2> QED
    BY <1>1, <2>2, <2>3, ThreadKept DEF Busy, Steps
<1>3. CASE \E b, i \in BOOLEAN : FetchFails(w, b, i)
  <2>1. PICK b \in BOOLEAN, i \in BOOLEAN : GiveUp(w, b, i)
    BY <1>3 DEF FetchFails
  <2>2. work' = [work EXCEPT ![w] = [Again(w) EXCEPT !.retriable = b, !.internal = i]]
    BY <1>1, <2>1 DEF GiveUp
  <2>3. work'[w].job = work[w].job /\ work'[w].retries = work[w].retries
    BY <1>1, <2>2 DEF Again, Started
  <2>4. Moves(w, "fail")
    BY <1>1, <2>1, GiveUpMoves
  <2> QED
    BY <1>1, <2>3, <2>4, ThreadKept DEF Busy, Steps
<1> QED
  BY <1>2, <1>3

LEMMA ReconciliationWaits ==
    ASSUME IInv, WaitInv, NEW t \in Threads, Reconciliation(t)
    PROVE  WaitInv'
<1>1. /\ UNCHANGED <<jobs, queue, submitting, faulted>> /\ DOMAIN work = Threads
      /\ t \in Clients <=> t \notin Workers
      /\ pc[t] \in {"lookup", "store", "advance"}
      /\ t \in Workers => work[t] \in Work
  BY NotBoth, Shapes DEF Reconciliation, Lookup, Store, Advance, CallFails, plane
<1>2. \E p : /\ Moves(t, p)
             /\ t \in Workers => p \in {"store", "advance", "fail", "complete"}
  BY <1>1, LookupEffect, StoreEffect, AdvanceEffect, CallFailsEffect DEF Reconciliation
<1>3. t \in Workers => /\ work'[t].job = work[t].job
                       /\ work'[t].retries = work[t].retries
  <2> SUFFICES ASSUME t \in Workers
               PROVE  work'[t].job = work[t].job /\ work'[t].retries = work[t].retries
    OBVIOUS
  <2>1. CASE Lookup(t)
    <3>1. work'[t] = [work[t] EXCEPT !.known = Fetched(t) \in ingested]
      BY <1>1, <2>1 DEF Lookup
    <3> QED
      BY <1>1, <3>1 DEF Work
  <2>2. CASE Store(t)
    <3>1. CASE work' = [work EXCEPT ![t].known = FALSE]
      <4>1. work'[t] = [work[t] EXCEPT !.known = FALSE]
        BY <1>1, <3>1
      <4> QED
        BY <1>1, <4>1 DEF Work
    <3>2. CASE GiveUp(t, FALSE, TRUE)
      <4>1. work'[t] = [Again(t) EXCEPT !.retriable = FALSE, !.internal = TRUE]
        BY <1>1, <3>2 DEF GiveUp
      <4> QED
        BY <4>1 DEF Again, Started
    <3> QED
      BY <2>2, <3>1, <3>2 DEF Store
  <2>3. CASE Advance(t)
    <3>1. work'[t] = Again(t)
      BY <1>1, <2>3 DEF Advance, Advanced
    <3> QED
      BY <3>1, AgainKeeps
  <2>4. CASE CallFails(t)
    <3>1. work'[t] = [Again(t) EXCEPT !.retriable = FALSE, !.internal = TRUE]
      BY <1>1, <2>4 DEF CallFails, GiveUp
    <3> QED
      BY <3>1 DEF Again, Started
  <2> QED
    BY <2>1, <2>2, <2>3, <2>4 DEF Reconciliation
<1> QED
  BY <1>1, <1>2, <1>3, ThreadKept DEF Busy, Steps

LEMMA RequestWaits ==
    ASSUME IInv, WaitInv, NEW c \in Clients, NEW r \in Recordings, Request(c, r)
    PROVE  WaitInv'
<1>1. c \in Threads /\ c \notin Workers /\ UNCHANGED <<jobs, queue, submitting, faulted>>
  BY NotBoth DEF Request, Threads, plane
<1>2. Moves(c, "lookup")
  BY <1>1, GotoMoves DEF Request
<1> QED
  BY <1>1, <1>2, ThreadKept

(* A new job waits to be submitted; then its task is in the queue.         *)
LEMMA EnqueueWaits ==
    ASSUME IInv, WaitInv, NEW r \in Recordings, Enqueue(r)
    PROVE  WaitInv'
<1>1. UNCHANGED <<queue, pc, work, faulted>> /\ submitting = 0
  BY DEF Enqueue, rows
<1>2. CASE UNCHANGED <<jobs, submitting>>
  BY <1>1, <1>2, TaskKept DEF Busy
<1>3. CASE /\ jobs' = Append(jobs, [recording |-> r, status |-> "pending", attempts |-> 0])
           /\ submitting' = Len(jobs) + 1
  <2>1. /\ DOMAIN jobs' = DOMAIN jobs \cup {Len(jobs) + 1}
        /\ Len(jobs) + 1 \notin DOMAIN jobs
        /\ \A k \in DOMAIN jobs : jobs'[k] = jobs[k]
        /\ jobs'[Len(jobs) + 1].status = "pending"
    BY <1>3, Shapes
  <2>6. Len(jobs) + 1 \notin faulted
    BY <2>1, Shapes
  <2>2. /\ \A k \in DOMAIN queue : queue[k][1] \in DOMAIN jobs
        /\ \A w \in Workers : pc[w] # "idle" => work[w].job \in DOMAIN jobs
    BY Shapes
  <2>3. RetriesOK'
    BY <1>1, <2>1, <2>2, <2>6 DEF WaitInv, RetriesOK, Waiting, Pending
  <2>4. WaitsOnce'
    BY <1>1, <1>3, <2>1, <2>2, <2>6
    DEF WaitInv, WaitsOnce, Waiting, Pending, Held, Running
  <2>5. WaitsSomewhere'
    BY <1>1, <1>3, <2>1, <2>6 DEF WaitInv, WaitsSomewhere, Waiting, Pending, Held, Running, BusyWith
  <2> QED
    BY <2>3, <2>4, <2>5 DEF WaitInv
<1> QED
  BY <1>2, <1>3 DEF Enqueue

(* A task is put at the end of the queue.                                  *)
LEMMA Queued ==
    ASSUME IInv, NEW j \in DOMAIN jobs, NEW n \in 0..MaxRetries,
           queue' = Append(queue, <<j, n>>)
    PROVE  /\ DOMAIN queue' = DOMAIN queue \cup {Len(queue) + 1}
           /\ Len(queue) + 1 \notin DOMAIN queue
           /\ \A k \in DOMAIN queue : queue'[k] = queue[k]
           /\ queue'[Len(queue) + 1][1] = j /\ queue'[Len(queue) + 1][2] = n
BY Shapes

LEMMA SubmitWaits ==
    ASSUME IInv, WaitInv, Submit
    PROVE  WaitInv'
<1>1. /\ submitting # 0 /\ submitting' = 0 /\ queue' = Append(queue, <<submitting, 0>>)
      /\ UNCHANGED <<jobs, pc, work, faulted>>
  BY DEF Submit
<1>2. /\ submitting \in DOMAIN jobs /\ 0 \in 0..MaxRetries
      /\ jobs[submitting].attempts \in Nat
  BY <1>1, Shapes, ReconcileAssumption
<1>3. /\ DOMAIN queue' = DOMAIN queue \cup {Len(queue) + 1}
      /\ Len(queue) + 1 \notin DOMAIN queue
      /\ \A k \in DOMAIN queue : queue'[k] = queue[k]
      /\ queue'[Len(queue) + 1][1] = submitting /\ queue'[Len(queue) + 1][2] = 0
  BY <1>1, <1>2, Queued
<1>4. /\ Waiting(submitting)
      /\ \A k \in DOMAIN queue : queue[k][1] # submitting
      /\ \A w \in Workers : pc[w] = "raise" => work[w].job # submitting
  BY <1>1 DEF WaitInv, WaitsOnce
<1>5. RetriesOK'
  BY <1>1, <1>2, <1>3 DEF WaitInv, RetriesOK, Waiting, Pending
<1>6. WaitsOnce'
  BY <1>1, <1>3, <1>4 DEF WaitInv, WaitsOnce, Waiting, Pending, Held, Running
<1>7. WaitsSomewhere'
  BY <1>1, <1>3 DEF WaitInv, WaitsSomewhere, Waiting, Pending, Held, Running, BusyWith
<1> QED
  BY <1>5, <1>6, <1>7 DEF WaitInv

(* The first task leaves the queue.                                        *)
LEMMA Dequeued ==
    ASSUME IInv, queue # <<>>, queue' = Tail(queue)
    PROVE  /\ 1 \in DOMAIN queue /\ Head(queue) = queue[1]
           /\ \A k \in DOMAIN queue' : /\ k + 1 \in DOMAIN queue \ {1}
                                       /\ queue'[k] = queue[k + 1]
           /\ \A k \in DOMAIN queue \ {1} : /\ k - 1 \in DOMAIN queue'
                                            /\ queue'[k - 1] = queue[k]
           /\ \A k, l \in DOMAIN queue' : k + 1 = l + 1 => k = l
<1>1. queue \in Seq((1..Len(jobs)) \X (0..MaxRetries))
  BY Shapes
<1>2. PICK N : N = Len(queue)
  OBVIOUS
<1>3. N \in Nat /\ N # 0 /\ DOMAIN queue = 1..N
  BY <1>1, <1>2
<1>4. /\ DOMAIN queue' = 1..(N - 1)
      /\ \A k \in 1..(N - 1) : queue'[k] = queue[k + 1]
  BY <1>1, <1>2, <1>3, HeadTailProperties
<1>5. Head(queue) = queue[1]
  BY <1>1
<1>6. ASSUME NEW k \in DOMAIN queue'
      PROVE  k \in Nat /\ k + 1 \in DOMAIN queue \ {1} /\ queue'[k] = queue[k + 1]
  BY <1>3, <1>4
<1>7. ASSUME NEW k \in DOMAIN queue \ {1}
      PROVE  k - 1 \in DOMAIN queue' /\ queue'[k - 1] = queue[k]
  <2>1. k - 1 \in 1..(N - 1) /\ (k - 1) + 1 = k
    BY <1>3
  <2> QED
    BY <1>4, <2>1
<1> QED
  BY <1>3, <1>5, <1>6, <1>7

LEMMA StartWaits ==
    ASSUME IInv, WaitInv, NEW w \in Workers, Start(w)
    PROVE  WaitInv'
<1>1. /\ pc[w] = "idle" /\ queue # <<>> /\ queue' = Tail(queue)
      /\ submitting' = submitting /\ faulted' = faulted
  BY DEF Start, plane
<1>2. /\ 1 \in DOMAIN queue /\ Head(queue) = queue[1]
      /\ \A k \in DOMAIN queue' : k + 1 \in DOMAIN queue \ {1} /\ queue'[k] = queue[k + 1]
      /\ \A k \in DOMAIN queue \ {1} : k - 1 \in DOMAIN queue' /\ queue'[k - 1] = queue[k]
      /\ \A k, l \in DOMAIN queue' : k + 1 = l + 1 => k = l
  BY <1>1, Dequeued
<1>3. PICK j, n : j = queue[1][1] /\ n = queue[1][2]
  OBVIOUS
<1>4. j \in DOMAIN jobs /\ n \in 0..MaxRetries /\ jobs[j] \in Job
  BY <1>2, <1>3, Shapes
<1>5. CASE ~Pending(j)
  <2>1. UNCHANGED <<jobs, pc, work>>
    BY <1>2, <1>3, <1>5 DEF Start, Pending
  <2>2. RetriesOK'
    BY <1>1, <1>2, <2>1 DEF WaitInv, RetriesOK, Waiting, Pending
  <2>3. WaitsOnce'
    BY <1>1, <1>2, <2>1 DEF WaitInv, WaitsOnce, Waiting, Pending, Held, Running
  <2>4. WaitsSomewhere'
    <3>1. ASSUME NEW i \in DOMAIN jobs, Waiting(i)
          PROVE  \/ submitting' = i
                 \/ \E k \in DOMAIN queue' : queue'[k][1] = i
                 \/ \E v \in Workers : pc'[v] = "raise" /\ work'[v].job = i
      <4>1. ASSUME NEW k \in DOMAIN queue, queue[k][1] = i
            PROVE  \E l \in DOMAIN queue' : queue'[l][1] = i
        <5>1. k # 1
          BY <1>3, <1>5, <3>1, <4>1 DEF Waiting
        <5> QED
          BY <1>2, <4>1, <5>1
      <4> QED
        BY <1>1, <2>1, <3>1, <4>1 DEF WaitInv, WaitsSomewhere
    <3> QED
      BY <1>1, <2>1, <3>1
      DEF WaitInv, WaitsSomewhere, Waiting, Pending, Held, Running, BusyWith
  <2> QED
    BY <2>2, <2>3, <2>4 DEF WaitInv
<1>7. ASSUME Pending(j)
      PROVE  /\ Moves(w, "fetch") /\ work'[w].job = j /\ work'[w].retries = n
             /\ Workers \subseteq Threads
             /\ DOMAIN jobs' = DOMAIN jobs /\ jobs'[j].status = "running"
             /\ jobs'[j].attempts = jobs[j].attempts + 1 /\ jobs[j].attempts \in Nat
             /\ \A i \in DOMAIN jobs \ {j} : jobs'[i] = jobs[i]
  <2>1. /\ jobs' = [jobs EXCEPT ![j] = [jobs[j] EXCEPT !.status = "running",
                                                       !.attempts = @ + 1]]
        /\ work' = [work EXCEPT ![w] = Started(j, n, jobs[j].recording)]
        /\ Goto(w, "fetch")
    BY <1>2, <1>3, <1>7 DEF Start, Pending
  <2>2. /\ Moves(w, "fetch") /\ work'[w].job = j /\ work'[w].retries = n
        /\ Workers \subseteq Threads
    BY <2>1, GotoMoves, Shapes DEF Started, Threads
  <2> QED
    BY <1>4, <2>1, <2>2, Shapes DEF Job
<1>8. CASE Pending(j) /\ j \in faulted
  <2>0. PICK f : f = [k \in DOMAIN queue' |-> k + 1]
    OBVIOUS
  <2>1. submitting # j
    <3>1. j # 0
      BY <1>4, Shapes
    <3> QED
      BY <1>8, <3>1 DEF WaitInv, WaitsOnce, Waiting
  <2>2. \A k \in DOMAIN queue' : queue'[k][1] # j =>
           f[k] \in DOMAIN queue /\ queue'[k] = queue[f[k]]
    BY <1>2, <2>0
  <2>3. \A k, l \in DOMAIN queue' : queue'[k][1] # j /\ queue'[l][1] # j
                                    /\ f[k] = f[l] => k = l
    BY <1>2, <2>0
  <2>4. \A k \in DOMAIN queue : queue[k][1] # j =>
           \E l \in DOMAIN queue' : queue'[l] = queue[k]
    BY <1>2, <1>3
  <2>5. /\ faulted' = faulted \cup {j} /\ submitting' = submitting
        /\ DOMAIN jobs' = DOMAIN jobs
        /\ \A i \in DOMAIN jobs \ {j} : jobs'[i] = jobs[i]
        /\ Moves(w, "fetch")
    BY <1>1, <1>7, <1>8
  <2>6. /\ pc[w] # "idle" => work[w].job = j
        /\ "fetch" # "idle" => work'[w].job = j
    BY <1>1, <1>7, <1>8
  <2> QED
    BY <2>1, <2>2, <2>3, <2>4, <2>5, <2>6, FaultyStep
<1>6. CASE Waiting(j)
  <2>2. /\ Moves(w, "fetch") /\ work'[w].job = j /\ work'[w].retries = n
        /\ Workers \subseteq Threads
    BY <1>6, <1>7 DEF Waiting
  <2>3. /\ DOMAIN jobs' = DOMAIN jobs /\ jobs'[j].status = "running"
        /\ jobs'[j].attempts = jobs[j].attempts + 1 /\ jobs[j].attempts \in Nat
        /\ \A i \in DOMAIN jobs \ {j} : jobs'[i] = jobs[i]
    BY <1>6, <1>7 DEF Waiting
  <2>4. /\ \A v \in Workers \ {w} : pc'[v] = pc[v] /\ work'[v] = work[v]
        /\ pc'[w] = "fetch"
    BY <2>2 DEF Moves
  <2>5. /\ \A k \in DOMAIN queue' : queue'[k][1] # j
        /\ \A v \in Workers : pc[v] = "raise" => work[v].job # j
        /\ submitting # j
    <3>1. \A k \in DOMAIN queue : queue[k][1] = j => k = 1
      BY <1>2, <1>3, <1>6 DEF WaitInv, WaitsOnce
    <3>2. \A v \in Workers : pc[v] = "raise" => work[v].job # j
      BY <1>2, <1>3, <1>6 DEF WaitInv, WaitsOnce
    <3>3. submitting # j
      <4>1. j # 0
        BY <1>4, Shapes
      <4> QED
        BY <1>2, <1>3, <4>1 DEF WaitInv, WaitsOnce
    <3> QED
      BY <1>2, <3>1, <3>2, <3>3
  <2>6. /\ \A k \in DOMAIN queue : queue[k][1] \in DOMAIN jobs
        /\ \A v \in Workers : pc[v] # "idle" => work[v].job \in DOMAIN jobs
        /\ submitting # 0 => submitting \in DOMAIN jobs
    BY Shapes
  <2>7. RetriesOK'
    <3>1. \A k \in DOMAIN queue' : queue'[k][1] \notin faulted
                                   => queue'[k][2] <= jobs'[queue'[k][1]].attempts
      BY <1>2, <2>3, <2>5, <2>6 DEF WaitInv, RetriesOK
    <3>2. ASSUME NEW v \in Workers, v # w
          PROVE  /\ pc'[v] # "idle" /\ work'[v].job \notin faulted
                      => work'[v].retries < jobs'[work'[v].job].attempts
                 /\ /\ pc'[v] = "raise" /\ jobs'[work'[v].job].status = "pending"
                    /\ work'[v].job \notin faulted
                    => work'[v].retries < MaxRetries
      <4>1. /\ pc[v] # "idle" /\ work[v].job \notin faulted
                 => work[v].retries < jobs[work[v].job].attempts
            /\ pc[v] # "idle" => work[v].retries \in Nat /\ jobs[work[v].job].attempts \in Nat
        BY Shapes DEF WaitInv, RetriesOK
      <4>2. pc[v] # "idle" /\ work[v].job \notin faulted
               => work[v].retries < jobs'[work[v].job].attempts
        BY <2>3, <2>6, <4>1
      <4>3. pc[v] = "raise" => jobs'[work[v].job] = jobs[work[v].job]
        BY <2>3, <2>5, <2>6
      <4> QED
        BY <2>4, <3>2, <4>2, <4>3 DEF WaitInv, RetriesOK, Waiting, Pending
    <3>3. n <= jobs[j].attempts
      BY <1>2, <1>3, <1>6 DEF WaitInv, RetriesOK, Waiting
    <3>4. work'[w].retries < jobs'[work'[w].job].attempts
      BY <1>4, <2>2, <2>3, <3>3
    <3> QED
      BY <1>1, <2>4, <3>1, <3>2, <3>4 DEF RetriesOK, Waiting, Pending
  <2>8. WaitsOnce'
    <3>1. \A v \in Workers : pc'[v] = "raise" =>
             /\ v # w /\ pc[v] = "raise" /\ work'[v] = work[v]
             /\ work[v].job # j /\ jobs'[work[v].job] = jobs[work[v].job]
      BY <2>3, <2>4, <2>5, <2>6
    <3>2. \A k \in DOMAIN queue' : jobs'[queue'[k][1]] = jobs[queue'[k][1]]
      BY <1>2, <2>3, <2>5, <2>6
    <3>3. submitting # 0 => jobs'[submitting] = jobs[submitting]
      BY <2>3, <2>5, <2>6
    <3>4. /\ \A k \in DOMAIN queue' : ~Held(queue[k + 1][1])
          /\ \A v \in Workers : pc'[v] = "raise" => ~Held(work[v].job)
      BY <1>2, <3>1 DEF WaitInv, WaitsOnce
    <3>5. submitting # 0 =>
             /\ Waiting(submitting)
             /\ \A k \in DOMAIN queue' : queue'[k][1] # submitting
             /\ \A v \in Workers : pc'[v] = "raise" => work[v].job # submitting
      BY <1>2, <3>1 DEF WaitInv, WaitsOnce
    <3>6. ASSUME NEW k \in DOMAIN queue', Waiting(queue[k + 1][1])
          PROVE  /\ \A l \in DOMAIN queue' : queue'[l][1] = queue'[k][1] => l = k
                 /\ \A v \in Workers : pc'[v] = "raise" => work[v].job # queue'[k][1]
      BY <1>2, <3>1, <3>6 DEF WaitInv, WaitsOnce
    <3>7. ASSUME NEW u \in Workers, NEW v \in Workers, pc'[u] = "raise",
                 pc'[v] = "raise", work[u].job = work[v].job, Waiting(work[u].job)
          PROVE  u = v
      BY <3>1, <3>7 DEF WaitInv, WaitsOnce
    <3>8. /\ \A k \in DOMAIN queue' : ~Held(queue[k][1])'
          /\ \A v \in Workers : pc'[v] = "raise" => ~Held(work[v].job)'
      BY <1>1, <1>2, <3>1, <3>2, <3>4 DEF Held, Running
    <3>9. submitting' # 0 =>
             /\ Waiting(submitting)'
             /\ \A k \in DOMAIN queue' : queue'[k][1] # submitting'
             /\ \A v \in Workers : pc'[v] = "raise" => work'[v].job # submitting'
      BY <1>1, <1>2, <3>1, <3>3, <3>5 DEF Waiting, Pending
    <3>10. \A k \in DOMAIN queue' : Waiting(queue[k][1])' =>
             /\ \A l \in DOMAIN queue' : queue'[l][1] = queue'[k][1] => l = k
             /\ \A v \in Workers : pc'[v] = "raise" => work'[v].job # queue'[k][1]
      BY <1>1, <1>2, <3>1, <3>2, <3>6 DEF Waiting, Pending
    <3>11. \A u, v \in Workers : /\ pc'[u] = "raise" /\ pc'[v] = "raise"
                                 /\ work'[u].job = work'[v].job /\ Waiting(work[u].job)'
                                 => u = v
      BY <1>1, <3>1, <3>7 DEF Waiting, Pending
    <3> QED
      BY <3>8, <3>9, <3>10, <3>11 DEF WaitsOnce
  <2>9. WaitsSomewhere'
    <3>1. BusyWith(w, j)'
      BY <2>2, <2>4 DEF BusyWith, Steps
    <3>2. ASSUME NEW i \in DOMAIN jobs, i # j, Waiting(i)
          PROVE  \/ submitting' = i
                 \/ \E k \in DOMAIN queue' : queue'[k][1] = i
                 \/ \E v \in Workers : pc'[v] = "raise" /\ work'[v].job = i
      <4>1. ASSUME NEW k \in DOMAIN queue, queue[k][1] = i
            PROVE  \E l \in DOMAIN queue' : queue'[l][1] = i
        <5>1. k # 1
          BY <1>3, <3>2, <4>1
        <5> QED
          BY <1>2, <4>1, <5>1
      <4>2. \A v \in Workers : pc[v] = "raise" => pc'[v] = pc[v] /\ work'[v] = work[v]
        BY <1>1, <2>4
      <4> QED
        BY <1>1, <3>2, <4>1, <4>2 DEF WaitInv, WaitsSomewhere
    <3>3. ASSUME NEW i \in DOMAIN jobs, i # j, Held(i)
          PROVE  \E v \in Workers : BusyWith(v, i)'
      <4>1. PICK v \in Workers : BusyWith(v, i)
        BY <3>3 DEF WaitInv, WaitsSomewhere
      <4>2. v # w
        BY <1>1, <4>1 DEF BusyWith, Steps
      <4> QED
        BY <2>4, <4>1, <4>2 DEF BusyWith
    <3> QED
      BY <1>1, <2>3, <3>1, <3>2, <3>3
      DEF WaitsSomewhere, Waiting, Pending, Held, Running
  <2> QED
    BY <2>7, <2>8, <2>9 DEF WaitInv
<1> QED
  BY <1>5, <1>6, <1>8 DEF Waiting

(* A worker has done with its job: completed, failed, or to be retried.    *)
LEMMA SoundJobLeft ==
    ASSUME RoomAndRetries, IInv, WaitInv, NEW w \in Workers, Busy(w),
           work[w].job \notin faulted,
           NEW status \in {"pending", "completed", "failed"},
           jobs' = [jobs EXCEPT ![work[w].job].status = status],
           UNCHANGED <<queue, submitting, faulted>>,
           NEW p \in {"idle", "raise"}, Moves(w, p),
           p = "raise" => /\ work'[w].job = work[w].job
                          /\ work'[w].retries = work[w].retries,
           status = "pending" => /\ p = "raise"
                                 /\ jobs[work[w].job].attempts < MaxAttempts
    PROVE  WaitInv'
<1>1. PICK j : j = work[w].job
  OBVIOUS
<1>2. /\ pc[w] # "idle" /\ pc[w] # "raise" /\ j \in DOMAIN jobs /\ Held(j)
      /\ w \in Threads /\ Workers \subseteq Threads
  BY <1>1, Shapes DEF Busy, Steps, IInv, BusyOK, Held, Running
<1>3. /\ DOMAIN jobs' = DOMAIN jobs /\ jobs'[j].status = status
      /\ \A i \in DOMAIN jobs \ {j} : jobs'[i] = jobs[i]
  BY <1>1, <1>2, JobStep, TypeParts DEF IInv
<1>4. jobs'[j].attempts = jobs[j].attempts
  <2>1. jobs' = [jobs EXCEPT ![j] = [jobs[j] EXCEPT !.status = status]]
    BY <1>1
  <2>2. jobs'[j] = [jobs[j] EXCEPT !.status = status] /\ jobs[j] \in Job
    BY <1>2, <2>1, Shapes
  <2> QED
    BY <2>2 DEF Job
<1>5. /\ \A v \in Workers \ {w} : pc'[v] = pc[v] /\ work'[v] = work[v]
      /\ pc'[w] = p
  BY <1>2 DEF Moves
<1>6. /\ \A k \in DOMAIN queue : queue[k][1] # j /\ queue[k][1] \in DOMAIN jobs
      /\ \A v \in Workers : pc[v] = "raise" => work[v].job # j
      /\ \A v \in Workers : pc[v] # "idle" => work[v].job \in DOMAIN jobs
      /\ submitting # j
      /\ submitting # 0 => submitting \in DOMAIN jobs
  <2>1. submitting # j
    <3>1. j # 0 /\ ~Waiting(j)
      BY <1>2, Shapes DEF Held, Running, Waiting, Pending
    <3> QED
      BY <3>1 DEF WaitInv, WaitsOnce
  <2>2. \A k \in DOMAIN queue : queue[k][1] # j
    BY <1>2 DEF WaitInv, WaitsOnce
  <2>3. \A v \in Workers : pc[v] = "raise" => work[v].job # j
    BY <1>2 DEF WaitInv, WaitsOnce
  <2>4. submitting # 0 => submitting \in DOMAIN jobs
    BY Shapes
  <2> QED
    BY <2>1, <2>2, <2>3, <2>4, Shapes
<1>7. /\ work[w].retries < jobs[j].attempts /\ work[w].retries \in Nat
      /\ jobs[j].attempts \in Nat
  BY <1>1, <1>2, Shapes DEF WaitInv, RetriesOK
<1>8. status = "pending" => work[w].retries < MaxRetries
  BY <1>1, <1>7, ReconcileAssumption DEF RoomAndRetries
<1>9. RetriesOK'
  <2>1. \A i \in DOMAIN jobs : jobs'[i].attempts = jobs[i].attempts
    BY <1>3, <1>4
  <2>2. \A k \in DOMAIN queue : queue[k][1] \notin faulted
                                => queue[k][2] <= jobs'[queue[k][1]].attempts
    BY <1>6, <2>1 DEF WaitInv, RetriesOK
  <2>3. ASSUME NEW v \in Workers
        PROVE  /\ pc'[v] # "idle" /\ work'[v].job \notin faulted
                    => work'[v].retries < jobs'[work'[v].job].attempts
               /\ /\ pc'[v] = "raise" /\ jobs'[work'[v].job].status = "pending"
                  /\ work'[v].job \notin faulted
                  => work'[v].retries < MaxRetries
    <3>1. CASE v = w
      BY <1>1, <1>3, <1>4, <1>5, <1>7, <1>8, <3>1
    <3>2. CASE v # w
      <4>1. pc'[v] = pc[v] /\ work'[v] = work[v]
        BY <1>5, <3>2
      <4>2. pc[v] = "raise" => jobs'[work[v].job] = jobs[work[v].job]
        BY <1>3, <1>6
      <4> QED
        BY <1>6, <2>1, <4>1, <4>2 DEF WaitInv, RetriesOK, Waiting, Pending
    <3> QED
      BY <3>1, <3>2
  <2> QED
    BY <2>2, <2>3 DEF RetriesOK, Waiting, Pending
<1>10. WaitsOnce'
  <2>1. \A v \in Workers : v # w /\ pc'[v] = "raise" =>
           /\ pc[v] = "raise" /\ work'[v] = work[v]
           /\ work[v].job # j /\ jobs'[work[v].job] = jobs[work[v].job]
    BY <1>3, <1>5, <1>6
  <2>2. \A k \in DOMAIN queue : jobs'[queue[k][1]] = jobs[queue[k][1]]
    BY <1>3, <1>6
  <2>3. submitting # 0 => jobs'[submitting] = jobs[submitting]
    BY <1>3, <1>6
  <2>4. pc'[w] = "raise" => work'[w].job = j
    BY <1>1, <1>5
  <2>5. \A v \in Workers : pc'[v] = "raise" /\ work'[v].job \notin faulted
                           => jobs'[work'[v].job].status # "running"
    <3>1. jobs'[j].status # "running"
      BY <1>3
    <3> QED
      BY <2>1, <2>4, <3>1 DEF WaitInv, WaitsOnce, Held, Running
  <2>6. submitting # 0 => \A v \in Workers : pc'[v] = "raise" => work'[v].job # submitting
    BY <1>6, <2>1, <2>4 DEF WaitInv, WaitsOnce
  <2>7. ASSUME NEW k \in DOMAIN queue, Waiting(queue[k][1])
        PROVE  \A v \in Workers : pc'[v] = "raise" => work'[v].job # queue[k][1]
    BY <1>6, <2>1, <2>4, <2>7 DEF WaitInv, WaitsOnce
  <2>8. ASSUME NEW u \in Workers, NEW v \in Workers, pc'[u] = "raise",
               pc'[v] = "raise", work'[u].job = work'[v].job,
               jobs'[work'[u].job].status = "pending", work'[u].job \notin faulted
        PROVE  u = v
    <3>1. CASE u = w
      BY <2>1, <2>4, <2>8, <3>1
    <3>3. CASE v = w
      BY <2>1, <2>4, <2>8, <3>3
    <3>2. CASE u # w /\ v # w
      <4>1. /\ pc[u] = "raise" /\ pc[v] = "raise" /\ work[u].job = work[v].job
            /\ Waiting(work[u].job)
        BY <2>1, <2>8, <3>2 DEF Waiting, Pending
      <4> QED
        BY <4>1 DEF WaitInv, WaitsOnce
    <3> QED
      BY <3>1, <3>2, <3>3
  <2>9. /\ \A k \in DOMAIN queue : ~Held(queue[k][1])
        /\ submitting # 0 => /\ Waiting(submitting)
                            /\ \A k \in DOMAIN queue : queue[k][1] # submitting
        /\ \A k \in DOMAIN queue : Waiting(queue[k][1]) =>
              \A l \in DOMAIN queue : queue[l][1] = queue[k][1] => l = k
    BY DEF WaitInv, WaitsOnce
  <2>a. queue' = queue /\ submitting' = submitting
    OBVIOUS
  <2>10. /\ \A k \in DOMAIN queue' : queue'[k][1] \notin faulted
                                     => jobs'[queue'[k][1]].status # "running"
         /\ submitting' # 0 =>
              /\ jobs'[submitting'].status = "pending" /\ submitting' \notin faulted
              /\ \A k \in DOMAIN queue' : queue'[k][1] # submitting'
    <3>1. \A k \in DOMAIN queue : queue[k][1] \notin faulted
                                  => jobs'[queue[k][1]].status # "running"
      BY <2>2, <2>9 DEF Held, Running
    <3>2. submitting # 0 =>
              /\ jobs'[submitting].status = "pending" /\ submitting \notin faulted
              /\ \A k \in DOMAIN queue : queue[k][1] # submitting
      BY <2>3, <2>9 DEF Waiting, Pending
    <3> QED
      BY <2>a, <3>1, <3>2
  <2>11. ASSUME NEW k \in DOMAIN queue', jobs'[queue'[k][1]].status = "pending",
                queue'[k][1] \notin faulted
         PROVE  /\ \A l \in DOMAIN queue' : queue'[l][1] = queue'[k][1] => l = k
                /\ \A v \in Workers : pc'[v] = "raise" => work'[v].job # queue'[k][1]
    <3>1. k \in DOMAIN queue /\ Waiting(queue[k][1])
      BY <2>2, <2>11 DEF Waiting, Pending
    <3> QED
      BY <2>7, <2>9, <3>1
  <2> QED
    BY <2>5, <2>6, <2>8, <2>10, <2>11 DEF WaitsOnce, Waiting, Pending, Held, Running
<1>11. WaitsSomewhere'
  <2>1. ASSUME NEW i \in DOMAIN jobs, i # j, Held(i)
        PROVE  \E v \in Workers : BusyWith(v, i)'
    <3>1. PICK v \in Workers : BusyWith(v, i)
      BY <2>1 DEF WaitInv, WaitsSomewhere
    <3>2. v # w
      BY <1>1, <2>1, <3>1 DEF BusyWith
    <3> QED
      BY <1>5, <3>1, <3>2 DEF BusyWith
  <2>2. \A v \in Workers : pc[v] = "raise" => pc'[v] = pc[v] /\ work'[v] = work[v]
    BY <1>2, <1>5
  <2>3. ASSUME NEW i \in DOMAIN jobs, i # j, Waiting(i)
        PROVE  \/ submitting = i
               \/ \E k \in DOMAIN queue : queue[k][1] = i
               \/ \E v \in Workers : pc'[v] = "raise" /\ work'[v].job = i
    BY <2>2, <2>3 DEF WaitInv, WaitsSomewhere
  <2>4. status = "pending" => pc'[w] = "raise" /\ work'[w].job = j
    BY <1>1, <1>5
  <2> QED
    BY <1>3, <2>1, <2>3, <2>4 DEF WaitsSomewhere, Waiting, Pending, Held, Running
<1> QED
  BY <1>9, <1>10, <1>11 DEF WaitInv

(* A faulted job is left: nobody waits for it, and all others wait where   *)
(* they did.                                                               *)
TasksStay == UNCHANGED <<queue, submitting, faulted>>

LEMMA FaultyJobLeft ==
    ASSUME IInv, WaitInv, NEW w \in Workers, NEW p, Moves(w, p),
           NEW j \in faulted, TasksStay, submitting # j,
           DOMAIN jobs' = DOMAIN jobs, \A i \in DOMAIN jobs \ {j} : jobs'[i] = jobs[i],
           pc[w] # "idle" => work[w].job = j, p # "idle" => work'[w].job = j
    PROVE  WaitInv'
<1>1. PICK f : f = [k \in DOMAIN queue |-> k]
  OBVIOUS
<1>2. \A k \in DOMAIN queue' : queue'[k][1] # j =>
         f[k] \in DOMAIN queue /\ queue'[k] = queue[f[k]]
  BY <1>1 DEF TasksStay
<1>3. \A k, l \in DOMAIN queue' : queue'[k][1] # j /\ queue'[l][1] # j
                                  /\ f[k] = f[l] => k = l
  BY <1>1 DEF TasksStay
<1>4. \A k \in DOMAIN queue : queue[k][1] # j =>
         \E l \in DOMAIN queue' : queue'[l] = queue[k]
  BY DEF TasksStay
<1>5. submitting' = submitting /\ faulted' = faulted \cup {j}
  BY DEF TasksStay
<1> QED
  BY <1>2, <1>3, <1>4, <1>5, FaultyStep

LEMMA JobLeft ==
    ASSUME RoomAndRetries, IInv, WaitInv, NEW w \in Workers, Busy(w),
           NEW status \in {"pending", "completed", "failed"},
           jobs' = [jobs EXCEPT ![work[w].job].status = status],
           UNCHANGED <<queue, submitting, faulted>>,
           NEW p \in {"idle", "raise"}, Moves(w, p),
           p = "raise" => /\ work'[w].job = work[w].job
                          /\ work'[w].retries = work[w].retries,
           status = "pending" => /\ p = "raise"
                                 /\ jobs[work[w].job].attempts < MaxAttempts
    PROVE  WaitInv'
<1>1. CASE work[w].job \notin faulted
  BY <1>1, SoundJobLeft
<1>2. CASE work[w].job \in faulted
  <2>1. PICK j \in DOMAIN jobs : j = work[w].job
    BY <1>2, Shapes
  <2>2. /\ DOMAIN jobs' = DOMAIN jobs
        /\ \A i \in DOMAIN jobs \ {j} : jobs'[i] = jobs[i]
    BY <2>1, JobStep, TypeParts DEF IInv
  <2>3. submitting # j
    <3>1. j # 0
      BY Shapes
    <3> QED
      BY <1>2, <2>1, <3>1 DEF WaitInv, WaitsOnce, Waiting
  <2>4. /\ pc[w] # "idle" => work[w].job = j
        /\ p # "idle" => work'[w].job = j
    BY <2>1
  <2>5. TasksStay
    BY DEF TasksStay
  <2> QED
    BY <1>2, <2>1, <2>2, <2>3, <2>4, <2>5, FaultyJobLeft
<1> QED
  BY <1>1, <1>2

(* The calls that record a start or an end raise.                          *)
LEMMA FaultWaits ==
    ASSUME IInv, WaitInv, NEW w \in Workers, StartFails(w) \/ EndFails(w)
    PROVE  WaitInv'
<1>0. /\ Moves(w, "raise") /\ UNCHANGED <<jobs, submitting>> /\ DOMAIN work = Threads
      /\ w \in Threads
  BY FaultEffect, Shapes DEF Threads
<1>1. CASE StartFails(w)
  <2>1. pc[w] = "idle" /\ queue # <<>> /\ queue' = Tail(queue)
    BY <1>1 DEF StartFails
  <2>2. /\ 1 \in DOMAIN queue /\ Head(queue) = queue[1]
        /\ \A k \in DOMAIN queue' : k + 1 \in DOMAIN queue \ {1} /\ queue'[k] = queue[k + 1]
        /\ \A k \in DOMAIN queue \ {1} : k - 1 \in DOMAIN queue' /\ queue'[k - 1] = queue[k]
        /\ \A k, l \in DOMAIN queue' : k + 1 = l + 1 => k = l
    BY <2>1, Dequeued
  <2>3. PICK j \in DOMAIN jobs : j = queue[1][1]
    BY <2>2, Shapes
  <2>4. work'[w].job = j /\ faulted' = faulted \cup {j}
    BY <1>0, <1>1, <2>2, <2>3 DEF StartFails, Started
  <2>0. PICK f : f = [k \in DOMAIN queue' |-> k + 1]
    OBVIOUS
  <2>5. submitting # j
    <3>1. j # 0
      BY Shapes
    <3> QED
      BY <2>2, <2>3, <3>1 DEF WaitInv, WaitsOnce
  <2>6. /\ \A k \in DOMAIN queue' : queue'[k][1] # j =>
              f[k] \in DOMAIN queue /\ queue'[k] = queue[f[k]]
        /\ \A k, l \in DOMAIN queue' : queue'[k][1] # j /\ queue'[l][1] # j
                                       /\ f[k] = f[l] => k = l
        /\ \A k \in DOMAIN queue : queue[k][1] # j =>
              \E l \in DOMAIN queue' : queue'[l] = queue[k]
    BY <2>0, <2>2, <2>3
  <2>7. /\ submitting' = submitting /\ DOMAIN jobs' = DOMAIN jobs
        /\ \A i \in DOMAIN jobs \ {j} : jobs'[i] = jobs[i]
        /\ pc[w] # "idle" => work[w].job = j
        /\ "raise" # "idle" => work'[w].job = j
    BY <1>0, <2>1, <2>4
  <2> QED
    BY <1>0, <2>4, <2>5, <2>6, <2>7, FaultyStep
<1>2. CASE EndFails(w)
  <2>1. /\ Busy(w) /\ pc[w] # "idle" /\ queue' = queue
        /\ work' = [work EXCEPT ![w] = Again(w)]
        /\ faulted' = faulted \cup {work[w].job}
    BY <1>2 DEF EndFails, Busy, Steps
  <2>2. PICK j \in DOMAIN jobs : j = work[w].job
    BY <2>1, Shapes
  <2>3. work'[w].job = j
    BY <1>0, <2>1, <2>2, AgainKeeps
  <2>4. submitting # j
    <3>1. jobs[j].status = "running" /\ j # 0
      BY <2>1, <2>2, Shapes DEF Busy, IInv, BusyOK
    <3> QED
      BY <3>1 DEF WaitInv, WaitsOnce, Waiting, Pending
  <2>0. PICK f : f = [k \in DOMAIN queue |-> k]
    OBVIOUS
  <2>5. /\ \A k \in DOMAIN queue' : queue'[k][1] # j =>
              f[k] \in DOMAIN queue /\ queue'[k] = queue[f[k]]
        /\ \A k, l \in DOMAIN queue' : queue'[k][1] # j /\ queue'[l][1] # j
                                       /\ f[k] = f[l] => k = l
        /\ \A k \in DOMAIN queue : queue[k][1] # j =>
              \E l \in DOMAIN queue' : queue'[l] = queue[k]
    BY <2>0, <2>1
  <2>6. /\ submitting' = submitting /\ DOMAIN jobs' = DOMAIN jobs
        /\ \A i \in DOMAIN jobs \ {j} : jobs'[i] = jobs[i]
        /\ faulted' = faulted \cup {j}
        /\ pc[w] # "idle" => work[w].job = j
        /\ "raise" # "idle" => work'[w].job = j
    BY <1>0, <2>1, <2>2, <2>3
  <2> QED
    BY <1>0, <2>4, <2>5, <2>6, FaultyStep
<1> QED
  BY <1>1, <1>2

LEMMA CompleteWaits ==
    ASSUME RoomAndRetries, IInv, WaitInv, NEW w \in Workers, Complete(w)
    PROVE  WaitInv'
<1>1. Moves(w, "idle") /\ Busy(w)
  BY GotoMoves DEF Complete, Leave, Busy, Steps, Threads
<1> QED
  BY <1>1, JobLeft DEF Complete, plane

LEMMA FailWaits ==
    ASSUME RoomAndRetries, IInv, WaitInv, NEW w \in Workers, Fail(w)
    PROVE  WaitInv'
<1>1. PICK retry \in BOOLEAN : /\ Fails(w, retry)
                               /\ retry => jobs[work[w].job].attempts < MaxAttempts
  <2>1. CASE work[w].retriable /\ jobs[work[w].job].attempts < MaxAttempts
    <3>1. Fails(w, TRUE)
      BY <2>1 DEF Fail, Fails
    <3> QED
      BY <2>1, <3>1
  <2>2. CASE ~(work[w].retriable /\ jobs[work[w].job].attempts < MaxAttempts)
    <3>1. Fails(w, FALSE)
      BY <2>2 DEF Fail, Fails
    <3> QED
      BY <3>1
  <2> QED
    BY <2>1, <2>2
<1>2. Busy(w) /\ w \in Threads /\ DOMAIN work = Threads
  BY <1>1, Shapes DEF Fails, Busy, Steps, Threads
<1>3. /\ jobs' = [jobs EXCEPT ![work[w].job].status =
                     IF retry THEN "pending" ELSE "failed"]
      /\ UNCHANGED <<queue, submitting, faulted>>
  BY <1>1 DEF Fails, plane
<1>4. CASE retry \/ work[w].internal
  <2>1. Goto(w, "raise") /\ work' = [work EXCEPT ![w] = Again(w)]
    BY <1>1, <1>4 DEF Fails
  <2>2. Moves(w, "raise")
    BY <1>2, <2>1, GotoMoves
  <2>3. work'[w].job = work[w].job /\ work'[w].retries = work[w].retries
    BY <1>2, <2>1, AgainKeeps
  <2>4. CASE retry
    BY <1>1, <1>2, <1>3, <2>2, <2>3, <2>4, JobLeft
  <2>5. CASE ~retry
    BY <1>1, <1>2, <1>3, <2>2, <2>3, <2>5, JobLeft
  <2> QED
    BY <2>4, <2>5
<1>5. CASE ~(retry \/ work[w].internal)
  <2>1. Moves(w, "idle")
    BY <1>1, <1>2, <1>5, GotoMoves DEF Fails, Leave
  <2> QED
    BY <1>2, <1>3, <1>5, <2>1, JobLeft
<1> QED
  BY <1>4, <1>5

(* A task that raised is put back, or given up; then its job has ended.    *)
LEMMA SoundRaiseWaits ==
    ASSUME IInv, WaitInv, NEW w \in Workers, Raise(w), work[w].job \notin faulted
    PROVE  WaitInv'
<1>1. PICK j, n : j = work[w].job /\ n = work[w].retries
  OBVIOUS
<1>2. /\ pc[w] = "raise" /\ UNCHANGED <<jobs, submitting, faulted>>
      /\ queue' = IF n < MaxRetries THEN Append(queue, <<j, n + 1>>) ELSE queue
  BY <1>1 DEF Raise, plane
<1>3. /\ Moves(w, "idle") /\ Workers \subseteq Threads
      /\ j \in DOMAIN jobs /\ n \in 0..MaxRetries /\ jobs[j].attempts \in Nat
  BY <1>1, <1>2, GotoMoves, Shapes DEF Raise, Leave, Threads
<1>4. /\ \A v \in Workers \ {w} : pc'[v] = pc[v] /\ work'[v] = work[v]
      /\ pc'[w] = "idle"
  BY <1>3 DEF Moves
<1>5. /\ n < jobs[j].attempts /\ ~Held(j)
      /\ Waiting(j) => n < MaxRetries
      /\ submitting # 0 => submitting # j
  <2>1. n < jobs[j].attempts /\ (Waiting(j) => n < MaxRetries)
    BY <1>1, <1>2 DEF WaitInv, RetriesOK
  <2>2. ~Held(j) /\ (submitting # 0 => submitting # j)
    BY <1>1, <1>2 DEF WaitInv, WaitsOnce
  <2> QED
    BY <2>1, <2>2
<1>6. ASSUME Waiting(j)
      PROVE  /\ \A k \in DOMAIN queue : queue[k][1] # j
             /\ \A v \in Workers : pc'[v] = "raise" => work[v].job # j
  <2>1. \A k \in DOMAIN queue : queue[k][1] # j
    BY <1>1, <1>2, <1>6 DEF WaitInv, WaitsOnce
  <2>2. \A v \in Workers : pc[v] = "raise" /\ work[v].job = j => v = w
    BY <1>1, <1>2, <1>6 DEF WaitInv, WaitsOnce
  <2> QED
    BY <1>4, <2>1, <2>2
<1>7. CASE n < MaxRetries
  <2>1. /\ DOMAIN queue' = DOMAIN queue \cup {Len(queue) + 1}
        /\ Len(queue) + 1 \notin DOMAIN queue
        /\ \A k \in DOMAIN queue : queue'[k] = queue[k]
        /\ queue'[Len(queue) + 1][1] = j /\ queue'[Len(queue) + 1][2] = n + 1
    <3>1. n + 1 \in 0..MaxRetries
      BY <1>3, <1>7, ReconcileAssumption
    <3>2. queue' = Append(queue, <<j, n + 1>>)
      BY <1>2, <1>7
    <3>3. j \in DOMAIN jobs
      BY <1>3
    <3> QED
      BY <3>1, <3>2, <3>3, Queued
  <2>2. RetriesOK'
    <3>1. n + 1 <= jobs[j].attempts
      BY <1>3, <1>5
    <3> QED
      BY <1>2, <1>4, <2>1, <3>1 DEF WaitInv, RetriesOK, Waiting, Pending
  <2>3. WaitsOnce'
    <3>1. WaitsOnce
      BY DEF WaitInv
    <3>2. \A v \in Workers : pc'[v] = "raise" => pc[v] = "raise" /\ work'[v] = work[v]
      BY <1>4
    <3>3. \A k \in DOMAIN queue' : ~Held(queue'[k][1])
      BY <1>5, <2>1, <3>1 DEF WaitsOnce
    <3>4. submitting # 0 => \A k \in DOMAIN queue' : queue'[k][1] # submitting
      BY <1>5, <2>1, <3>1 DEF WaitsOnce
    <3>5. ASSUME NEW k \in DOMAIN queue', Waiting(queue'[k][1])
          PROVE  /\ \A l \in DOMAIN queue' : queue'[l][1] = queue'[k][1] => l = k
                 /\ \A v \in Workers : pc'[v] = "raise" => work[v].job # queue'[k][1]
      <4>1. CASE k \in DOMAIN queue /\ queue[k][1] # j
        BY <2>1, <3>1, <3>2, <3>5, <4>1 DEF WaitsOnce
      <4>2. CASE k = Len(queue) + 1
        BY <1>6, <2>1, <3>5, <4>2
      <4>3. k \in DOMAIN queue => queue[k][1] # j
        BY <1>6, <2>1, <3>5
      <4> QED
        BY <2>1, <4>1, <4>2, <4>3
    <3>6. \A v \in Workers : pc'[v] = "raise" => ~Held(work[v].job)'
      BY <1>2, <3>1, <3>2 DEF WaitsOnce, Held, Running
    <3>7. submitting' # 0 =>
             /\ Waiting(submitting)'
             /\ \A k \in DOMAIN queue' : queue'[k][1] # submitting'
             /\ \A v \in Workers : pc'[v] = "raise" => work'[v].job # submitting'
      BY <1>2, <3>1, <3>2, <3>4 DEF WaitsOnce, Waiting, Pending
    <3>8. \A k \in DOMAIN queue' : Waiting(queue[k][1])' =>
             /\ \A l \in DOMAIN queue' : queue'[l][1] = queue'[k][1] => l = k
             /\ \A v \in Workers : pc'[v] = "raise" => work'[v].job # queue'[k][1]
      BY <1>2, <3>2, <3>5 DEF Waiting, Pending
    <3>9. \A u, v \in Workers : /\ pc'[u] = "raise" /\ pc'[v] = "raise"
                                /\ work'[u].job = work'[v].job /\ Waiting(work[u].job)'
                                => u = v
      BY <1>2, <3>1, <3>2 DEF WaitsOnce, Waiting, Pending
    <3>10. \A k \in DOMAIN queue' : ~Held(queue[k][1])'
      BY <1>2, <3>3 DEF Held, Running
    <3> QED
      BY <3>6, <3>7, <3>8, <3>9, <3>10 DEF WaitsOnce
  <2>4. WaitsSomewhere'
    BY <1>1, <1>2, <1>4, <2>1
    DEF WaitInv, WaitsSomewhere, Waiting, Pending, Held, Running, BusyWith, Steps
  <2> QED
    BY <2>2, <2>3, <2>4 DEF WaitInv
<1>8. CASE ~(n < MaxRetries)
  <2>1. queue' = queue /\ ~Waiting(j)
    BY <1>2, <1>5, <1>8
  <2>2. RetriesOK' /\ WaitsOnce'
    BY <1>2, <1>4, <2>1 DEF WaitInv, RetriesOK, WaitsOnce, Waiting, Pending, Held, Running
  <2>3. WaitsSomewhere'
    BY <1>1, <1>2, <1>4, <2>1
    DEF WaitInv, WaitsSomewhere, Waiting, Pending, Held, Running, BusyWith, Steps
  <2> QED
    BY <2>2, <2>3 DEF WaitInv
<1> QED
  BY <1>7, <1>8

LEMMA RaiseWaits ==
    ASSUME IInv, WaitInv, NEW w \in Workers, Raise(w)
    PROVE  WaitInv'
<1>1. CASE work[w].job \notin faulted
  BY <1>1, SoundRaiseWaits
<1>2. CASE work[w].job \in faulted
  <2>1. /\ pc[w] = "raise" /\ Moves(w, "idle") /\ UNCHANGED <<jobs, submitting, faulted>>
    BY GotoMoves DEF Raise, Leave, Threads, plane
  <2>2. PICK j \in DOMAIN jobs, n \in 0..MaxRetries : j = work[w].job /\ n = work[w].retries
    BY <2>1, Shapes
  <2>3. /\ submitting # j /\ submitting' = submitting
        /\ faulted' = faulted \cup {j}
    <3>1. j # 0
      BY Shapes
    <3> QED
      BY <1>2, <2>1, <2>2, <3>1 DEF WaitInv, WaitsOnce, Waiting
  <2> DEFINE f == [k \in DOMAIN queue |-> k]
  <2>4. CASE n < MaxRetries
    <3>1. queue' = Append(queue, <<j, n + 1>>) /\ n + 1 \in 0..MaxRetries
      BY <2>2, <2>4, ReconcileAssumption DEF Raise
    <3>2. /\ DOMAIN queue' = DOMAIN queue \cup {Len(queue) + 1}
          /\ \A k \in DOMAIN queue : queue'[k] = queue[k]
          /\ queue'[Len(queue) + 1][1] = j
      BY <3>1, Queued
    <3>3. /\ \A k \in DOMAIN queue' : queue'[k][1] # j =>
                 f[k] \in DOMAIN queue /\ queue'[k] = queue[f[k]]
          /\ \A k, l \in DOMAIN queue' : queue'[k][1] # j /\ queue'[l][1] # j
                                          /\ f[k] = f[l] => k = l
          /\ \A k \in DOMAIN queue : \E l \in DOMAIN queue' : queue'[l] = queue[k]
      BY <3>2
    <3> HIDE DEF f
    <3> QED
      BY <2>1, <2>2, <2>3, <3>3, FaultyStep
  <2>5. CASE ~(n < MaxRetries)
    <3>1. queue' = queue
      BY <2>2, <2>5 DEF Raise
    <3>2. /\ \A k \in DOMAIN queue' : f[k] \in DOMAIN queue /\ queue'[k] = queue[f[k]]
          /\ \A k, l \in DOMAIN queue' : f[k] = f[l] => k = l
          /\ \A k \in DOMAIN queue : \E l \in DOMAIN queue' : queue'[l] = queue[k]
      BY <3>1
    <3> HIDE DEF f
    <3> QED
      BY <2>1, <2>2, <2>3, <3>2, FaultyStep
  <2> QED
    BY <2>4, <2>5
<1> QED
  BY <1>1, <1>2

(* A start submits every job that is pending then: they are no more than   *)
(* the recordings, and their tasks have different jobs.                    *)
LEMMA CrashWaits ==
    ASSUME RoomAndRetries, IInv, WaitInv, Crash
    PROVE  WaitInv'
<1> DEFINE S == {j \in DOMAIN jobs : Recovered[j].status = "pending"}
           Size == Cardinality(S)
<1>1. /\ jobs' = Recovered /\ queue' \in Submitted(S) /\ submitting' = 0
      /\ faulted' = {}
      /\ \A t \in Threads : pc'[t] = "idle"
      /\ Workers \subseteq Threads
  BY DEF Crash, Threads
<1>2. /\ DOMAIN jobs' = DOMAIN jobs
      /\ \A j \in DOMAIN jobs : /\ jobs'[j].status # "running"
                                /\ jobs'[j].attempts \in Nat
                                /\ jobs'[j].status = "pending" => jobs[j].status \in Active
      /\ \A j \in DOMAIN jobs : j \in S <=> jobs'[j].status = "pending"
  <2>1. \A j \in DOMAIN jobs : jobs[j] \in Job
    BY Shapes
  <2> QED
    BY <1>1, <2>1 DEF Recovered, Job, Active
<1>3. IsFiniteSet(S) /\ Size <= RecoverLimit /\ Size \in Nat
  <2> DEFINE f == [j \in S |-> jobs[j].recording]
  <2>1. \A j \in S : jobs[j].recording \in Recordings
    BY Shapes DEF Job
  <2>2. \A j, k \in S : jobs[j].recording = jobs[k].recording => j = k
    BY <1>2 DEF IInv, ActiveOK
  <2>3. f \in Injection(S, Recordings)
    BY <2>1, <2>2, Fun_IsInj
  <2>4. IsFiniteSet(S) /\ Size <= Cardinality(Recordings)
    BY <2>3, FS_Injection, ReconcileAssumption
  <2> QED
    BY <2>4, FS_CardinalityType, ReconcileAssumption DEF RoomAndRetries
<1>4. /\ queue' \in [1..Size -> S \X {0}]
      /\ \A k, l \in 1..Size : k < l => queue'[k][1] < queue'[l][1]
  <2>1. (IF Size < RecoverLimit THEN Size ELSE RecoverLimit) = Size
    BY <1>3, ReconcileAssumption DEF RoomAndRetries
  <2> HIDE DEF S
  <2> QED
    BY <1>1, <2>1 DEF Submitted
<1>5. /\ DOMAIN queue' = 1..Size
      /\ \A k \in 1..Size : queue'[k][1] \in S /\ queue'[k][2] = 0
  BY <1>4
<1>6. \A k, l \in 1..Size : queue'[k][1] = queue'[l][1] => k = l
  <2>1. \A k \in 1..Size : queue'[k][1] \in Nat
    BY <1>5, Shapes
  <2> QED
    BY <1>3, <1>4, <2>1
<1>7. \A j \in S : \E k \in 1..Size : queue'[k][1] = j
  <2> DEFINE g == [k \in 1..Size |-> queue'[k][1]]
  <2>1. g \in Injection(1..Size, S)
    BY <1>5, <1>6, Fun_IsInj
  <2>2. Cardinality(1..Size) = Size
    BY <1>3, FS_Interval
  <2>3. g \in Surjection(1..Size, S)
    BY <1>3, <2>1, <2>2, FS_Injection
  <2> QED
    BY <2>3 DEF Surjection
<1>8. RetriesOK'
  BY <1>1, <1>2, <1>5 DEF RetriesOK
<1>9. WaitsOnce'
  BY <1>1, <1>2, <1>5, <1>6 DEF WaitsOnce, Held, Running
<1>10. WaitsSomewhere'
  BY <1>2, <1>5, <1>7 DEF WaitsSomewhere, Waiting, Pending, Held, Running
<1> QED
  BY <1>8, <1>9, <1>10 DEF WaitInv

LEMMA WaitStep == RoomAndRetries /\ IInv /\ WaitInv /\ [Next]_vars => WaitInv'
<1> SUFFICES ASSUME RoomAndRetries, IInv, WaitInv, [Next]_vars
             PROVE  WaitInv'
  OBVIOUS
<1>1. CASE UNCHANGED vars \/ \E r \in Recordings : Change(r)
  <2>1. UNCHANGED <<jobs, queue, submitting, faulted, pc, work>>
    BY <1>1 DEF vars, Change, rows
  <2> QED
    BY <2>1, TaskKept DEF Busy
<1> QED
  BY <1>1, EnqueueWaits, SubmitWaits, StartWaits, FetchWaits, ReconciliationWaits,
     RequestWaits, CompleteWaits, FailWaits, FaultWaits, RaiseWaits, CrashWaits
  DEF Next, Worker, Threads

(* The places of a pending job are counted.                                *)
LEMMA WaitersCounted == IInv /\ WaitInv => NoJobStranded
<1> SUFFICES ASSUME IInv, WaitInv, NEW j \in DOMAIN jobs
             PROVE  /\ Waiting(j) => Cardinality(QueuedAt(j)) + Cardinality(Raising(j))
                                       + (IF submitting = j THEN 1 ELSE 0) = 1
                    /\ Held(j) => Cardinality({w \in Workers : BusyWith(w, j)}) = 1
  BY DEF NoJobStranded, Waiting, Held
<1>0. j # 0
  BY Shapes
<1>1. ASSUME Waiting(j)
      PROVE  Cardinality(QueuedAt(j)) + Cardinality(Raising(j))
                + (IF submitting = j THEN 1 ELSE 0) = 1
  <2>1. CASE submitting = j
    <3>1. QueuedAt(j) = {} /\ Raising(j) = {}
      BY <1>0, <2>1 DEF WaitInv, WaitsOnce, QueuedAt, Raising
    <3> QED
      BY <2>1, <3>1, FS_EmptySet
  <2>2. CASE submitting # j /\ \E k \in DOMAIN queue : queue[k][1] = j
    <3>1. PICK k \in DOMAIN queue : queue[k][1] = j
      BY <2>2
    <3>2. QueuedAt(j) = {k} /\ Raising(j) = {}
      BY <1>1, <3>1 DEF WaitInv, WaitsOnce, QueuedAt, Raising
    <3>3. Cardinality(QueuedAt(j)) = 1 /\ Cardinality(Raising(j)) = 0
      BY <3>2, FS_EmptySet, FS_Singleton
    <3> QED
      BY <2>2, <3>3
  <2>3. CASE submitting # j /\ ~\E k \in DOMAIN queue : queue[k][1] = j
    <3>1. PICK w \in Workers : pc[w] = "raise" /\ work[w].job = j
      BY <1>1, <2>3 DEF WaitInv, WaitsSomewhere
    <3>2. QueuedAt(j) = {}
      BY <2>3 DEF QueuedAt
    <3>3. Raising(j) = {w}
      BY <1>1, <3>1 DEF WaitInv, WaitsOnce, RetriesOK, Raising
    <3>4. Cardinality(QueuedAt(j)) = 0 /\ Cardinality(Raising(j)) = 1
      BY <3>2, <3>3, FS_EmptySet, FS_Singleton
    <3> QED
      BY <2>3, <3>4
  <2> QED
    BY <2>1, <2>2, <2>3
<1>2. ASSUME Held(j)
      PROVE  Cardinality({w \in Workers : BusyWith(w, j)}) = 1
  <2>1. PICK w \in Workers : BusyWith(w, j)
    BY <1>2 DEF WaitInv, WaitsSomewhere
  <2>2. {v \in Workers : BusyWith(v, j)} = {w}
    BY <2>1 DEF IInv, BusyOK, BusyWith
  <2> QED
    BY <2>2, FS_Singleton
<1> QED
  BY <1>1, <1>2

(* A pending job has one task that will start it, and a running job one    *)
(* worker, when there are no more recordings than a start submits jobs of  *)
(* and the task queue retries as often as a job is attempted again.        *)
THEOREM NobodyIsStranded ==
    ASSUME RoomAndRetries
    PROVE  Spec => []NoJobStranded
<1>1. Init => WaitInv
  <2>1. ASSUME Init
        PROVE  /\ DOMAIN jobs = {} /\ DOMAIN queue = {} /\ submitting = 0
               /\ \A w \in Workers : pc[w] = "idle"
    BY <2>1 DEF Init, Threads
  <2> QED
    BY <2>1 DEF WaitInv, RetriesOK, WaitsOnce, WaitsSomewhere
<1>2. IInv /\ WaitInv /\ [Next]_vars => WaitInv'
  BY WaitStep
<1>3. IInv /\ WaitInv => NoJobStranded
  BY WaitersCounted
<1> QED
  BY <1>1, <1>2, <1>3, Invariance, PTL DEF Spec
=============================================================================

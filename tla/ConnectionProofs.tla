-------------------------- MODULE ConnectionProofs --------------------------
(***************************************************************************)
(* Theorems about ConnectionTx, for any sets of threads, writes and        *)
(* evaluations.                                                            *)
(***************************************************************************)
EXTENDS ConnectionTx, TLAPS

(* The types of the model: what every statement reads and writes.          *)
LEMMA TypeInit == Init => TypeOK
BY ZenonT(60) DEF Init, TypeOK, VarTypes, Steps, Answers

LEMMA RowsOfThread ==
    ASSUME TypeOK, NEW t \in Threads, pc[t] # "idle", OwnerWorks
    PROVE  job[t] \in Writes /\ lock = t /\ answer[job[t]] = "under way"
BY ConnectionAssumption DEF OwnerWorks

LEMMA TypeStep == TypeOK /\ OwnerWorks /\ [Next]_vars => VarTypes'
<1> SUFFICES ASSUME TypeOK, OwnerWorks, [Next]_vars PROVE VarTypes'
  OBVIOUS
<1>1. ASSUME NEW t \in Threads, NEW w \in Writes, Begin(t, w) PROVE VarTypes'
  BY <1>1 DEF TypeOK, VarTypes, Begin, Steps, Answers
<1>2. ASSUME NEW t \in Threads, First(t) PROVE VarTypes'
  <2>1. <<job[t], 1>> \in Rows
    BY <1>2, RowsOfThread DEF First, Rows
  <2> QED
    BY <1>2, <2>1 DEF TypeOK, VarTypes, First, Execute, Goto, Steps
<1>3. ASSUME NEW t \in Threads, Second(t) PROVE VarTypes'
  <2>1. <<job[t], 2>> \in Rows
    BY <1>3, RowsOfThread DEF Second, Rows
  <2> QED
    BY <1>3, <2>1 DEF TypeOK, VarTypes, Second, Execute, Goto, Steps
<1>4. ASSUME NEW t \in Threads, Raises(t) PROVE VarTypes'
  BY <1>4 DEF TypeOK, VarTypes, Raises, NoChange, Goto, Steps
<1>5. ASSUME NEW t \in Threads, Commit(t) PROVE VarTypes'
  BY <1>5 DEF TypeOK, VarTypes, Commit, CommitAll, NoChange, End, Goto, Steps, Answers
<1>6. ASSUME NEW t \in Threads, Undo(t) PROVE VarTypes'
  BY <1>6 DEF TypeOK, VarTypes, Undo, RollBack, End, Steps, Answers
<1>7. ASSUME NEW e \in Evaluations, Evaluate(e) PROVE VarTypes'
  <2>1. <<e, 0>> \in Rows
    BY DEF Rows
  <2>2. /\ committed' \subseteq Rows /\ working' \subseteq Rows
        /\ inTx' \in BOOLEAN /\ loop' \in {"idle", "rollback"}
    BY <1>7, <2>1 DEF TypeOK, VarTypes, Evaluate, NoChange
  <2> QED
    BY <1>7, <2>2 DEF TypeOK, VarTypes, Evaluate
<1>8. CASE EvaluatorRollsBack
  BY <1>8 DEF TypeOK, VarTypes, EvaluatorRollsBack, RollBack, Hits
<1>9. CASE MigrationsCommit
  BY <1>9 DEF TypeOK, VarTypes, MigrationsCommit, CommitAll, Hits
<1>10. CASE Crash
  BY <1>10 DEF TypeOK, VarTypes, Crash, RollBack, Answers
<1>11. CASE UNCHANGED vars
  BY <1>11 DEF TypeOK, VarTypes, vars
<1> QED
  BY <1>1, <1>2, <1>3, <1>4, <1>5, <1>6, <1>7, <1>8, <1>9, <1>10, <1>11
     DEF Next, Call

-----------------------------------------------------------------------------
(* The lock: one thread at a time is inside a store method.                *)
LEMMA OwnerStep == TypeOK /\ OwnerWorks /\ [Next]_vars => OwnerWorks'
<1> SUFFICES ASSUME TypeOK, OwnerWorks, [Next]_vars PROVE OwnerWorks'
  OBVIOUS
<1>1. ASSUME NEW t \in Threads, NEW w \in Writes, Begin(t, w)
      PROVE  OwnerWorks'
  BY <1>1, ConnectionAssumption DEF TypeOK, VarTypes, OwnerWorks, Begin
<1>2. ASSUME NEW t \in Threads, pc[t] # "idle", NEW s \in Steps, Goto(t, s)
      PROVE  OwnerWorks'
  BY <1>2 DEF TypeOK, VarTypes, OwnerWorks, Goto, Steps
<1>3. ASSUME NEW t \in Threads, pc[t] # "idle",
             NEW a \in {"ok", "error"}, End(t, a)
      PROVE  OwnerWorks'
  BY <1>3, ConnectionAssumption DEF TypeOK, VarTypes, OwnerWorks, End
<1>4. ASSUME NEW t \in Threads, Call(t) PROVE OwnerWorks'
  BY <1>1, <1>2, <1>3, <1>4
     DEF Call, First, Second, Raises, Commit, Undo, Steps
<1>5. ASSUME UNCHANGED <<lock, pc, job, answer>> PROVE OwnerWorks'
  BY <1>5 DEF OwnerWorks
<1>6. CASE Crash
  BY <1>6, ConnectionAssumption DEF TypeOK, VarTypes, OwnerWorks, Crash
<1> QED
  BY <1>4, <1>5, <1>6
     DEF Next, Evaluate, EvaluatorRollsBack, MigrationsCommit, vars

-----------------------------------------------------------------------------
IInv == TypeOK /\ LockFreeIsQuiet /\ AckIsWhole /\ TornInv

LEMMA IInvInit == Init => IInv
BY TypeInit, ConnectionAssumption
   DEF Init, IInv, LockFreeIsQuiet, AckIsWhole, TornInv, TornOnlyByStray, Ended,
       OwnerWorks, FreshWrites, WorkingIsOwners, WhoTore, Has

(* A step that concerns write w alone: what the three properties say of    *)
(* every write has to be shown of w only.                                  *)
Elsewhere(w) ==
    \A v \in Writes \ {w} : /\ answer'[v] = answer[v] /\ hit'[v] = hit[v]
                            /\ \A k \in {1, 2} : Has(v, k)' <=> Has(v, k)

LEMMA OneWrite ==
    ASSUME AckIsWhole, TornOnlyByStray, FreshWrites,
           NEW w \in Writes, Elsewhere(w), answer'[w] # "new",
           answer'[w] = "ok" => Has(w, 1)' /\ Has(w, 2)',
           Ended(w)' => /\ hit'[w] = "no" => (Has(w, 1)' <=> Has(w, 2)')
                        /\ Has(w, 2)' /\ ~Has(w, 1)' => hit'[w] = "rollback"
    PROVE  AckIsWhole' /\ TornOnlyByStray' /\ FreshWrites'
<1>1. ASSUME NEW v \in Writes, v # w
      PROVE  /\ answer'[v] = answer[v] /\ hit'[v] = hit[v]
             /\ Has(v, 1)' <=> Has(v, 1)
             /\ Has(v, 2)' <=> Has(v, 2)
  BY <1>1 DEF Elsewhere
<1>2. AckIsWhole'
  BY <1>1 DEF AckIsWhole
<1>3. TornOnlyByStray'
  BY <1>1 DEF TornOnlyByStray, Ended
<1>4. FreshWrites'
  BY <1>1 DEF FreshWrites
<1> QED
  BY <1>2, <1>3, <1>4

(* A statement of w puts a row that no other write has.                    *)
LEMMA ExecuteRow ==
    ASSUME NEW w \in Writes, NEW k \in {1, 2}, Execute(<<w, k>>)
    PROVE  /\ inTx' = inTx
           /\ inTx => committed' = committed /\ working' = working \cup {<<w, k>>}
           /\ ~inTx => /\ working' = working
                       /\ Has(w, k)'
                       /\ \A j \in {1, 2} \ {k} : Has(w, j)' <=> Has(w, j)
           /\ \A v \in Writes \ {w}, j \in {1, 2} : Has(v, j)' <=> Has(v, j)
BY DEF Execute, Has

LEMMA IInvStep == IInv /\ [Next]_vars => IInv'
<1> SUFFICES ASSUME IInv, [Next]_vars PROVE IInv'
  OBVIOUS
<1>t. TypeOK /\ OwnerWorks /\ TypeOK' /\ OwnerWorks'
  <2>1. VarTypes' /\ OwnerWorks'
    BY TypeStep, OwnerStep DEF IInv, TornInv
  <2> QED
    BY <2>1 DEF IInv, TornInv, TypeOK, OwnerWorks
<1>i. /\ LockFreeIsQuiet /\ AckIsWhole /\ TornOnlyByStray
      /\ FreshWrites /\ WorkingIsOwners /\ WhoTore
  BY DEF IInv, TornInv
<1> DEFINE Each == AckIsWhole /\ TornOnlyByStray /\ FreshWrites
           Tx == LockFreeIsQuiet /\ WorkingIsOwners /\ WhoTore
<1> SUFFICES Each' /\ Tx'
  BY <1>t DEF IInv, TornInv
<1>w. ASSUME NEW t \in Threads, pc[t] # "idle"
      PROVE  /\ job[t] \in Writes /\ lock = t /\ t # NoThread
             /\ answer[job[t]] = "under way"
  BY <1>w, <1>t, RowsOfThread, ConnectionAssumption
<1>1. ASSUME NEW t \in Threads, NEW w \in Writes, Begin(t, w)
      PROVE  Each' /\ Tx'
  <2>1. /\ answer' = [answer EXCEPT ![w] = "under way"] /\ answer[w] = "new"
        /\ UNCHANGED <<committed, working, hit>> /\ working = {}
        /\ inTx' = TRUE /\ lock' = t /\ job'[t] = w /\ pc'[t] = "first"
    BY <1>1, <1>t, <1>i DEF Begin, TypeOK, VarTypes, LockFreeIsQuiet
  <2>2. hit[w] = "no" /\ ~Has(w, 1) /\ ~Has(w, 2)
    BY <2>1, <1>i DEF FreshWrites
  <2>3. Elsewhere(w) /\ answer'[w] = "under way"
    BY <2>1, <1>t DEF Elsewhere, TypeOK, VarTypes, Has
  <2>4. Each'
    BY <2>3, <1>i, OneWrite DEF Ended
  <2>5. Tx'
    BY <2>1, <2>2, ConnectionAssumption
       DEF LockFreeIsQuiet, WorkingIsOwners, WhoTore, Has
  <2> QED
    BY <2>4, <2>5
<1>2. ASSUME NEW t \in Threads, First(t) PROVE Each' /\ Tx'
  <2>0. PICK w \in Writes : /\ w = job[t] /\ lock = t /\ t # NoThread
                            /\ answer[w] = "under way"
    BY <1>2, <1>w DEF First
  <2>1. /\ UNCHANGED <<answer, hit, lock, job>>
        /\ pc[t] = "first" /\ pc'[t] = "second" /\ Execute(<<w, 1>>)
    BY <1>2, <2>0, <1>t DEF First, Goto, TypeOK, VarTypes
  <2>2. Elsewhere(w)
    BY <2>0, <2>1, ExecuteRow DEF Elsewhere
  <2>3. Each'
    BY <2>0, <2>1, <2>2, <1>i, OneWrite DEF Ended
  <2>4. CASE inTx
    <3>1. working = {} /\ hit[w] = "no" /\ ~Has(w, 1) /\ ~Has(w, 2)
      BY <2>0, <2>1, <2>4, <1>i DEF WorkingIsOwners
    <3>2. inTx' /\ committed' = committed /\ working' = {<<w, 1>>}
      BY <2>0, <2>1, <2>4, <3>1, ExecuteRow
    <3> QED
      BY <2>0, <2>1, <2>3, <3>1, <3>2
         DEF LockFreeIsQuiet, WorkingIsOwners, WhoTore, Has
  <2>5. CASE ~inTx
    <3>1. ~inTx' /\ working' = working /\ working = {} /\ Has(w, 1)'
      BY <2>0, <2>1, <2>5, <1>i, ExecuteRow DEF WorkingIsOwners
    <3>2. hit[w] # "no"
      BY <2>0, <2>5, <1>i DEF WhoTore
    <3> QED
      BY <2>0, <2>1, <2>3, <3>1, <3>2
         DEF LockFreeIsQuiet, WorkingIsOwners, WhoTore
  <2> QED
    BY <2>3, <2>4, <2>5
<1>3. ASSUME NEW t \in Threads, Second(t) PROVE Each' /\ Tx'
  <2>0. PICK w \in Writes : /\ w = job[t] /\ lock = t /\ t # NoThread
                            /\ answer[w] = "under way"
    BY <1>3, <1>w DEF Second
  <2>1. /\ UNCHANGED <<answer, hit, lock, job>>
        /\ pc[t] = "second" /\ pc'[t] = "commit" /\ Execute(<<w, 2>>)
    BY <1>3, <2>0, <1>t DEF Second, Goto, TypeOK, VarTypes
  <2>2. Elsewhere(w)
    BY <2>0, <2>1, ExecuteRow DEF Elsewhere
  <2>3. Each'
    BY <2>0, <2>1, <2>2, <1>i, OneWrite DEF Ended
  <2>4. CASE inTx
    <3>1. /\ working = {<<w, 1>>} /\ hit[w] = "no"
          /\ ~Has(w, 1) /\ ~Has(w, 2)
      BY <2>0, <2>1, <2>4, <1>i DEF WorkingIsOwners
    <3>2. inTx' /\ committed' = committed /\ working' = {<<w, 1>>, <<w, 2>>}
      BY <2>0, <2>1, <2>4, <3>1, ExecuteRow
    <3> QED
      BY <2>0, <2>1, <2>3, <3>1, <3>2
         DEF LockFreeIsQuiet, WorkingIsOwners, WhoTore, Has
  <2>5. CASE ~inTx
    <3>1. /\ ~inTx' /\ working' = working /\ working = {}
          /\ Has(w, 1)' <=> Has(w, 1)
      <4>1. 1 \in {1, 2} \ {2} /\ 2 \in {1, 2}
        OBVIOUS
      <4> QED
        BY <2>0, <2>1, <2>5, <4>1, <1>i, ExecuteRow DEF WorkingIsOwners
    <3>2. hit[w] # "no" /\ (hit[w] = "commit" => Has(w, 1))
      BY <2>0, <2>1, <2>5, <1>i DEF WhoTore
    <3>3. hit[w] \in {"commit", "rollback"}
      BY <3>2, <2>0, <1>t DEF TypeOK, VarTypes
    <3> QED
      BY <2>0, <2>1, <2>3, <3>1, <3>2, <3>3
         DEF LockFreeIsQuiet, WorkingIsOwners, WhoTore
  <2> QED
    BY <2>3, <2>4, <2>5
<1>4. ASSUME NEW t \in Threads, Raises(t) PROVE Each' /\ Tx'
  <2>0. PICK w \in Writes : /\ w = job[t] /\ lock = t /\ t # NoThread
                            /\ answer[w] = "under way"
    BY <1>4, <1>w DEF Raises
  <2>1. /\ UNCHANGED <<answer, hit, lock, job, committed, working, inTx>>
        /\ pc'[t] = "undo" /\ pc[t] \in {"first", "second"}
    BY <1>4, <1>t DEF Raises, Goto, NoChange, TypeOK, VarTypes
  <2>2. Each'
    BY <2>1, <1>i DEF AckIsWhole, TornOnlyByStray, FreshWrites, Ended, Has
  <2>3. Tx'
    BY <2>0, <2>1, <1>i DEF LockFreeIsQuiet, WorkingIsOwners, WhoTore, Has
  <2> QED
    BY <2>2, <2>3
<1>5. ASSUME NEW t \in Threads, Commit(t) PROVE Each' /\ Tx'
  <2>0. PICK w \in Writes : /\ w = job[t] /\ lock = t /\ t # NoThread
                            /\ answer[w] = "under way"
    BY <1>5, <1>w DEF Commit
  <2>1. CASE inTx
    <3>1. /\ answer' = [answer EXCEPT ![w] = "ok"] /\ UNCHANGED hit
          /\ committed' = committed \cup working
          /\ working' = {} /\ ~inTx' /\ lock' = NoThread /\ pc[t] = "commit"
      BY <1>5, <2>0, <2>1 DEF Commit, CommitAll, End
    <3>2. working = {<<w, 1>>, <<w, 2>>}
      BY <2>0, <2>1, <3>1, <1>i DEF WorkingIsOwners
    <3>3. Has(w, 1)' /\ Has(w, 2)' /\ answer'[w] = "ok"
      BY <3>1, <3>2, <2>0, <1>t DEF Has, TypeOK, VarTypes
    <3>4. Elsewhere(w)
      BY <3>1, <3>2, <2>0, <1>t DEF Elsewhere, Has, TypeOK, VarTypes
    <3>5. Each'
      BY <3>3, <3>4, <2>0, <1>i, OneWrite
    <3> QED
      BY <3>1, <3>5 DEF LockFreeIsQuiet, WorkingIsOwners, WhoTore
  <2>2. CASE ~inTx
    <3>1. /\ UNCHANGED <<answer, hit, lock, job, committed, working, inTx>>
          /\ pc'[t] = "undo" /\ pc[t] = "commit"
      BY <1>5, <2>2, <1>t DEF Commit, Goto, NoChange, TypeOK, VarTypes
    <3>2. Each'
      BY <3>1, <1>i DEF AckIsWhole, TornOnlyByStray, FreshWrites, Ended, Has
    <3>3. Tx'
      BY <2>0, <3>1, <1>i DEF LockFreeIsQuiet, WorkingIsOwners, WhoTore, Has
    <3> QED
      BY <3>2, <3>3
  <2> QED
    BY <2>1, <2>2
<1>6. ASSUME NEW t \in Threads, Undo(t) PROVE Each' /\ Tx'
  <2>0. PICK w \in Writes : /\ w = job[t] /\ lock = t /\ t # NoThread
                            /\ answer[w] = "under way"
    BY <1>6, <1>w DEF Undo
  <2>1. /\ answer' = [answer EXCEPT ![w] = "error"]
        /\ UNCHANGED <<hit, committed>>
        /\ working' = {} /\ ~inTx' /\ lock' = NoThread
    BY <1>6, <2>0 DEF Undo, RollBack, End
  <2>2. Elsewhere(w) /\ answer'[w] = "error"
    BY <2>0, <2>1, <1>t DEF Elsewhere, Has, TypeOK, VarTypes
  <2>3. /\ hit[w] = "no" => ~Has(w, 1) /\ ~Has(w, 2)
        /\ Has(w, 2) /\ ~Has(w, 1) => hit[w] = "rollback"
    BY <2>0, <1>i DEF WorkingIsOwners, WhoTore
  <2>4. Each'
    BY <2>0, <2>1, <2>2, <2>3, <1>i, OneWrite DEF Has
  <2> QED
    BY <2>1, <2>4 DEF LockFreeIsQuiet, WorkingIsOwners, WhoTore
<1>7. ASSUME NEW e \in Evaluations, Evaluate(e) PROVE Each' /\ Tx'
  <2>1. lock = NoThread /\ ~inTx /\ working = {}
    BY <1>7, <1>i DEF Evaluate, LockFreeIsQuiet
  <2>2. /\ UNCHANGED <<answer, hit, lock, pc, job>>
        /\ ~inTx' /\ working' = {}
        /\ committed' = committed \/ committed' = committed \cup {<<e, 0>>}
    BY <1>7, <2>1 DEF Evaluate, NoChange
  <2>3. \A v \in Writes : \A k \in {1, 2} : Has(v, k)' <=> Has(v, k)
    BY <2>2 DEF Has
  <2>4. \A v \in Writes : /\ Has(v, 1)' <=> Has(v, 1)
                          /\ Has(v, 2)' <=> Has(v, 2)
    BY <2>3
  <2>5. Each'
    <3>1. AckIsWhole'
      BY <2>2, <2>4, <1>i DEF AckIsWhole
    <3>2. TornOnlyByStray'
      BY <2>2, <2>4, <1>i DEF TornOnlyByStray, Ended
    <3>3. FreshWrites'
      BY <2>2, <2>4, <1>i DEF FreshWrites
    <3> QED
      BY <3>1, <3>2, <3>3
  <2> QED
    BY <2>1, <2>2, <2>5 DEF LockFreeIsQuiet, WorkingIsOwners, WhoTore
<1>8. ASSUME EvaluatorRollsBack \/ MigrationsCommit, inTx
      PROVE  Each' /\ Tx'
  <2>0. PICK w \in Writes : /\ w = job[lock] /\ answer[w] = "under way"
                            /\ lock \in Threads /\ lock # NoThread
    BY <1>8, <1>i, <1>t DEF WorkingIsOwners, OwnerWorks, TypeOK, VarTypes
  <2>1. /\ UNCHANGED <<lock, pc, job, answer>>
        /\ working' = {} /\ ~inTx'
    BY <1>8 DEF EvaluatorRollsBack, MigrationsCommit, RollBack, CommitAll
  <2>2. \/ committed' = committed /\ hit' = [hit EXCEPT ![w] = "rollback"]
        \/ /\ committed' = committed \cup working
           /\ hit' = [hit EXCEPT ![w] = "commit"]
    BY <1>8, <2>0
       DEF EvaluatorRollsBack, MigrationsCommit, RollBack, CommitAll, Hits
  <2>3. working \subseteq {<<w, 1>>, <<w, 2>>} /\ ~Has(w, 1) /\ ~Has(w, 2)
    BY <1>8, <2>0, <1>i DEF WorkingIsOwners
  <2>4. Elsewhere(w)
    BY ZenonT(60), <2>0, <2>1, <2>2, <2>3, <1>t DEF Elsewhere, Has, TypeOK, VarTypes
  <2>5. Each'
    BY <2>0, <2>1, <2>4, <1>i, OneWrite DEF Ended
  <2>6. /\ pc[lock] \in {"second", "commit"} => <<w, 1>> \in working
        /\ <<w, 2>> \in working => <<w, 1>> \in working
    <3>1. working \in {{}, {<<w, 1>>}, {<<w, 1>>, <<w, 2>>}}
      BY <1>8, <2>0, <1>i DEF WorkingIsOwners
    <3>2. pc[lock] \in {"second", "commit"} => <<w, 1>> \in working
      BY <1>8, <2>0, <1>i DEF WorkingIsOwners
    <3>3. <<w, 2>> # <<w, 1>>
      OBVIOUS
    <3> QED
      BY <3>1, <3>2, <3>3
  <2>7. WhoTore'
    <3>1. CASE committed' = committed /\ hit' = [hit EXCEPT ![w] = "rollback"]
      BY <2>0, <2>1, <2>3, <3>1, <1>t DEF WhoTore, Has, TypeOK, VarTypes
    <3>2. CASE /\ committed' = committed \cup working
               /\ hit' = [hit EXCEPT ![w] = "commit"]
      BY <2>0, <2>1, <2>3, <2>6, <3>2, <1>t DEF WhoTore, Has, TypeOK, VarTypes
    <3> QED
      BY <2>2, <3>1, <3>2
  <2> QED
    BY <2>0, <2>1, <2>5, <2>7 DEF LockFreeIsQuiet, WorkingIsOwners
<1>9. ASSUME EvaluatorRollsBack, ~inTx PROVE Each' /\ Tx'
  <2>1. UNCHANGED <<lock, pc, job, answer, hit, committed, working, inTx>>
    BY <1>9, <1>i, <1>t
       DEF EvaluatorRollsBack, RollBack, Hits, WorkingIsOwners, TypeOK, VarTypes
  <2> QED
    BY <2>1, <1>i DEF AckIsWhole, TornOnlyByStray, FreshWrites, Ended, Has,
                      LockFreeIsQuiet, WorkingIsOwners, WhoTore
<1>10. CASE Crash
  <2>1. /\ UNCHANGED <<committed, hit>> /\ working' = {} /\ ~inTx'
        /\ lock' = NoThread
        /\ \A w \in Writes : answer'[w] = IF answer[w] = "under way"
                                          THEN "cut" ELSE answer[w]
    BY <1>10 DEF Crash, RollBack
  <2>2. ASSUME NEW w \in Writes, answer[w] = "under way"
        PROVE  /\ hit[w] = "no" => ~Has(w, 1) /\ ~Has(w, 2)
               /\ Has(w, 2) /\ ~Has(w, 1) => hit[w] = "rollback"
    <3>1. lock # NoThread /\ job[lock] = w
      BY <2>2, <1>t DEF OwnerWorks
    <3> QED
      BY <3>1, <1>i DEF WorkingIsOwners, WhoTore
  <2>3. AckIsWhole'
    BY <2>1, <1>i DEF AckIsWhole, Has
  <2>4. FreshWrites'
    BY <2>1, <1>i DEF FreshWrites, Has
  <2>5. TornOnlyByStray'
    <3> SUFFICES ASSUME NEW w \in Writes, Ended(w)'
                 PROVE  /\ hit[w] = "no" => (Has(w, 1) <=> Has(w, 2))
                        /\ Has(w, 2) /\ ~Has(w, 1) => hit[w] = "rollback"
      BY <2>1 DEF TornOnlyByStray, Has
    <3>1. answer[w] = "under way" \/ Ended(w)
      BY <2>1 DEF Ended
    <3> QED
      BY <3>1, <2>2, <1>i DEF TornOnlyByStray
  <2> QED
    BY <2>1, <2>3, <2>4, <2>5 DEF LockFreeIsQuiet, WorkingIsOwners, WhoTore
<1>11. CASE UNCHANGED vars
  BY <1>11, <1>i DEF vars, AckIsWhole, TornOnlyByStray, FreshWrites, Ended, Has,
                     LockFreeIsQuiet, WorkingIsOwners, WhoTore
<1>12. MigrationsCommit => inTx
  BY DEF MigrationsCommit
<1> QED
  BY <1>1, <1>2, <1>3, <1>4, <1>5, <1>6, <1>7, <1>8, <1>9, <1>10, <1>11, <1>12
     DEF Next, Call

LEMMA IInvAlways == Spec => []IInv
BY IInvInit, IInvStep, PTL DEF Spec

(* Every variable keeps its type (the model's TypeOK).                     *)
THEOREM TypeCorrect == Spec => []TypeOK
BY IInvAlways, PTL DEF IInv

(* Whoever takes the store's lock finds no transaction open, although two  *)
(* callers end transactions without it.                                    *)
THEOREM LockedReadsAreDurable == Spec => []LockFreeIsQuiet
BY IInvAlways, PTL DEF IInv

(* A write answered without error is durable with both its rows.           *)
THEOREM AcknowledgedWritesAreWhole == Spec => []AckIsWhole
BY IInvAlways, PTL DEF IInv

(* Only the two callers without the lock can tear a transaction; an        *)
(* unaudited status comes from the evaluator's rollback.                   *)
THEOREM OnlyStraysTear == Spec => []TornOnlyByStray
BY IInvAlways, PTL DEF IInv, TornInv

-----------------------------------------------------------------------------
(* The store as its callers see it.  What is written for a write that has  *)
(* not ended is not visible; what it has left is visible when it ends.     *)
LEMMA NothingAppears ==
    ASSUME committed \subseteq committed', UNCHANGED answer,
           \A row \in committed' \ committed : row[2] # 0 /\ ~Ended(row[1])
    PROVE  Visible' = Visible
BY DEF Visible, Ended

LEMMA UndisturbedLeaveNothing ==
    ASSUME IInv, NEW w \in Writes, answer[w] = "under way", hit[w] = "no"
    PROVE  /\ inTx /\ lock # NoThread /\ job[lock] = w
           /\ <<w, 1>> \notin committed /\ <<w, 2>> \notin committed
BY DEF IInv, TornInv, OwnerWorks, WorkingIsOwners, WhoTore, Has

LEMMA RowOf ==
    ASSUME IInv, NEW row \in committed
    PROVE  row[2] # 0 => /\ row[1] \in Writes
                         /\ row \in {<<row[1], 1>>, <<row[1], 2>>}
<1>1. row \in (Writes \X {1, 2}) \cup (Evaluations \X {0})
  BY DEF IInv, TypeOK, VarTypes, Rows
<1>2. CASE row \in Evaluations \X {0}
  BY <1>2
<1>3. CASE row \in Writes \X {1, 2}
  BY <1>3
<1> QED
  BY <1>1, <1>2, <1>3

(* What becomes visible when the writes of W, which are under way, end     *)
(* without success.                                                        *)
LEMMA EndsWithout ==
    ASSUME IInv, NEW W \in SUBSET Writes,
           \A w \in W : answer[w] = "under way" /\ answer'[w] \in {"error", "cut"},
           \A w \in Writes \ W : answer'[w] = answer[w],
           committed' = committed, hit' = hit
    PROVE  Store!Leaves(W)
<1> DEFINE left == {row \in committed : row[2] # 0 /\ row[1] \in W}
           gone == {w \in Writes : hit[w] # "no"}
<1>1. \A w \in Writes \ W : Ended(w)' <=> Ended(w)
  BY DEF Ended
<1>2. \A w \in W : Ended(w)' /\ ~Ended(w)
  BY DEF Ended
<1>3. \A row \in committed : row[2] # 0 => row[1] \in Writes
  BY RowOf
<1>4. Visible' = Visible \cup left
  BY <1>1, <1>2, <1>3 DEF Visible
<1>5. ASSUME NEW row \in left
      PROVE  row \in UNION {Store!Parts(w) : w \in W \cap gone}
  <2>1. PICK w \in W : w = row[1] /\ row \in {<<w, 1>>, <<w, 2>>}
    BY <1>5, RowOf
  <2>2. w \in Writes /\ answer[w] = "under way"
    OBVIOUS
  <2>3. hit[w] # "no"
    BY <1>5, <2>1, <2>2, UndisturbedLeaveNothing
  <2> QED
    BY <2>1, <2>2, <2>3 DEF Store!Parts
<1> HIDE DEF left
<1>6. left \in SUBSET UNION {Store!Parts(w) : w \in W \cap gone}
  BY <1>5
<1> QED
  BY <1>4, <1>6 DEF Store!Leaves

(* Every statement is a step of the atomic store or none at all.           *)
LEMMA CallIsAtomic ==
    ASSUME IInv, IInv', NEW t \in Threads, Call(t)
    PROVE  Store!ANext \/ UNCHANGED Store!storeVars
<1>0. /\ TypeOK /\ OwnerWorks /\ answer \in [Writes -> Answers]
      /\ job \in [Threads -> Writes \cup {NoWrite}] /\ pc \in [Threads -> Steps \cup {"idle"}]
  BY DEF IInv, TornInv, TypeOK, VarTypes
<1>1. ASSUME NEW w \in Writes, Begin(t, w)
      PROVE  Store!ANext
  <2>1. /\ answer[w] = "new" /\ answer' = [answer EXCEPT ![w] = "under way"]
        /\ committed' = committed /\ hit' = hit
    BY <1>1 DEF Begin
  <2>2. \A v \in Writes : Ended(v)' <=> Ended(v)
    BY <1>0, <2>1 DEF Ended
  <2>3. \A row \in committed : row[2] # 0 => row[1] \in Writes
    BY RowOf
  <2>4. Visible' = Visible
    <3>1. ASSUME NEW row \in committed
          PROVE  row \in Visible' <=> row \in Visible
      <4>1. CASE row[2] = 0
        BY <2>1, <4>1 DEF Visible
      <4>2. CASE row[2] # 0
        <5>1. row[1] \in Writes
          BY <2>3, <4>2
        <5>2. PICK v \in Writes : v = row[1]
          BY <5>1
        <5>3. Ended(v)' <=> Ended(v)
          BY <2>2, <5>2
        <5>4. answer'[v] \in {"ok", "error", "cut"} <=> answer[v] \in {"ok", "error", "cut"}
          BY <1>0, <2>1, <5>2
        <5> QED
          BY <2>1, <4>2, <5>2, <5>4 DEF Visible, Ended
      <4> QED
        BY <4>1, <4>2
    <3>2. Visible' \subseteq committed /\ Visible \subseteq committed
      BY <2>1 DEF Visible
    <3> QED
      BY <3>1, <3>2
  <2>5. Store!Start(w)
    BY <2>1, <2>4 DEF Store!Start
  <2> QED
    BY <2>5 DEF Store!ANext
<1>2. ASSUME pc[t] # "idle", NEW k \in {1, 2}, Execute(<<job[t], k>>),
             UNCHANGED <<answer, hit>>
      PROVE  UNCHANGED Store!storeVars
  <2>1. job[t] \in Writes /\ answer[job[t]] = "under way"
    BY <1>0, <1>2, RowsOfThread
  <2>2. committed \subseteq committed' /\ committed' \subseteq committed \cup {<<job[t], k>>}
    BY <1>2 DEF Execute
  <2>3. ~Ended(job[t])
    BY <2>1 DEF Ended
  <2>4. \A row \in committed' \ committed : row[2] # 0 /\ ~Ended(row[1])
    <3>1. \A row \in committed' \ committed : row = <<job[t], k>>
      BY <2>2
    <3>2. \A row : row = <<job[t], k>> => row[1] = job[t] /\ row[2] = k
      OBVIOUS
    <3> QED
      BY <2>3, <3>1, <3>2
  <2>5. Visible' = Visible
    BY <1>2, <2>2, <2>4, NothingAppears
  <2> QED
    BY <1>2, <2>5 DEF Store!storeVars
<1>3. CASE First(t)
  BY <1>2, <1>3 DEF First, Goto
<1>4. CASE Second(t)
  BY <1>2, <1>4 DEF Second, Goto
<1>5. ASSUME NoChange, UNCHANGED <<answer, hit>> PROVE UNCHANGED Store!storeVars
  <2>1. Visible' = Visible
    BY <1>5, NothingAppears DEF NoChange
  <2> QED
    BY <1>5, <2>1 DEF Store!storeVars
<1>6. CASE Raises(t)
  BY <1>5, <1>6 DEF Raises, Goto
<1>7. CASE Commit(t)
  <2>1. CASE ~inTx
    BY <1>5, <1>7, <2>1 DEF Commit, Goto
  <2>2. CASE inTx
    <3>0. PICK w : w = job[t]
      OBVIOUS
    <3>1. w \in Writes /\ lock = t /\ answer[w] = "under way"
      BY <1>0, <1>7, <3>0, RowsOfThread DEF Commit
    <3>2. hit[w] = "no" /\ working = {<<w, 1>>, <<w, 2>>}
      BY <1>7, <2>2, <3>0, <3>1 DEF Commit, IInv, TornInv, WorkingIsOwners
    <3>3. /\ committed' = committed \cup {<<w, 1>>, <<w, 2>>}
          /\ answer' = [answer EXCEPT ![w] = "ok"] /\ hit' = hit
      BY <1>7, <2>2, <3>0, <3>2 DEF Commit, CommitAll, End
    <3>4. /\ \A v \in Writes \ {w} : answer'[v] = answer[v]
          /\ answer'[w] = "ok"
      BY <1>0, <3>1, <3>3
    <3>5. \A row \in committed : row[2] # 0 => row[1] \in Writes
      BY RowOf
    <3>6. \A row \in committed : row[2] # 0 /\ row[1] = w
                                    => row \in {<<w, 1>>, <<w, 2>>}
      BY RowOf
    <3>7. Visible' = Visible \cup {<<w, 1>>, <<w, 2>>}
      <4>1. Ended(w)' /\ ~Ended(w)
        BY <3>1, <3>4 DEF Ended
      <4>2. \A v \in Writes \ {w} : Ended(v)' <=> Ended(v)
        BY <3>4 DEF Ended
      <4>3. ASSUME NEW row \in committed
            PROVE  row \in Visible' <=> row \in Visible \cup {<<w, 1>>, <<w, 2>>}
        <5>1. CASE row[2] = 0 \/ row[1] # w
          BY <3>3, <3>5, <4>2, <5>1 DEF Visible
        <5>2. CASE row[2] # 0 /\ row[1] = w
          BY <3>3, <3>6, <4>1, <5>2 DEF Visible
        <5> QED
          BY <5>1, <5>2
      <4>4. {<<w, 1>>, <<w, 2>>} \subseteq Visible'
        BY <3>3, <4>1 DEF Visible
      <4>5. Visible' \subseteq committed' /\ Visible \subseteq committed
        BY DEF Visible
      <4> QED
        BY <3>3, <4>3, <4>4, <4>5
    <3>8. Store!Succeed(w)
      BY <3>1, <3>2, <3>3, <3>7 DEF Store!Succeed, Store!Parts, Store!UnderWay
    <3> QED
      BY <3>1, <3>8 DEF Store!ANext
  <2> QED
    BY <2>1, <2>2
<1>8. CASE Undo(t)
  <2>0. PICK w : w = job[t]
    OBVIOUS
  <2>1. w \in Writes /\ answer[w] = "under way"
    BY <1>0, <1>8, <2>0, RowsOfThread DEF Undo
  <2>2. /\ answer' = [answer EXCEPT ![w] = "error"] /\ hit' = hit
        /\ committed' = committed
    BY <1>8, <2>0 DEF Undo, RollBack, End
  <2>3. Store!Leaves({w})
    BY <1>0, <2>1, <2>2, EndsWithout
  <2>4. Store!Fail(w)
    BY <2>1, <2>2, <2>3 DEF Store!Fail, Store!UnderWay
  <2> QED
    BY <2>1, <2>4 DEF Store!ANext
<1> QED
  BY <1>1, <1>3, <1>4, <1>6, <1>7, <1>8 DEF Call

LEMMA StepIsAtomic ==
    IInv /\ IInv' /\ [Next]_vars => [Store!ANext]_Store!storeVars
<1> SUFFICES ASSUME IInv, IInv', [Next]_vars
             PROVE  Store!ANext \/ UNCHANGED Store!storeVars
  OBVIOUS
<1>0. TypeOK /\ OwnerWorks /\ LockFreeIsQuiet /\ WorkingIsOwners
  BY DEF IInv, TornInv
<1>1. ASSUME inTx, UNCHANGED <<lock, job, answer>>,
             committed \subseteq committed', committed' \subseteq committed \cup working,
             NEW how \in {"rollback", "commit"}, Hits(how)
      PROVE  Store!ANext
  <2>0. PICK w : w = job[lock]
    OBVIOUS
  <2>1. w \in Writes /\ answer[w] = "under way"
    BY <1>0, <1>1, <2>0 DEF WorkingIsOwners, OwnerWorks
  <2>2. working \subseteq {<<w, 1>>, <<w, 2>>}
    BY <1>0, <1>1, <2>0 DEF WorkingIsOwners
  <2>3. hit' = [hit EXCEPT ![w] = how]
    BY <1>1, <2>0 DEF Hits
  <2>4. hit \in [Writes -> {"no", "rollback", "commit"}]
    BY <1>0 DEF TypeOK, VarTypes
  <2>5. Visible' = Visible
    <3>1. \A row \in committed' \ committed : row[2] # 0 /\ row[1] = w
      BY <1>1, <2>2
    <3>2. ~Ended(w)
      BY <2>1 DEF Ended
    <3> QED
      BY <1>1, <3>1, <3>2, NothingAppears
  <2>6. {v \in Writes : hit'[v] # "no"} = {v \in Writes : hit[v] # "no"} \cup {w}
    BY <2>1, <2>3, <2>4
  <2>7. Store!Disturb(w)
    BY <1>1, <2>1, <2>5, <2>6 DEF Store!Disturb, Store!UnderWay
  <2> QED
    BY <2>1, <2>7 DEF Store!ANext
<1>2. ASSUME committed' = committed, UNCHANGED <<answer, hit>>
      PROVE  UNCHANGED Store!storeVars
  <2>1. Visible' = Visible
    BY <1>2, NothingAppears
  <2> QED
    BY <1>2, <2>1 DEF Store!storeVars
<1>3. ASSUME NEW e \in Evaluations, Evaluate(e)
      PROVE  Store!ANext \/ UNCHANGED Store!storeVars
  <2>1. working = {} /\ UNCHANGED <<answer, hit>>
    BY <1>0, <1>3 DEF LockFreeIsQuiet, Evaluate
  <2>2. CASE committed' = committed
    BY <1>2, <2>1, <2>2
  <2>3. CASE committed' = committed \cup working \cup {<<e, 0>>}
    <3>1. Visible' = Visible \cup {<<e, 0>>}
      BY <2>1, <2>3 DEF Visible, Ended
    <3>2. Store!Record(e)
      BY <2>1, <3>1 DEF Store!Record
    <3> QED
      BY <3>2 DEF Store!ANext
  <2> QED
    BY <1>3, <2>2, <2>3 DEF Evaluate, NoChange
<1>4. CASE EvaluatorRollsBack
  <2>1. CASE inTx
    BY <1>1, <1>4, <2>1 DEF EvaluatorRollsBack, RollBack
  <2>2. CASE ~inTx
    BY <1>2, <1>4, <2>2 DEF EvaluatorRollsBack, RollBack, Hits
  <2> QED
    BY <2>1, <2>2
<1>5. CASE MigrationsCommit
  BY <1>1, <1>5 DEF MigrationsCommit, CommitAll
<1>6. CASE Crash
  <2> DEFINE W == {w \in Writes : answer[w] = "under way"}
  <2>1. /\ answer' = [w \in Writes |-> IF answer[w] = "under way" THEN "cut"
                                       ELSE answer[w]]
        /\ committed' = committed /\ hit' = hit
    BY <1>6 DEF Crash, RollBack
  <2>2. Store!Leaves(W)
    BY <2>1, EndsWithout
  <2>3. W = Store!UnderWay
    BY DEF Store!UnderWay
  <2>4. Store!CutOff
    BY <2>1, <2>2, <2>3 DEF Store!CutOff
  <2> QED
    BY <2>4 DEF Store!ANext
<1>7. CASE UNCHANGED vars
  BY <1>2, <1>7 DEF vars
<1> QED
  BY <1>3, <1>4, <1>5, <1>6, <1>7, CallIsAtomic DEF Next

(* The statements of a write, the locks they take and the transactions     *)
(* others end implement a store whose writes take effect at once: for any  *)
(* number of threads, writes and evaluations.                              *)
THEOREM StoreMethodsAreAtomic == Spec => StoreIsAtomic
<1>1. Init => Store!AInit
  BY DEF Init, Store!AInit, Visible
<1> QED
  BY <1>1, IInvAlways, StepIsAtomic, PTL DEF Spec, StoreIsAtomic, Store!ASpec
=============================================================================

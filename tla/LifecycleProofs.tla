-------------------------- MODULE LifecycleProofs --------------------------
(***************************************************************************)
(* Theorems about Lifecycle, for any sets of items, threads and keys.      *)
(***************************************************************************)
EXTENDS Lifecycle, SequenceTheorems, TLAPS

-----------------------------------------------------------------------------
(* Facts about the definitions the proofs rest on.                         *)

LEMMA CallShape ==
    ASSUME NEW c \in Calls
    PROVE  /\ c.item \in Items
           /\ c.to \in Statuses
           /\ c.reason \in Reasons
           /\ c.key \in Keys \cup {NoKey}
           /\ c # NoCall
BY LifecycleAssumption
   DEF Calls, Reviews, Promotions, Merges, Reasons, Statuses, NoCall

LEMMA AllowedShape ==
    ASSUME NEW s \in Statuses
    PROVE  /\ Allowed(s) \subseteq Statuses
           /\ "PROMOTED_TO_WORKS" \in Allowed(s) => s = "APPROVED"
BY DEF Allowed, Statuses

(* The types of the model: what every action reads and writes.             *)
LEMMA TypeInit == Init => TypeOK
BY DEF Init, TypeOK, Statuses, Answered, Steps

LEMMA TypeStep == TypeOK /\ [Next]_vars => TypeOK'
<1> SUFFICES ASSUME TypeOK, [Next]_vars PROVE TypeOK'
  OBVIOUS
<1> USE DEF TypeOK
<1>1. ASSUME NEW t \in Threads, NEW c \in Calls, Receive(t, c) PROVE TypeOK'
  <2>1. FirstStep[c.op] \in Steps
    BY DEF Calls, Reviews, Promotions, Merges, FirstStep, Steps
  <2> QED
    BY <1>1, <2>1 DEF Receive
<1>2. ASSUME NEW t \in Threads, pc[t] \in Steps, NEW next, Read(t, next),
             next \in Answered \cup Steps, audit' \in Seq(Row), now' \in Nat,
             stamp' \in [Threads -> Nat],
             UNCHANGED <<status, allowWorks, call>>
      PROVE  TypeOK'
  <2>1. status[call[t].item] \in Statuses
    BY <1>2, CallShape
  <2> QED
    BY <1>2, <2>1 DEF Read
<1>3. ASSUME NEW t \in Threads, MergeDetail(t) PROVE TypeOK'
  BY <1>2, <1>3 DEF MergeDetail, Steps
<1>4. ASSUME NEW t \in Threads, MergeKeyLookup(t) PROVE TypeOK'
  BY <1>4 DEF MergeKeyLookup, Answer, Answered, Steps
<1>5. ASSUME NEW t \in Threads, MergeReplayLookup(t) PROVE TypeOK'
  BY <1>5 DEF MergeReplayLookup, Answer, Answered, Steps
<1>6. ASSUME NEW t \in Threads, PromoteGet(t) PROVE TypeOK'
  BY <1>2, <1>6 DEF PromoteGet, Steps
<1>7. ASSUME NEW t \in Threads, PromoteGate(t) PROVE TypeOK'
  BY <1>7 DEF PromoteGate, Answer, Answered, Steps
<1>8. ASSUME NEW t \in Threads, ApplyRefuse(t) PROVE TypeOK'
  BY <1>2, <1>8 DEF ApplyRefuse, Answered, Steps
<1>9. ASSUME NEW t \in Threads, ApplyCheck(t) PROVE TypeOK'
  BY <1>2, <1>9 DEF ApplyCheck, Steps
<1>10. ASSUME NEW t \in Threads, WriteTransition(t) PROVE TypeOK'
  <2>1. call[t] \in Calls /\ call[t].to \in Statuses /\ NewRow(t) \in Row
    BY <1>10, CallShape DEF WriteTransition, NewRow, Row, Steps
  <2>2. audit' \in Seq(Row) /\ status' \in [Items -> Statuses]
    BY <1>10, <2>1, CallShape DEF WriteTransition
  <2>3. pc' = [pc EXCEPT ![t] = "ok"] /\ "ok" \in Answered /\ "ok" \notin Steps
    BY <1>10 DEF WriteTransition, Answer, Answered, Steps
  <2> QED
    BY <1>10, <2>2, <2>3 DEF WriteTransition
<1>11. CASE SetPolicy
  BY <1>11 DEF SetPolicy
<1>12. CASE UNCHANGED vars
  BY <1>12 DEF vars
<1> QED
  BY <1>1, <1>3, <1>4, <1>5, <1>6, <1>7, <1>8, <1>9, <1>10, <1>11, <1>12
     DEF Next, Serve

(* Every variable keeps its type, whatever the threads do (the model's     *)
(* TypeOK): the lemma the other theorems start from.                       *)
THEOREM TypeCorrect == Spec => []TypeOK
BY TypeInit, TypeStep, PTL DEF Spec

-----------------------------------------------------------------------------
(* How the trail grows: the steps of the model seen from the audit rows.   *)

LEMMA RowTypes ==
    ASSUME TypeOK, NEW k \in DOMAIN audit
    PROVE  audit[k] \in Row /\ audit[k].done \in Nat
<1>1. audit[k] \in Row
  BY DEF TypeOK
<1> QED
  BY <1>1 DEF Row

(* A row appended to a trail leaves what the rows before it say.           *)
LEMMA AppendKeepsRows ==
    ASSUME NEW log \in Seq(Row), NEW r \in Row, NEW n \in 0..Len(log),
           NEW i, NEW s, NEW at
    PROVE  /\ StatusAfter(Append(log, r), n, i, s) <=> StatusAfter(log, n, i, s)
           /\ Overtaken(Append(log, r), n, i, at) <=> Overtaken(log, n, i, at)
           /\ Reached(Append(log, r), n, i, s) <=> Reached(log, n, i, s)
<1>1. \A k \in 1..n : Append(log, r)[k] = log[k]
  OBVIOUS
<1>2. \A k \in 1..n : (k+1)..n \subseteq 1..n
  OBVIOUS
<1> QED
  BY <1>1, <1>2 DEF StatusAfter, Overtaken, Reached

(* What the new row itself adds.                                           *)
LEMMA AppendAddsRow ==
    ASSUME NEW log \in Seq(Row), NEW r \in Row, NEW i, NEW s, NEW at
    PROVE  LET new == Append(log, r)
               n == Len(log)
           IN  /\ Len(new) = n + 1 /\ new[n + 1] = r
               /\ i = r.item => StatusAfter(new, n + 1, i, r.to)
               /\ i # r.item /\ StatusAfter(log, n, i, s)
                     => StatusAfter(new, n + 1, i, s)
               /\ i = r.item /\ at < r.done => Overtaken(new, n + 1, i, at)
               /\ Overtaken(log, n, i, at) => Overtaken(new, n + 1, i, at)
               /\ i = r.item => Reached(new, n + 1, i, r.to)
               /\ Reached(log, n, i, s) => Reached(new, n + 1, i, s)
<1> DEFINE new == Append(log, r)
           n == Len(log)
<1>1. /\ n \in Nat /\ Len(new) = n + 1 /\ new[n + 1] = r
      /\ \A k \in 1..n : new[k] = log[k]
  OBVIOUS
<1> HIDE DEF new, n
<1>2. i = r.item => StatusAfter(new, n + 1, i, r.to)
  BY <1>1 DEF StatusAfter
<1>3. ASSUME i # r.item, StatusAfter(log, n, i, s)
      PROVE  StatusAfter(new, n + 1, i, s)
  <2>1. ASSUME \A k \in 1..n : log[k].item # i
        PROVE  \A k \in 1..(n + 1) : new[k].item # i
    BY <1>1, <1>3, <2>1
  <2>2. ASSUME NEW k \in 1..n, \A j \in (k + 1)..n : log[j].item # i
        PROVE  \A j \in (k + 1)..(n + 1) : new[j].item # i
    BY <1>1, <1>3, <2>2
  <2> QED
    BY <1>1, <1>3, <2>1, <2>2 DEF StatusAfter
<1>4. /\ i = r.item /\ at < r.done => Overtaken(new, n + 1, i, at)
      /\ Overtaken(log, n, i, at) => Overtaken(new, n + 1, i, at)
  BY <1>1 DEF Overtaken
<1>5. /\ i = r.item => Reached(new, n + 1, i, r.to)
      /\ Reached(log, n, i, s) => Reached(new, n + 1, i, s)
  BY <1>1 DEF Reached
<1> QED
  BY <1>1, <1>2, <1>3, <1>4, <1>5 DEF new, n

(* Every step either leaves trail, statuses and clock alone, as do the     *)
(* threads' writes that are due, or is one of the two that count.          *)
QuietStep ==
    /\ UNCHANGED <<status, audit, now, stamp>>
    /\ \A t \in Threads : pc'[t] = "write" =>
          pc[t] = "write" /\ call'[t] = call[t] /\ seen'[t] = seen[t]

LEMMA StepKinds ==
    ASSUME TypeOK, [Next]_vars
    PROVE  \/ QuietStep
           \/ \E t \in Threads : ApplyCheck(t)
           \/ \E t \in Threads : WriteTransition(t)
<1> USE DEF TypeOK, QuietStep
<1>1. ASSUME NEW t \in Threads, NEW c \in Calls, Receive(t, c) PROVE QuietStep
  <2>1. FirstStep[c.op] # "write"
    BY DEF Calls, Reviews, Promotions, Merges, FirstStep
  <2> QED
    BY <1>1, <2>1 DEF Receive
<1>2. ASSUME NEW t \in Threads,
             MergeDetail(t) \/ PromoteGet(t) \/ ApplyRefuse(t)
      PROVE  QuietStep
  BY <1>2 DEF MergeDetail, PromoteGet, ApplyRefuse, Read
<1>3. ASSUME NEW t \in Threads,
             MergeKeyLookup(t) \/ MergeReplayLookup(t) \/ PromoteGate(t)
      PROVE  QuietStep
  BY <1>3 DEF MergeKeyLookup, MergeReplayLookup, PromoteGate, Answer
<1>4. CASE SetPolicy
  BY <1>4 DEF SetPolicy
<1>5. CASE UNCHANGED vars
  BY <1>5 DEF vars
<1> QED
  BY <1>1, <1>2, <1>3, <1>4, <1>5 DEF Next, Serve

-----------------------------------------------------------------------------
(* The trail and the status column.                                        *)

LEMMA TrailInit == Init => TrailInv
BY DEF Init, TrailInv, StatusIsLastRow, StatusAfter, StaleOnlyIfOvertaken,
       RowsInThePast, WritesAreBased

LEMMA TrailStep == TypeOK /\ TrailInv /\ [Next]_vars => TrailInv'
<1> SUFFICES ASSUME TypeOK, TrailInv, [Next]_vars PROVE TrailInv'
  OBVIOUS
<1> USE DEF TypeOK
<1>1. CASE QuietStep
  BY <1>1 DEF QuietStep, TrailInv, StatusIsLastRow, StaleOnlyIfOvertaken,
              RowsInThePast, WritesAreBased
<1>2. ASSUME NEW t \in Threads, ApplyCheck(t) PROVE TrailInv'
  <2>1. UNCHANGED <<status, audit, call>> /\ now' = now + 1
    BY <1>2 DEF ApplyCheck
  <2>2. StatusIsLastRow' /\ StaleOnlyIfOvertaken'
    BY <2>1 DEF TrailInv, StatusIsLastRow, StaleOnlyIfOvertaken
  <2>3. RowsInThePast'
    <3>1. \A k \in DOMAIN audit : audit[k].done \in Nat
      BY RowTypes
    <3> QED
      BY <2>1, <3>1 DEF TrailInv, RowsInThePast
  <2>4. WritesAreBased'
    BY <1>2, <2>1 DEF TrailInv, WritesAreBased, ApplyCheck, Read
  <2> QED
    BY <2>2, <2>3, <2>4 DEF TrailInv
<1>3. ASSUME NEW t \in Threads, WriteTransition(t) PROVE TrailInv'
  <2> DEFINE i == call[t].item
             L == Len(audit)
             r == NewRow(t)
  <2>1. /\ pc[t] = "write" /\ call[t] \in Calls /\ r \in Row /\ i \in Items
        /\ audit' = Append(audit, r) /\ now' = now + 1
        /\ status' = [status EXCEPT ![i] = call[t].to]
        /\ UNCHANGED <<call, seen, stamp>>
        /\ pc' = [pc EXCEPT ![t] = "ok"]
    BY <1>3, CallShape DEF WriteTransition, NewRow, Row, Steps, Answer
  <2>2. /\ r.item = i /\ r.to = call[t].to /\ r.from = seen[t]
        /\ r.at = stamp[t] /\ r.done = now
    BY DEF NewRow
  <2>3. /\ L \in Nat /\ Len(audit') = L + 1 /\ DOMAIN audit' = 1..(L + 1)
        /\ DOMAIN audit = 1..L
        /\ audit'[L + 1] = r /\ \A k \in 1..L : audit'[k] = audit[k]
    BY <2>1
  <2>4. StatusIsLastRow'
    <3> SUFFICES ASSUME NEW j \in Items
                 PROVE  StatusAfter(audit', L + 1, j, status'[j])
      BY <2>3 DEF StatusIsLastRow
    <3>1. StatusAfter(audit, L, j, status[j])
      BY DEF TrailInv, StatusIsLastRow
    <3>2. /\ j = i => StatusAfter(audit', L + 1, j, r.to)
          /\ j # i => StatusAfter(audit', L + 1, j, status[j])
      BY <2>1, <2>2, <3>1, AppendAddsRow
    <3> QED
      BY <2>1, <2>2, <3>2
  <2>5. StaleOnlyIfOvertaken'
    <3> SUFFICES ASSUME NEW n \in 1..(L + 1)
                 PROVE  \/ StatusAfter(audit', n - 1, audit'[n].item,
                                       audit'[n].from)
                        \/ Overtaken(audit', n - 1, audit'[n].item,
                                     audit'[n].at)
      BY <2>3 DEF StaleOnlyIfOvertaken
    <3>0. n - 1 \in 0..L
      BY <2>3
    <3>1. CASE n \in 1..L
      <4>1. \/ StatusAfter(audit, n - 1, audit[n].item, audit[n].from)
            \/ Overtaken(audit, n - 1, audit[n].item, audit[n].at)
        BY <2>3, <3>1 DEF TrailInv, StaleOnlyIfOvertaken
      <4>2. audit'[n] = audit[n]
        BY <2>3, <3>1
      <4> QED
        BY <2>1, <3>0, <4>1, <4>2, AppendKeepsRows
    <3>2. CASE n = L + 1
      <4>1. seen[t] = status[i] \/ Overtaken(audit, L, i, stamp[t])
        BY <2>1 DEF TrailInv, WritesAreBased
      <4>2. StatusAfter(audit, L, i, status[i])
        BY <2>1 DEF TrailInv, StatusIsLastRow
      <4>3. /\ StatusAfter(audit', L, i, status[i])
            /\ Overtaken(audit, L, i, stamp[t])
                 => Overtaken(audit', L, i, stamp[t])
        <5>1. L \in 0..Len(audit)
          BY <2>3
        <5> QED
          BY <2>1, <4>2, <5>1, AppendKeepsRows
      <4>4. n - 1 = L /\ audit'[n] = r
        BY <2>3, <3>2
      <4> QED
        BY <2>2, <4>1, <4>3, <4>4
    <3> QED
      BY <3>1, <3>2
  <2>6. RowsInThePast'
    <3>1. \A k \in 1..L : audit[k].done \in Nat /\ audit[k].done < now
      BY <2>3, RowTypes DEF TrailInv, RowsInThePast
    <3>2. \A k \in 1..(L + 1) : audit'[k].done < now + 1
      BY <2>2, <2>3, <3>1
    <3> QED
      BY <2>1, <2>3, <3>2 DEF RowsInThePast
  <2>7. WritesAreBased'
    <3> SUFFICES ASSUME NEW u \in Threads, u # t, pc[u] = "write"
                 PROVE  /\ stamp[u] < now + 1
                        /\ \/ seen[u] = status'[call[u].item]
                           \/ Overtaken(audit', L + 1, call[u].item, stamp[u])
      BY <2>1, <2>3 DEF WritesAreBased
    <3>1. /\ stamp[u] < now
          /\ \/ seen[u] = status[call[u].item]
             \/ Overtaken(audit, L, call[u].item, stamp[u])
      BY DEF TrailInv, WritesAreBased
    <3>2. call[u].item = i => Overtaken(audit', L + 1, call[u].item, stamp[u])
      BY <2>1, <2>2, <3>1, AppendAddsRow
    <3>3. Overtaken(audit, L, call[u].item, stamp[u])
            => Overtaken(audit', L + 1, call[u].item, stamp[u])
      BY <2>1, AppendAddsRow
    <3>4. call[u].item # i => status'[call[u].item] = status[call[u].item]
      BY <2>1
    <3>5. stamp[u] < now + 1
      BY <3>1
    <3> QED
      BY <3>1, <3>2, <3>3, <3>4, <3>5
  <2> QED
    BY <2>4, <2>5, <2>6, <2>7 DEF TrailInv
<1> QED
  BY <1>1, <1>2, <1>3, StepKinds

(* The status column always agrees with the last committed audit row:      *)
(* write_transition keeps the two together (store.py 537-569).             *)
THEOREM StatusFollowsTrail == Spec => []StatusIsLastRow
<1>1. TrailInv => StatusIsLastRow
  BY DEF TrailInv
<1> QED
  BY TrailInit, TrailStep, TypeCorrect, <1>1, PTL DEF Spec

(* A request leaves the strict machine only if another request for the     *)
(* same item committed between its check and its write.                    *)
THEOREM StaleNeedsOverlap == Spec => []StaleOnlyIfOvertaken
<1>1. TrailInv => StaleOnlyIfOvertaken
  BY DEF TrailInv
<1> QED
  BY TrailInit, TrailStep, TypeCorrect, <1>1, PTL DEF Spec

-----------------------------------------------------------------------------
(* Promotion only after approval.                                          *)

LEMMA ApprovalInit == Init => ApprovalInv
BY DEF Init, ApprovalInv, PromotedAfterApproval, ApprovalsHaveRows,
       PromotersSawApproval

LEMMA ApprovalStep == TypeOK /\ ApprovalInv /\ [Next]_vars => ApprovalInv'
<1> SUFFICES ASSUME TypeOK, ApprovalInv, [Next]_vars PROVE ApprovalInv'
  OBVIOUS
<1> USE DEF TypeOK
<1>1. CASE QuietStep
  BY <1>1 DEF QuietStep, ApprovalInv, PromotedAfterApproval,
              ApprovalsHaveRows, PromotersSawApproval
<1>2. ASSUME NEW t \in Threads, ApplyCheck(t) PROVE ApprovalInv'
  <2>1. UNCHANGED <<status, audit, call>>
    BY <1>2 DEF ApplyCheck
  <2>2. PromotedAfterApproval' /\ ApprovalsHaveRows'
    BY <2>1 DEF ApprovalInv, PromotedAfterApproval, ApprovalsHaveRows
  <2>3. call[t].to = "PROMOTED_TO_WORKS" =>
          /\ call[t].item \in Items
          /\ status[call[t].item] = "APPROVED"
    BY <1>2, CallShape, AllowedShape DEF ApplyCheck, Legal, Steps
  <2>4. PromotersSawApproval'
    BY <1>2, <2>1, <2>3
       DEF ApprovalInv, ApprovalsHaveRows, PromotersSawApproval, ApplyCheck, Read
  <2> QED
    BY <2>2, <2>4 DEF ApprovalInv
<1>3. ASSUME NEW t \in Threads, WriteTransition(t) PROVE ApprovalInv'
  <2> DEFINE i == call[t].item
             L == Len(audit)
             r == NewRow(t)
  <2>1. /\ pc[t] = "write" /\ call[t] \in Calls /\ r \in Row /\ i \in Items
        /\ audit' = Append(audit, r) /\ UNCHANGED call
        /\ status' = [status EXCEPT ![i] = call[t].to]
        /\ pc' = [pc EXCEPT ![t] = "ok"]
    BY <1>3, CallShape DEF WriteTransition, NewRow, Row, Steps, Answer
  <2>2. r.item = i /\ r.to = call[t].to
    BY DEF NewRow
  <2>3. /\ L \in Nat /\ Len(audit') = L + 1 /\ DOMAIN audit' = 1..(L + 1)
        /\ DOMAIN audit = 1..L
        /\ audit'[L + 1] = r /\ \A k \in 1..L : audit'[k] = audit[k]
    BY <2>1
  <2>4. ASSUME NEW n \in 0..L, NEW j, Reached(audit, n, j, "APPROVED")
        PROVE  Reached(audit', n, j, "APPROVED")
    BY <2>1, <2>4, AppendKeepsRows
  <2>5. ASSUME NEW j, Reached(audit, L, j, "APPROVED")
        PROVE  Reached(audit', L + 1, j, "APPROVED")
    BY <2>1, <2>5, AppendAddsRow
  <2>6. PromotedAfterApproval'
    <3> SUFFICES ASSUME NEW n \in 1..(L + 1),
                        audit'[n].to = "PROMOTED_TO_WORKS"
                 PROVE  Reached(audit', n - 1, audit'[n].item, "APPROVED")
      BY <2>3 DEF PromotedAfterApproval
    <3>1. n - 1 \in 0..L
      BY <2>3
    <3>2. CASE n \in 1..L
      <4>1. audit'[n] = audit[n]
        BY <2>3, <3>2
      <4>2. Reached(audit, n - 1, audit[n].item, "APPROVED")
        BY <2>3, <3>2, <4>1 DEF ApprovalInv, PromotedAfterApproval
      <4> QED
        BY <2>4, <3>1, <4>1, <4>2
    <3>3. CASE n = L + 1
      <4>1. n - 1 = L /\ audit'[n] = r
        BY <2>3, <3>3
      <4>2. Reached(audit, L, i, "APPROVED")
        BY <2>1, <2>2, <4>1 DEF ApprovalInv, PromotersSawApproval
      <4> QED
        BY <2>2, <2>4, <3>1, <4>1, <4>2
    <3> QED
      BY <3>2, <3>3
  <2>7. ApprovalsHaveRows'
    <3> SUFFICES ASSUME NEW j \in Items, status'[j] = "APPROVED"
                 PROVE  Reached(audit', L + 1, j, "APPROVED")
      BY <2>3 DEF ApprovalsHaveRows
    <3>1. j = i => Reached(audit', L + 1, j, r.to)
      BY <2>1, <2>2, AppendAddsRow
    <3>2. j # i => status[j] = "APPROVED"
      BY <2>1
    <3>3. j = i => r.to = "APPROVED"
      BY <2>1, <2>2
    <3> QED
      BY <2>5, <3>1, <3>2, <3>3 DEF ApprovalInv, ApprovalsHaveRows
  <2>8. PromotersSawApproval'
    <3> SUFFICES ASSUME NEW u \in Threads, pc[u] = "write",
                        call[u].to = "PROMOTED_TO_WORKS"
                 PROVE  Reached(audit', L + 1, call[u].item, "APPROVED")
      BY <2>1, <2>3 DEF PromotersSawApproval
    <3> QED
      BY <2>5 DEF ApprovalInv, PromotersSawApproval
  <2> QED
    BY <2>6, <2>7, <2>8 DEF ApprovalInv
<1> QED
  BY <1>1, <1>2, <1>3, StepKinds

(* No interleaving promotes an item nobody approved: the status test of    *)
(* promote_to_works and the edge table guard one another.                  *)
THEOREM PromotionNeedsApproval == Spec => []PromotedAfterApproval
<1>1. ApprovalInv => PromotedAfterApproval
  BY DEF ApprovalInv
<1> QED
  BY ApprovalInit, ApprovalStep, TypeCorrect, <1>1, PTL DEF Spec

-----------------------------------------------------------------------------
(* Requests served one at a time implement the strict machine.             *)

(* What a thread is about to write is an edge from the status column.      *)
WritesAreEdges ==
    \A t \in Threads : pc[t] = "write" =>
        <<status[call[t].item], call[t].to>> \in SM!Edges
            /\ seen[t] = status[call[t].item]

LEMMA EdgesAllowed ==
    ASSUME NEW s \in Statuses, NEW to \in Allowed(s)
    PROVE  <<s, to>> \in SM!Edges
BY DEF Allowed, Statuses, SM!Edges

LEMMA TrailGrows ==
    ASSUME NEW log \in Seq(Row), NEW r \in Row
    PROVE  Trail(Append(log, r)) = Append(Trail(log), <<r.item, r.from, r.to>>)
<1> DEFINE x == <<r.item, r.from, r.to>>
           T == {<<log[k].item, log[k].from, log[k].to>> : k \in 1..Len(log)}
                  \cup {x}
           n == Len(log)
<1>1. n \in Nat /\ Len(Append(log, r)) = n + 1
  OBVIOUS
<1>2. Trail(log) \in Seq(T) /\ Len(Trail(log)) = n
  BY <1>1 DEF Trail
<1>3. \A k \in 1..(n + 1) :
        Append(log, r)[k] = IF k = n + 1 THEN r ELSE log[k]
  OBVIOUS
<1>4. Trail(Append(log, r)) \in Seq(T)
  BY <1>1, <1>3 DEF Trail
<1>5. Append(Trail(log), x) \in Seq(T) /\ Len(Append(Trail(log), x)) = n + 1
  BY <1>2
<1>6. Len(Trail(Append(log, r))) = n + 1
  BY <1>1, <1>4 DEF Trail
<1>7. \A k \in 1..(n + 1) : Append(Trail(log), x)[k] = Trail(Append(log, r))[k]
  BY <1>1, <1>2, <1>3 DEF Trail
<1> QED
  BY <1>4, <1>5, <1>6, <1>7, SeqEqual

(* With one thread, every step of the engine is a step of the strict       *)
(* machine or leaves it alone: the checks of _apply suffice when no other  *)
(* request runs.                                                           *)
THEOREM SerialEngineIsStrict ==
    ASSUME NEW one, Threads = {one}
    PROVE  Spec => StrictMachineSpec
<1>1. Init => SM!SInit /\ WritesAreEdges
  BY DEF Init, SM!SInit, WritesAreEdges, Trail
<1>2. TypeOK /\ WritesAreEdges /\ [Next]_vars
        => WritesAreEdges' /\ [SM!SNext]_SM!svars
  <2> SUFFICES ASSUME TypeOK, WritesAreEdges, [Next]_vars
               PROVE  WritesAreEdges' /\ [SM!SNext]_SM!svars
    OBVIOUS
  <2> USE DEF TypeOK
  <2>1. CASE QuietStep
    BY <2>1 DEF QuietStep, WritesAreEdges, SM!svars
  <2>2. ASSUME NEW t \in Threads, ApplyCheck(t)
        PROVE  WritesAreEdges' /\ UNCHANGED SM!svars
    <3>1. /\ status[call[t].item] \in Statuses
          /\ call[t].to \in Allowed(status[call[t].item])
      BY <2>2, CallShape DEF ApplyCheck, Legal, Steps
    <3> QED
      BY <2>2, <3>1, EdgesAllowed
         DEF ApplyCheck, Read, WritesAreEdges, SM!svars
  <2>3. ASSUME NEW t \in Threads, WriteTransition(t)
        PROVE  WritesAreEdges' /\ SM!SNext
    <3> DEFINE i == call[t].item
    <3>1. /\ i \in Items /\ NewRow(t) \in Row
          /\ audit' = Append(audit, NewRow(t))
          /\ status' = [status EXCEPT ![i] = call[t].to]
          /\ pc' = [pc EXCEPT ![t] = "ok"]
          /\ <<status[i], call[t].to>> \in SM!Edges /\ seen[t] = status[i]
      BY <2>3, CallShape
         DEF WriteTransition, NewRow, Row, Steps, Answer, WritesAreEdges
    <3>2. Trail(audit') = Append(Trail(audit), <<i, status[i], call[t].to>>)
      BY <3>1, TrailGrows DEF NewRow
    <3>3. SM!Take(i, <<status[i], call[t].to>>[2])
      BY <3>1, <3>2 DEF SM!Take
    <3>4. WritesAreEdges'
      BY <3>1 DEF WritesAreEdges
    <3> QED
      BY <3>1, <3>3, <3>4 DEF SM!SNext
  <2> QED
    BY <2>1, <2>2, <2>3, StepKinds
<1> QED
  BY <1>1, <1>2, TypeCorrect, PTL DEF Spec, StrictMachineSpec, SM!SSpec

-----------------------------------------------------------------------------
(* Requests served one at a time: a merge that is sent again is a replay.  *)

(* An item that was cancelled stays so: its last row is the cancellation.  *)
CancelledStays ==
    \A k \in DOMAIN audit : audit[k].to = "CANCELLED" =>
        /\ status[audit[k].item] = "CANCELLED"
        /\ \A l \in DOMAIN audit : k < l => audit[l].item # audit[k].item

(* The order of the stamps is the order of the rows.                       *)
RowsInOrder ==
    /\ \A k \in DOMAIN audit : audit[k].at < now
    /\ \A k, l \in DOMAIN audit : k < l => audit[k].at < audit[l].at

(* All rows with one idempotency key are rows of one merge.                *)
KeysNameMerges ==
    \A k, l \in DOMAIN audit :
        audit[k].key # NoKey /\ audit[k].key = audit[l].key =>
            audit[k].item = audit[l].item /\ audit[k].reason = audit[l].reason

(* Where a request stands: what it has read still holds, nothing cancelled *)
(* is cancelled again, and a key that is about to be written is free or    *)
(* the key of the same merge.                                              *)
RequestIsCurrent(t) ==
    /\ pc[t] = "merge_key" => seen[t] = status[call[t].item]
    /\ pc[t] \in {"promote_get", "promote_gate"} => call[t].op = "promote"
    /\ pc[t] = "apply_get" /\ call[t].op = "merge" =>
          status[call[t].item] # "CANCELLED"
    /\ pc[t] = "write" =>
          /\ Legal(status[call[t].item], call[t].to)
          /\ stamp[t] < now
          /\ \A k \in DOMAIN audit : audit[k].at < stamp[t]
    /\ pc[t] \in {"apply_get", "write"} /\ call[t].key # NoKey =>
          \A k \in DOMAIN audit :
             audit[k].key = call[t].key => SameMerge(k, call[t])

SerialInv == /\ CancelledStays /\ RowsInOrder /\ KeysNameMerges
             /\ \A t \in Threads : RequestIsCurrent(t)
             /\ MergeRetryIsReplay

LEMMA RowShape ==
    ASSUME TypeOK, NEW k \in DOMAIN audit
    PROVE  audit[k].at \in Nat /\ audit[k].item \in Items
<1>1. audit[k] \in Row
  BY RowTypes
<1> QED
  BY <1>1 DEF Row

LEMMA KeyedCalls ==
    ASSUME NEW c \in Calls, c.op # "merge"
    PROVE  c.key = NoKey
BY DEF Calls, Reviews, Promotions, Merges

(* A step that writes no row keeps what is said of the rows.               *)
LEMMA RowsKept ==
    ASSUME SerialInv, UNCHANGED <<status, audit>>, now' = now \/ now' = now + 1,
           TypeOK
    PROVE  CancelledStays' /\ RowsInOrder' /\ KeysNameMerges'
<1>1. CancelledStays' /\ KeysNameMerges'
  BY DEF SerialInv, CancelledStays, KeysNameMerges
<1>2. \A k \in DOMAIN audit : audit[k].at \in Nat
  BY RowShape
<1>3. RowsInOrder'
  BY <1>2 DEF SerialInv, RowsInOrder, TypeOK
<1> QED
  BY <1>1, <1>3

LEMMA SerialStep ==
    ASSUME NEW one, Threads = {one}, TypeOK, SerialInv, [Next]_vars
    PROVE  SerialInv'
<1> USE DEF TypeOK
<1> DEFINE c == call[one]
<1>0. /\ CancelledStays /\ RowsInOrder /\ KeysNameMerges
      /\ RequestIsCurrent(one) /\ MergeRetryIsReplay
  BY DEF SerialInv
<1>a. ASSUME CancelledStays', RowsInOrder', KeysNameMerges',
             RequestIsCurrent(one)',
             call'[one].op = "merge" /\ pc'[one] \in {"bad_request", "conflict"} =>
               ~ \E k \in DOMAIN audit' : /\ SameMerge(k, call[one])'
                                          /\ audit'[k].key = call'[one].key
                                          /\ audit'[k].to = "CANCELLED"
      PROVE  SerialInv'
  BY <1>a DEF SerialInv, MergeRetryIsReplay
<1>1. ASSUME NEW d \in Calls, Receive(one, d) PROVE SerialInv'
  <2>1. /\ UNCHANGED <<status, audit, now, seen, stamp>>
        /\ call'[one] = d /\ pc'[one] = FirstStep[d.op]
    BY <1>1 DEF Receive
  <2>2. /\ pc'[one] \in {"merge_detail", "promote_get", "apply_get"}
        /\ pc'[one] = "promote_get" => d.op = "promote"
        /\ pc'[one] = "apply_get" => d.op = "review" /\ d.key = NoKey
    BY <2>1, KeyedCalls DEF Calls, Reviews, Promotions, Merges, FirstStep
  <2>3. RequestIsCurrent(one)'
    BY <2>1, <2>2 DEF RequestIsCurrent
  <2> QED
    BY <2>1, <2>2, <2>3, <1>a, RowsKept
<1>2. ASSUME MergeDetail(one) \/ PromoteGet(one) PROVE SerialInv'
  <2>1. /\ UNCHANGED <<status, audit, now, call, stamp>>
        /\ seen'[one] = status[c.item]
        /\ \/ pc[one] = "merge_detail" /\ pc'[one] = "merge_key"
           \/ pc[one] = "promote_get" /\ pc'[one] = "promote_gate"
    BY <1>2 DEF MergeDetail, PromoteGet, Read
  <2>2. RequestIsCurrent(one)'
    BY <1>0, <2>1 DEF RequestIsCurrent
  <2> QED
    BY <2>1, <2>2, <1>a, RowsKept
<1>3. ASSUME MergeKeyLookup(one) PROVE SerialInv'
  <2> DEFINE taken == /\ c.key # NoKey
                      /\ \E k \in RowsWithKey(c.key) : ~SameMerge(k, c)
  <2>1. /\ UNCHANGED <<status, audit, now, call, seen, stamp>>
        /\ pc[one] = "merge_key"
        /\ pc'[one] = IF taken THEN "conflict"
                      ELSE IF seen[one] = "CANCELLED" THEN "merge_last"
                      ELSE "apply_get"
    BY <1>3 DEF MergeKeyLookup, Answer
  <2>2. ~taken /\ c.key # NoKey =>
           \A k \in DOMAIN audit : audit[k].key = c.key => SameMerge(k, c)
    BY DEF RowsWithKey
  <2>3. RequestIsCurrent(one)'
    BY <1>0, <2>1, <2>2 DEF RequestIsCurrent, SameMerge
  <2>4. taken => ~ \E k \in DOMAIN audit : SameMerge(k, c) /\ audit[k].key = c.key
    BY <1>0 DEF KeysNameMerges, SameMerge, RowsWithKey
  <2>5. pc'[one] \in {"bad_request", "conflict"} => taken
    BY <2>1
  <2>6. \A k \in DOMAIN audit' : SameMerge(k, call[one])' <=> SameMerge(k, c)
    BY <2>1 DEF SameMerge
  <2> HIDE DEF taken
  <2> QED
    BY <2>1, <2>3, <2>4, <2>5, <2>6, <1>a, RowsKept
<1>4. ASSUME MergeReplayLookup(one) PROVE SerialInv'
  <2>1. /\ UNCHANGED <<status, audit, now, call, seen, stamp>>
        /\ pc'[one] = IF \E k \in DOMAIN audit :
                            /\ IsLastByAt(k, c.item)
                            /\ audit[k].to = "CANCELLED"
                            /\ audit[k].reason = c.reason
                      THEN "replayed" ELSE "conflict"
    BY <1>4 DEF MergeReplayLookup, Answer
  <2>2. RequestIsCurrent(one)'
    BY <1>0, <2>1 DEF RequestIsCurrent
  <2>3. ASSUME NEW k \in DOMAIN audit, SameMerge(k, c),
               audit[k].to = "CANCELLED"
        PROVE  pc'[one] = "replayed"
    <3>1. \A l \in DOMAIN audit : audit[l].item = c.item => l <= k
      BY <1>0, <2>3 DEF CancelledStays, SameMerge
    <3>2. \A l \in DOMAIN audit : audit[l].at \in Nat
      BY RowShape
    <3>3. IsLastByAt(k, c.item)
      BY <1>0, <2>3, <3>1, <3>2 DEF RowsInOrder, IsLastByAt, RowsOf, SameMerge
    <3> QED
      BY <2>1, <2>3, <3>3 DEF SameMerge
  <2>4. \A k \in DOMAIN audit' : SameMerge(k, call[one])' <=> SameMerge(k, c)
    BY <2>1 DEF SameMerge
  <2> QED
    BY <2>1, <2>2, <2>3, <2>4, <1>a, RowsKept
<1>5. ASSUME PromoteGate(one) PROVE SerialInv'
  <2>1. /\ UNCHANGED <<status, audit, now, call, seen, stamp>>
        /\ pc[one] = "promote_gate" /\ pc'[one] \in {"apply_get", "forbidden"}
    BY <1>5 DEF PromoteGate, Answer
  <2>2. c.op = "promote" /\ c.key = NoKey
    BY <1>0, <2>1, KeyedCalls DEF RequestIsCurrent, Steps
  <2>3. RequestIsCurrent(one)'
    BY <2>1, <2>2 DEF RequestIsCurrent
  <2> QED
    BY <2>1, <2>3, <1>a, RowsKept
<1>6. ASSUME ApplyRefuse(one) PROVE SerialInv'
  <2>1. /\ UNCHANGED <<status, audit, now, call, stamp>>
        /\ pc[one] = "apply_get" /\ pc'[one] = "bad_request"
    BY <1>6 DEF ApplyRefuse, Read
  <2>2. RequestIsCurrent(one)'
    BY <2>1 DEF RequestIsCurrent
  <2>3. c.op = "merge" => ~ \E k \in DOMAIN audit : /\ SameMerge(k, c)
                                                    /\ audit[k].to = "CANCELLED"
    BY <1>0, <2>1 DEF RequestIsCurrent, CancelledStays, SameMerge
  <2>4. \A k \in DOMAIN audit' : SameMerge(k, call[one])' <=> SameMerge(k, c)
    BY <2>1 DEF SameMerge
  <2> QED
    BY <2>1, <2>2, <2>3, <2>4, <1>a, RowsKept
<1>7. ASSUME ApplyCheck(one) PROVE SerialInv'
  <2>1. /\ UNCHANGED <<status, audit, call>> /\ now' = now + 1
        /\ pc[one] = "apply_get" /\ pc'[one] = "write" /\ stamp'[one] = now
        /\ Legal(status[c.item], c.to)
    BY <1>7 DEF ApplyCheck, Read
  <2>2. RequestIsCurrent(one)'
    BY <1>0, <2>1 DEF RequestIsCurrent, RowsInOrder, SameMerge
  <2> QED
    BY <2>1, <2>2, <1>a, RowsKept
<1>8. ASSUME WriteTransition(one) PROVE SerialInv'
  <2> DEFINE L == Len(audit)
             r == NewRow(one)
  <2>1. /\ pc[one] = "write" /\ c \in Calls /\ r \in Row /\ c.item \in Items
        /\ audit' = Append(audit, r) /\ now' = now + 1
        /\ status' = [status EXCEPT ![c.item] = c.to]
        /\ pc'[one] = "ok" /\ UNCHANGED <<call, stamp>>
    BY <1>8, CallShape DEF WriteTransition, NewRow, Row, Steps, Answer
  <2>2. /\ r.item = c.item /\ r.to = c.to /\ r.reason = c.reason
        /\ r.key = c.key /\ r.at = stamp[one]
    BY DEF NewRow
  <2>3. /\ DOMAIN audit = 1..L /\ DOMAIN audit' = 1..(L + 1) /\ L \in Nat
        /\ \A k \in 1..L : audit'[k] = audit[k]
        /\ audit'[L + 1] = r
    BY <2>1
  <2>4. /\ Legal(status[c.item], c.to)
        /\ stamp[one] < now /\ stamp[one] \in Nat
        /\ \A k \in 1..L : audit[k].at < stamp[one]
        /\ c.key # NoKey => \A k \in 1..L : audit[k].key = c.key => SameMerge(k, c)
    BY <1>0, <2>1, <2>3 DEF RequestIsCurrent
  <2>5. \A k \in 1..L : audit[k].at \in Nat /\ audit[k].item \in Items
    BY <2>3, RowShape
  <2> HIDE DEF r, L
  <2>6. CancelledStays'
    <3>1. \A k \in 1..L : audit[k].to = "CANCELLED" => audit[k].item # c.item
      BY <1>0, <2>3, <2>4 DEF CancelledStays, Legal, Terminal
    <3> QED
      BY <1>0, <2>1, <2>2, <2>3, <2>5, <3>1 DEF CancelledStays
  <2>7. RowsInOrder'
    BY <1>0, <2>1, <2>2, <2>3, <2>4, <2>5 DEF RowsInOrder
  <2>8. KeysNameMerges'
    BY <1>0, <2>2, <2>3, <2>4 DEF KeysNameMerges, SameMerge
  <2>9. RequestIsCurrent(one)'
    BY <2>1 DEF RequestIsCurrent
  <2> QED
    BY <2>1, <2>6, <2>7, <2>8, <2>9, <1>a
<1>9. ASSUME SetPolicy \/ UNCHANGED vars PROVE SerialInv'
  BY <1>9 DEF SetPolicy, vars, SerialInv, CancelledStays, RowsInOrder,
              KeysNameMerges, RequestIsCurrent, MergeRetryIsReplay, SameMerge
<1> QED
  BY <1>1, <1>2, <1>3, <1>4, <1>5, <1>6, <1>7, <1>8, <1>9 DEF Next, Serve

(* With one thread, a client that sends a merge again with the same key is *)
(* answered as for the first time: the key names one merge, a cancelled    *)
(* item is never moved again, and its cancellation is its last row by the  *)
(* stamp too.                                                              *)
THEOREM SerialMergesAreReplays ==
    ASSUME NEW one, Threads = {one}
    PROVE  Spec => []MergeRetryIsReplay
<1>1. Init => SerialInv
  BY DEF Init, SerialInv, CancelledStays, RowsInOrder, KeysNameMerges,
         RequestIsCurrent, MergeRetryIsReplay
<1>2. TypeOK /\ SerialInv /\ [Next]_vars => SerialInv'
  BY SerialStep
<1>3. SerialInv => MergeRetryIsReplay
  BY DEF SerialInv
<1> QED
  BY <1>1, <1>2, <1>3, TypeCorrect, PTL DEF Spec
=============================================================================

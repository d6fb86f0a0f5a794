----------------------------- MODULE Lifecycle -----------------------------
(***************************************************************************)
(* The transition engine (transitions.py) as the review, promote and merge *)
(* endpoints of api.py drive it.                                           *)
(*                                                                         *)
(* The endpoints are synchronous: each request runs on a thread of the     *)
(* server's pool.  The store's lock covers one store call, never a         *)
(* request, so a request is a sequence of store calls with the calls of    *)
(* other requests in between.  One action is one such call together with   *)
(* the computation on what it returned.  write_transition is one action:   *)
(* it holds the lock over its whole transaction.                           *)
(***************************************************************************)
EXTENDS Integers, Sequences, FiniteSets

CONSTANTS Items,            \* work items of one tenant, all of them ingested
          Threads,          \* threads that serve requests
          Keys,             \* idempotency keys clients may send
          NoKey,            \* a request without an idempotency key
          Stated,           \* a reason in the client's own words
          MaxTransitions    \* bound of the model: audit rows ever written

ASSUME LifecycleAssumption == /\ NoKey \notin Keys
                              /\ Stated \notin Items
                              /\ MaxTransitions \in Nat

Statuses == {"OPEN", "APPROVED", "REJECTED", "SNOOZED", "CANCELLED",
             "PUBLISHED", "PROMOTED_TO_WORKS"}

Terminal == {"CANCELLED", "REJECTED"}

AllowedApproveSnoozed(s) ==     \* mutant: a snoozed item may be approved
    {to \in Statuses :
        \/ /\ s = "OPEN"
           /\ to \in {"APPROVED", "REJECTED", "SNOOZED", "CANCELLED"}
        \/ /\ s = "APPROVED"
           /\ to \in {"PUBLISHED", "PROMOTED_TO_WORKS", "CANCELLED"}
        \/ /\ s = "SNOOZED"
           /\ to \in {"OPEN", "APPROVED", "CANCELLED"}}

(* _allowed_transitions                                                    *)
Allowed(s) ==
    {to \in Statuses :
        \/ /\ s = "OPEN"
           /\ to \in {"APPROVED", "REJECTED", "SNOOZED", "CANCELLED"}
        \/ /\ s = "APPROVED"
           /\ to \in {"PUBLISHED", "PROMOTED_TO_WORKS", "CANCELLED"}
        \/ /\ s = "SNOOZED"
           /\ to \in {"OPEN", "CANCELLED"}}

(* A request: the status it asks for and, for a merge, its reason.  The    *)
(* reason of a merge is the target's id unless the client words its own.   *)
Reasons == Items \cup {Stated}

Reviews == [op : {"review"}, item : Items, reason : {Stated}, key : {NoKey},
            to : {"APPROVED", "REJECTED", "SNOOZED", "OPEN", "CANCELLED"}]

Promotions == [op : {"promote"}, item : Items, reason : {Stated},
               key : {NoKey}, to : {"PROMOTED_TO_WORKS"}]

Merges == {m \in [op : {"merge"}, item : Items, reason : Reasons,
                  key : Keys \cup {NoKey}, to : {"CANCELLED"}] :
              m.item # m.reason}          \* merging into itself is a 400

Calls == Reviews \cup Promotions \cup Merges

NoCall == [op |-> "none"]

(* A row of intake_transitions.  "done" is not a column: it is the time    *)
(* the transaction committed, where "at" is the time the request stamped   *)
(* before it asked for the lock.                                           *)
Row == [item : Items, from : Statuses, to : Statuses, reason : Reasons,
        key : Keys \cup {NoKey}, at : Nat, done : Nat]

(* Where a thread stands: an answer of its last request, or the store call *)
(* its current request makes next.                                         *)
Answered == {"idle", "ok", "replayed", "bad_request", "forbidden", "conflict"}

Steps == {"merge_detail", "merge_key", "merge_last", "promote_get",
          "promote_gate", "apply_get", "write"}

VARIABLES status,           \* the status column of each item
          audit,            \* intake_transitions, in commit order
          allowWorks,       \* the tenant policy's allow_works
          now,              \* the server's clock
          pc, call,         \* where each thread stands, in which request
          seen, stamp       \* the status it last read, the time it stamped

vars == <<status, audit, allowWorks, now, pc, call, seen, stamp>>

TypeOK == /\ status \in [Items -> Statuses]
          /\ audit \in Seq(Row)
          /\ allowWorks \in BOOLEAN
          /\ now \in Nat
          /\ pc \in [Threads -> Answered \cup Steps]
          /\ call \in [Threads -> Calls \cup {NoCall}]
          /\ seen \in [Threads -> Statuses]
          /\ stamp \in [Threads -> Nat]
          /\ \A t \in Threads : pc[t] \in Steps => call[t] \in Calls

Init == /\ status = [i \in Items |-> "OPEN"]
        /\ audit = <<>>
        /\ allowWorks \in BOOLEAN
        /\ now = 0
        /\ pc = [t \in Threads |-> "idle"]
        /\ call = [t \in Threads |-> NoCall]
        /\ seen = [t \in Threads |-> "OPEN"]
        /\ stamp = [t \in Threads |-> 0]

-----------------------------------------------------------------------------
(* Rows of the audit trail.                                                *)

RowsOf(i) == {k \in DOMAIN audit : audit[k].item = i}

RowsWithKey(key) == {k \in DOMAIN audit : audit[k].key = key}

(* list_transitions orders by the column "at", not by commit.              *)
IsFirstByAt(k, i) == /\ k \in RowsOf(i)      \* mutant: rows[0]
                     /\ \A j \in RowsOf(i) : audit[k].at <= audit[j].at

IsLastByAt(k, i) == /\ k \in RowsOf(i)
                    /\ \A j \in RowsOf(i) : audit[j].at <= audit[k].at

InFlight == {t \in Threads : pc[t] \notin Answered}

Read(t, next) == /\ seen' = [seen EXCEPT ![t] = status[call[t].item]]
                 /\ pc' = [pc EXCEPT ![t] = next]

Answer(t, a) == pc' = [pc EXCEPT ![t] = a]

-----------------------------------------------------------------------------
(* An endpoint is entered.  Tenant checks always succeed here: the items   *)
(* are the tenant's and are never deleted.                                 *)
FirstStep == [merge |-> "merge_detail", promote |-> "promote_get",
              review |-> "apply_get"]

Receive(t, c) ==
    /\ pc[t] \in Answered
    /\ Len(audit) + Cardinality(InFlight) < MaxTransitions
    /\ call' = [call EXCEPT ![t] = c]
    /\ pc' = [pc EXCEPT ![t] = FirstStep[c.op]]
    /\ UNCHANGED <<status, audit, allowWorks, now, seen, stamp>>

(* merge_work_item reads the source's detail: its previous_state.          *)
MergeDetail(t) ==
    /\ pc[t] = "merge_detail"
    /\ Read(t, "merge_key")
    /\ UNCHANGED <<status, audit, allowWorks, now, call, stamp>>

(* It looks its idempotency key up: a row with the key and another source  *)
(* or reason is a conflict.  What comes next hangs on previous_state.      *)
SameMerge(k, c) == audit[k].item = c.item /\ audit[k].reason = c.reason

MergeKeyLookup(t) ==
    /\ pc[t] = "merge_key"
    /\ LET c == call[t]
           taken == /\ c.key # NoKey
                    /\ \E k \in RowsWithKey(c.key) : ~SameMerge(k, c)
       IN  Answer(t, IF taken THEN "conflict"
                     ELSE IF seen[t] = "CANCELLED" THEN "merge_last"
                     ELSE "apply_get")
    /\ UNCHANGED <<status, audit, allowWorks, now, call, seen, stamp>>

(* A source that was CANCELLED is a replay when its last transition is     *)
(* this very merge, a conflict otherwise.                                  *)
MergeReplayLookup(t) ==
    /\ pc[t] = "merge_last"
    /\ LET c == call[t]
           replay == \E k \in DOMAIN audit :
                        /\ IsLastByAt(k, c.item)
                        /\ audit[k].to = "CANCELLED"
                        /\ audit[k].reason = c.reason
       IN  Answer(t, IF replay THEN "replayed" ELSE "conflict")
    /\ UNCHANGED <<status, audit, allowWorks, now, call, seen, stamp>>

(* promote_to_works reads the item, then asks the policy; both have to     *)
(* agree, the item as it was read.                                         *)
PromoteGet(t) ==
    /\ pc[t] = "promote_get"
    /\ Read(t, "promote_gate")
    /\ UNCHANGED <<status, audit, allowWorks, now, call, stamp>>

PromoteGate(t) ==
    /\ pc[t] = "promote_gate"
    /\ Answer(t, IF allowWorks /\ seen[t] = "APPROVED"
                 THEN "apply_get" ELSE "forbidden")
    /\ UNCHANGED <<status, audit, allowWorks, now, call, seen, stamp>>

(* _apply reads the item (again), refuses what the machine does not allow  *)
(* from the status it read, and stamps the transition otherwise.           *)
Legal(s, to) == s \notin Terminal /\ to \in Allowed(s)

ApplyRefuse(t) ==
    /\ pc[t] = "apply_get"
    /\ ~Legal(status[call[t].item], call[t].to)
    /\ Read(t, "bad_request")
    /\ UNCHANGED <<status, audit, allowWorks, now, call, stamp>>

ApplyCheckOnOldRead(t) ==    \* mutant: a promotion reuses the item it read
    /\ pc[t] = "apply_get"
    /\ LET s == IF call[t].op = "promote" THEN seen[t]
               ELSE status[call[t].item]
       IN  /\ Legal(s, call[t].to)
           /\ seen' = [seen EXCEPT ![t] = s]
    /\ Answer(t, "write")
    /\ stamp' = [stamp EXCEPT ![t] = now]
    /\ now' = now + 1
    /\ UNCHANGED <<status, audit, allowWorks, call>>

ApplyCheck(t) ==
    /\ pc[t] = "apply_get"
    /\ Legal(status[call[t].item], call[t].to)
    /\ Read(t, "write")
    /\ stamp' = [stamp EXCEPT ![t] = now]
    /\ now' = now + 1
    /\ UNCHANGED <<status, audit, allowWorks, call>>

(* write_transition: the row and the status, in one transaction.  It does  *)
(* not look at the status it overwrites.  The item read back afterwards    *)
(* only feeds the answer.                                                  *)
NewRowSwapped(t) ==              \* mutant: from_state and reason swapped
    [item |-> call[t].item, from |-> call[t].reason, to |-> call[t].to,
     reason |-> seen[t], key |-> call[t].key, at |-> stamp[t], done |-> now]

NewRow(t) == [item |-> call[t].item, from |-> seen[t], to |-> call[t].to,
              reason |-> call[t].reason, key |-> call[t].key,
              at |-> stamp[t], done |-> now]

WriteUnlessApproved(t) ==                  \* mutant: approvals not audited
    /\ pc[t] = "write"
    /\ audit' = IF call[t].to = "APPROVED" THEN audit
                ELSE Append(audit, NewRow(t))
    /\ status' = [status EXCEPT ![call[t].item] = call[t].to]
    /\ now' = now + 1
    /\ Answer(t, "ok")
    /\ UNCHANGED <<allowWorks, call, seen, stamp>>

WriteTransition(t) ==
    /\ pc[t] = "write"
    /\ audit' = Append(audit, NewRow(t))
    /\ status' = [status EXCEPT ![call[t].item] = call[t].to]
    /\ now' = now + 1
    /\ Answer(t, "ok")
    /\ UNCHANGED <<allowWorks, call, seen, stamp>>

(* An administrator changes the tenant's policy.                           *)
SetPolicy == /\ allowWorks' = ~allowWorks
             /\ UNCHANGED <<status, audit, now, pc, call, seen, stamp>>

-----------------------------------------------------------------------------
Serve(t) == \/ \E c \in Calls : Receive(t, c)
            \/ MergeDetail(t)
            \/ MergeKeyLookup(t)
            \/ MergeReplayLookup(t)
            \/ PromoteGet(t)
            \/ PromoteGate(t)
            \/ ApplyRefuse(t)
            \/ ApplyCheck(t)
            \/ WriteTransition(t)

Next == SetPolicy \/ \E t \in Threads : Serve(t)

Spec == Init /\ [][Next]_vars

-----------------------------------------------------------------------------
(* Properties.                                                             *)

(* Of the first n rows of a trail: s is the status they leave item i in.   *)
StatusAfter(log, n, i, s) ==
    \/ /\ s = "OPEN"
       /\ \A k \in 1..n : log[k].item # i
    \/ \E k \in 1..n : /\ log[k].item = i
                       /\ log[k].to = s
                       /\ \A j \in (k+1)..n : log[j].item # i

(* One of them moved item i after the time at.                             *)
Overtaken(log, n, i, at) ==
    \E k \in 1..n : log[k].item = i /\ at < log[k].done

(* One of them moved item i to s.                                          *)
Reached(log, n, i, s) ==
    \E k \in 1..n : log[k].item = i /\ log[k].to = s

(* The status column is what the audit trail, in commit order, says of the *)
(* item: the row and the status are written in one transaction.            *)
StatusIsLastRow == \A i \in Items : StatusAfter(audit, Len(audit), i, status[i])

(* A row starts from the status its item had when the row was committed,   *)
(* unless another request moved the item after this one had checked and    *)
(* stamped: only requests that overlap can leave the strict machine.       *)
StaleOnlyIfOvertaken ==
    \A n \in DOMAIN audit :
        \/ StatusAfter(audit, n - 1, audit[n].item, audit[n].from)
        \/ Overtaken(audit, n - 1, audit[n].item, audit[n].at)

(* However requests interleave, an item is promoted to WORKS only after    *)
(* somebody approved it (transitions.py 20-22).                            *)
PromotedAfterApproval ==
    \A n \in DOMAIN audit :
        audit[n].to = "PROMOTED_TO_WORKS" =>
            Reached(audit, n - 1, audit[n].item, "APPROVED")

(* What the two properties above need to be inductive: rows lie in the     *)
(* past; what a thread is about to write is based on the status column or  *)
(* overtaken; APPROVED is never reached without a row.                     *)
RowsInThePast == \A k \in DOMAIN audit : audit[k].done < now

WritesAreBased ==
    \A t \in Threads : pc[t] = "write" =>
        /\ stamp[t] < now
        /\ \/ seen[t] = status[call[t].item]
           \/ Overtaken(audit, Len(audit), call[t].item, stamp[t])

ApprovalsHaveRows ==
    \A i \in Items :
        status[i] = "APPROVED" => Reached(audit, Len(audit), i, "APPROVED")

PromotersSawApproval ==
    \A t \in Threads :
        pc[t] = "write" /\ call[t].to = "PROMOTED_TO_WORKS" =>
            Reached(audit, Len(audit), call[t].item, "APPROVED")

TrailInv == StatusIsLastRow /\ StaleOnlyIfOvertaken /\ RowsInThePast
                            /\ WritesAreBased

ApprovalInv == PromotedAfterApproval /\ ApprovalsHaveRows
                                     /\ PromotersSawApproval

(* CANCELLED and REJECTED are terminal: no row follows one that ends there *)
(* (transitions.py 3-13, 148-151; ARCHITECTURE.md step 6).                 *)
TerminalIsFinal ==
    \A n \in DOMAIN audit : \A k \in 1..(n - 1) :
        audit[k].to \in Terminal => audit[k].item # audit[n].item

(* A merge whose row is in the trail is a replay: whoever asks for it is   *)
(* answered 200, never 400 or 409, as long as it sends the key of the row. *)
MergeRetryIsReplay ==
    \A t \in Threads : \A k \in DOMAIN audit :
        /\ call[t].op = "merge"
        /\ SameMerge(k, call[t])
        /\ audit[k].key = call[t].key
        /\ audit[k].to = "CANCELLED"
        => pc[t] \notin {"bad_request", "conflict"}

(* The strict machine, with the trail read off the audit rows.             *)
Trail(log) == [k \in 1..Len(log) |-> <<log[k].item, log[k].from, log[k].to>>]

SM == INSTANCE StrictMachine WITH state <- status, trail <- Trail(audit)

StrictMachineSpec == SM!SSpec
=============================================================================

---------------------------- MODULE ConnectionTx ----------------------------
(***************************************************************************)
(* The transactions of the one SQLite connection that all threads share    *)
(* (store.py), statement by statement.                                     *)
(*                                                                         *)
(* The connection is in autocommit mode (isolation_level=None): a          *)
(* statement outside a transaction is durable at once.  create_work_item,  *)
(* merge_work_item and write_transition hold the store's lock over BEGIN   *)
(* IMMEDIATE, two statements and COMMIT; the evaluator of autonomy         *)
(* decisions, on the event loop, holds it for its insert.  Two callers     *)
(* touch the transaction without the lock: the evaluator's rollback() after*)
(* a failed insert, and the commit() of the migrations endpoint.  The lock *)
(* protects nothing from them, because a transaction belongs to the        *)
(* connection and not to the thread that began it.                         *)
(***************************************************************************)
EXTENDS Integers, FiniteSets

CONSTANTS Threads,          \* threads that serve requests
          NoThread,         \* owner of the lock when nobody holds it
          Writes,           \* calls of the three store methods
          NoWrite,          \* what a thread outside them works on
          Evaluations       \* request ids of autonomy evaluations

(* A row of the database: the first and second row that a write puts, in   *)
(* the order of its statements, or the decision of an evaluation.  For     *)
(* write_transition they are the audit row and the item's new status.      *)
Rows == (Writes \X {1, 2}) \cup (Evaluations \X {0})

Answers == {"new", "under way", "ok", "error", "cut"}

ASSUME ConnectionAssumption ==
    /\ NoThread \notin Threads /\ NoWrite \notin Writes

VARIABLES committed,        \* rows in the database file
          working,          \* rows of the transaction that is open
          inTx,             \* connection.in_transaction
          lock,             \* the owner of store._lock
          pc, job,          \* where each thread stands, on which write
          loop,             \* where the evaluator on the event loop stands
          answer,           \* how each write ended
          hit               \* history: writes whose transaction was ended by
                            \*   somebody else, and how

vars == <<committed, working, inTx, lock, pc, job, loop, answer, hit>>

Steps == {"first", "second", "commit", "undo"}

VarTypes ==
    /\ committed \subseteq Rows
    /\ working \subseteq Rows
    /\ inTx \in BOOLEAN
    /\ lock \in Threads \cup {NoThread}
    /\ pc \in [Threads -> Steps \cup {"idle"}]
    /\ job \in [Threads -> Writes \cup {NoWrite}]
    /\ loop \in {"idle", "rollback"}
    /\ answer \in [Writes -> Answers]
    /\ hit \in [Writes -> {"no", "rollback", "commit"}]

(* And whoever holds the lock is in the middle of a write.                 *)
TypeOK == VarTypes /\ (lock # NoThread => job[lock] \in Writes)

Init == /\ committed = {} /\ working = {} /\ inTx = FALSE
        /\ lock = NoThread
        /\ pc = [t \in Threads |-> "idle"]
        /\ job = [t \in Threads |-> NoWrite]
        /\ loop = "idle"
        /\ answer = [w \in Writes |-> "new"]
        /\ hit = [w \in Writes |-> "no"]

-----------------------------------------------------------------------------
(* What the connection does.                                               *)
Execute(row) ==
    /\ working' = IF inTx THEN working \cup {row} ELSE working
    /\ committed' = IF inTx THEN committed ELSE committed \cup {row}
    /\ inTx' = inTx

CommitAll == /\ committed' = committed \cup working
             /\ working' = {}
             /\ inTx' = FALSE

RollBack == /\ working' = {}
            /\ inTx' = FALSE
            /\ committed' = committed

NoChange == UNCHANGED <<committed, working, inTx>>

-----------------------------------------------------------------------------
(* A store method, by thread t.  It ends with the lock released.           *)
Goto(t, step) == /\ pc' = [pc EXCEPT ![t] = step]
                 /\ UNCHANGED <<lock, job, answer>>

End(t, result) == /\ pc' = [pc EXCEPT ![t] = "idle"]
                  /\ job' = [job EXCEPT ![t] = NoWrite]
                  /\ answer' = [answer EXCEPT ![job[t]] = result]
                  /\ lock' = NoThread

(* BEGIN IMMEDIATE, under the lock; no transaction is open then.           *)
Begin(t, w) ==
    /\ pc[t] = "idle"
    /\ answer[w] = "new"
    /\ lock = NoThread
    /\ ~inTx
    /\ inTx' = TRUE
    /\ lock' = t
    /\ pc' = [pc EXCEPT ![t] = "first"]
    /\ job' = [job EXCEPT ![t] = w]
    /\ answer' = [answer EXCEPT ![w] = "under way"]
    /\ UNCHANGED <<committed, working, loop, hit>>

First(t) ==
    /\ pc[t] = "first"
    /\ Execute(<<job[t], 1>>)
    /\ Goto(t, "second")
    /\ UNCHANGED <<loop, hit>>

Second(t) ==
    /\ pc[t] = "second"
    /\ Execute(<<job[t], 2>>)
    /\ Goto(t, "commit")
    /\ UNCHANGED <<loop, hit>>

(* Either statement may raise: the disk is full, or a link to the same     *)
(* observation exists already.                                             *)
Raises(t) ==
    /\ pc[t] \in {"first", "second"}
    /\ NoChange
    /\ Goto(t, "undo")
    /\ UNCHANGED <<loop, hit>>

(* COMMIT raises if no transaction is open any more.                       *)
CommitUnchecked(t) ==     \* mutant: connection.commit(), which never raises
    /\ pc[t] = "commit"
    /\ CommitAll /\ End(t, "ok")
    /\ UNCHANGED <<loop, hit>>

Commit(t) ==
    /\ pc[t] = "commit"
    /\ IF inTx THEN CommitAll /\ End(t, "ok")
               ELSE NoChange /\ Goto(t, "undo")
    /\ UNCHANGED <<loop, hit>>

(* ROLLBACK, which raises if no transaction is open: an error is what the  *)
(* caller gets in either case.                                             *)
UndoForgotten(t) ==                       \* mutant: raise without ROLLBACK
    /\ pc[t] = "undo"
    /\ NoChange
    /\ End(t, "error")
    /\ UNCHANGED <<loop, hit>>

UndoCommits(t) ==             \* mutant: commit() for rollback() on an error
    /\ pc[t] = "undo"
    /\ CommitAll
    /\ End(t, "error")
    /\ UNCHANGED <<loop, hit>>

Undo(t) ==
    /\ pc[t] = "undo"
    /\ RollBack
    /\ End(t, "error")
    /\ UNCHANGED <<loop, hit>>

-----------------------------------------------------------------------------
(* The evaluator inserts its decision under the lock, and commit() does    *)
(* nothing after an insert in autocommit mode.  A request id that is in    *)
(* the table already makes the insert fail; the lock is released and       *)
(* rollback() called on the connection.                                    *)
EvaluateWithoutLock(e) ==   \* mutant: without "with store._lock" (api.py 470)
    /\ loop = "idle"
    /\ IF <<e, 0>> \in committed \cup working
       THEN loop' = "rollback" /\ NoChange
       ELSE /\ loop' = "idle"
            /\ committed' = committed \cup working \cup {<<e, 0>>}
            /\ working' = {}
            /\ inTx' = FALSE
    /\ UNCHANGED <<lock, pc, job, answer, hit>>

Evaluate(e) ==
    /\ loop = "idle"
    /\ lock = NoThread
    /\ IF <<e, 0>> \in committed \cup working
       THEN loop' = "rollback" /\ NoChange
       ELSE /\ loop' = "idle"
            /\ committed' = committed \cup working \cup {<<e, 0>>}
            /\ working' = {}
            /\ inTx' = FALSE
    /\ UNCHANGED <<lock, pc, job, answer, hit>>

(* Whose transaction it ends, if one is open, is the lock's owner's.       *)
Hits(how) ==
    hit' = IF inTx THEN [hit EXCEPT ![job[lock]] = how] ELSE hit

EvaluatorRollsBack ==
    /\ loop = "rollback"
    /\ RollBack
    /\ Hits("rollback")
    /\ loop' = "idle"
    /\ UNCHANGED <<lock, pc, job, answer>>

(* POST /migrations/run: all migrations are applied, what is left of it is *)
(* the commit() after CREATE TABLE IF NOT EXISTS schema_migrations.        *)
MigrationsCommit ==
    /\ inTx
    /\ CommitAll
    /\ Hits("commit")
    /\ UNCHANGED <<lock, pc, job, loop, answer>>

(* The process dies: the open transaction is gone, and so are the requests.*)
Crash ==
    /\ RollBack
    /\ lock' = NoThread
    /\ pc' = [t \in Threads |-> "idle"]
    /\ job' = [t \in Threads |-> NoWrite]
    /\ loop' = "idle"
    /\ answer' = [w \in Writes |-> IF answer[w] = "under way" THEN "cut"
                                   ELSE answer[w]]
    /\ UNCHANGED hit

-----------------------------------------------------------------------------
Call(t) == \/ \E w \in Writes : Begin(t, w)
           \/ First(t) \/ Second(t) \/ Raises(t) \/ Commit(t) \/ Undo(t)

Next == \/ \E t \in Threads : Call(t)
        \/ \E e \in Evaluations : Evaluate(e)
        \/ EvaluatorRollsBack
        \/ MigrationsCommit
        \/ Crash

Spec == Init /\ [][Next]_vars

-----------------------------------------------------------------------------
(* Properties.                                                             *)

Has(w, k) == <<w, k>> \in committed

Ended(w) == answer[w] \in {"ok", "error", "cut"}

(* Whoever takes the store's lock finds no transaction open and no row     *)
(* that may still disappear: reads under the lock see durable rows only,   *)
(* whatever the callers without the lock have done.                        *)
LockFreeIsQuiet == lock = NoThread => ~inTx /\ working = {}

(* A write that was answered without error is in the database with both    *)
(* its rows, although others may end its transaction: its own COMMIT tells.*)
AckIsWhole == \A w \in Writes : answer[w] = "ok" => Has(w, 1) /\ Has(w, 2)

(* A write that ended is half in the database only if somebody without the *)
(* lock ended its transaction; and a second row without the first, a       *)
(* status without its audit row, only comes from the evaluator's rollback. *)
TornOnlyByStray ==
    \A w \in Writes : Ended(w) =>
        /\ hit[w] = "no" => (Has(w, 1) <=> Has(w, 2))
        /\ Has(w, 2) /\ ~Has(w, 1) => hit[w] = "rollback"

(* Every transition is persisted, and the status updated, in one           *)
(* transaction (transitions.py 15-16): no status without its audit row.    *)
StatusHasAuditRow == \A w \in Writes : Ended(w) /\ Has(w, 2) => Has(w, 1)

(* Whoever reads under the lock sees a store whose writes are atomic, but  *)
(* for what the callers without the lock have disturbed.                   *)
Visible == {row \in committed : row[2] = 0 \/ Ended(row[1])}

Store == INSTANCE AtomicStore
            WITH rows <- Visible, disturbed <- {w \in Writes : hit[w] # "no"}

StoreIsAtomic == Store!ASpec

(* What the properties need to be inductive.  The lock's owner is the only *)
(* thread that is not idle, and the write it works on is under way; what   *)
(* is in the open transaction is what it has put there so far; until its   *)
(* transaction is ended by somebody else it is open, and nothing of the    *)
(* write is durable.                                                       *)
OwnerWorks ==
    /\ \A t \in Threads : pc[t] # "idle" <=> lock = t
    /\ lock # NoThread => /\ job[lock] \in Writes
                          /\ answer[job[lock]] = "under way"
    /\ \A w \in Writes : answer[w] = "under way"
                            => lock # NoThread /\ job[lock] = w

FreshWrites ==
    \A w \in Writes : answer[w] = "new" => hit[w] = "no" /\ ~Has(w, 1) /\ ~Has(w, 2)

WorkingIsOwners ==
    /\ inTx => lock # NoThread
    /\ ~inTx => working = {}
    /\ inTx => LET w == job[lock] IN
         /\ hit[w] = "no" => ~Has(w, 1) /\ ~Has(w, 2)
         /\ pc[lock] = "first" => working = {}
         /\ pc[lock] = "second" => working = {<<w, 1>>}
         /\ pc[lock] = "commit" => working = {<<w, 1>>, <<w, 2>>}
         /\ working \in {{}, {<<w, 1>>}, {<<w, 1>>, <<w, 2>>}}
         /\ hit[w] = "no"

WhoTore ==
    lock # NoThread => LET w == job[lock] IN
        /\ hit[w] = "no" => inTx
        /\ Has(w, 2) /\ ~Has(w, 1) => hit[w] = "rollback"
        /\ hit[w] = "commit" /\ pc[lock] \in {"second", "commit"} => Has(w, 1)

TornInv == TornOnlyByStray /\ OwnerWorks /\ FreshWrites /\ WorkingIsOwners
                           /\ WhoTore
=============================================================================

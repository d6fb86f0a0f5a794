---------------------------- MODULE AtomicStore ----------------------------
(***************************************************************************)
(* What the store promises its callers: a method that writes takes effect  *)
(* in one step, with both its rows or with none.  The two callers that end *)
(* transactions without the store's lock take part of the promise away:    *)
(* a write they have disturbed is never answered "ok", and may leave any   *)
(* of its rows behind.  Module ConnectionTx is the code, statement by      *)
(* statement.                                                              *)
(***************************************************************************)
CONSTANTS Writes,           \* calls of the store methods
          Evaluations       \* decisions that are recorded, a row each

VARIABLES rows,             \* what a reader with the lock finds
          answer,           \* how each write ended
          disturbed         \* writes whose transaction somebody else ended

storeVars == <<rows, answer, disturbed>>

Parts(w) == {<<w, 1>>, <<w, 2>>}

UnderWay == {w \in Writes : answer[w] = "under way"}

AInit == /\ rows = {}
         /\ answer = [w \in Writes |-> "new"]
         /\ disturbed = {}

Start(w) == /\ answer[w] = "new"
            /\ answer' = [answer EXCEPT ![w] = "under way"]
            /\ UNCHANGED <<rows, disturbed>>

Succeed(w) == /\ w \in UnderWay \ disturbed
              /\ answer' = [answer EXCEPT ![w] = "ok"]
              /\ rows' = rows \cup Parts(w)
              /\ UNCHANGED disturbed

(* What is left of writes that did not succeed.                            *)
Leaves(writes) ==
    \E left \in SUBSET UNION {Parts(w) : w \in writes \cap disturbed} :
        rows' = rows \cup left

Fail(w) == /\ w \in UnderWay
           /\ answer' = [answer EXCEPT ![w] = "error"]
           /\ Leaves({w})
           /\ UNCHANGED disturbed

Disturb(w) == /\ w \in UnderWay
              /\ disturbed' = disturbed \cup {w}
              /\ UNCHANGED <<rows, answer>>

Record(e) == /\ rows' = rows \cup {<<e, 0>>}
             /\ UNCHANGED <<answer, disturbed>>

CutOff == /\ answer' = [w \in Writes |-> IF w \in UnderWay THEN "cut" ELSE answer[w]]
          /\ Leaves(UnderWay)
          /\ UNCHANGED disturbed

ANext == \/ \E w \in Writes : Start(w) \/ Succeed(w) \/ Fail(w) \/ Disturb(w)
         \/ \E e \in Evaluations : Record(e)
         \/ CutOff

ASpec == AInit /\ [][ANext]_storeVars
=============================================================================

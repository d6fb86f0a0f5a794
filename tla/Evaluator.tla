------------------------------ MODULE Evaluator ------------------------------
(***************************************************************************)
(* The evaluator's endpoint (autonomy_evaluate in api.py): a proposal is   *)
(* decided and the decision appended to the audit trail, the table         *)
(* autonomy_decisions, in which a request id occurs once.  It runs on the  *)
(* event loop and awaits nothing in between: it is one action.  What its   *)
(* rollback does to other threads is the subject of ConnectionTx.          *)
(***************************************************************************)
EXTENDS Autonomy, Sequences

CONSTANTS RequestIds,       \* chosen by the callers, who may repeat them
          Proposals,        \* proposals that may be submitted
          MaxTrail          \* bound of the model: rows

ASSUME EvaluatorAssumption == Proposals \subseteq Proposal /\ MaxTrail \in Nat

VARIABLES trail,            \* autonomy_decisions, by order of insertion
          envelope          \* the last answer

evalVars == <<trail, envelope>>

NoEnvelope == [status |-> "none"]

EvalTypeOK ==
    /\ Len(trail) <= MaxTrail
    /\ \A n \in DOMAIN trail : /\ trail[n].request \in RequestIds
                               /\ trail[n].sealed.payload \in Proposal
    /\ envelope.status \in {"none", "ok", "error"}

EvalInit == trail = <<>> /\ envelope = NoEnvelope

Sealed(v) == [payload |-> v, decision |-> Decision(v),
              human_required |-> HumanRequired(v), level |-> RiskLevel(v),
              score |-> Score(v)]

Answer(v) == envelope' = [status |-> "ok", sealed |-> Sealed(v)]

(* _validate_input raises, and nobody catches it.                          *)
Invalid(v) == /\ ~Valid(v)
              /\ envelope' = [status |-> "error"]
              /\ UNCHANGED trail

EvaluateAndKeep(r, v) ==
    /\ Valid(v)
    /\ r \notin {trail[n].request : n \in DOMAIN trail}
    /\ Len(trail) < MaxTrail
    /\ trail' = Append(trail, [request |-> r, sealed |-> Sealed(v)])
    /\ Answer(v)

(* The id is in the trail, or the insert fails: the caller gets the        *)
(* decision all the same.                                                  *)
EvaluateOnly(v) == Valid(v) /\ Answer(v) /\ UNCHANGED trail

EvalNext == \E r \in RequestIds, v \in Proposals :
                Invalid(v) \/ EvaluateAndKeep(r, v) \/ EvaluateOnly(v)

EvalSpec == EvalInit /\ [][EvalNext]_evalVars

-----------------------------------------------------------------------------
(* Every decision that was answered or is in the trail is Unblocked: none  *)
(* is automatic against what the proposal itself shows, and a human is     *)
(* asked for with all the others.                                          *)
AutomaticIsUnblocked ==
    LET decided == {trail[n].sealed : n \in DOMAIN trail}
                     \cup IF envelope.status = "ok" THEN {envelope.sealed} ELSE {}
    IN \A d \in decided : /\ Unblocked(d.payload)
                          /\ d.human_required \/ d.decision \in Automatic
=============================================================================

--------------------------- MODULE AutonomyProofs ---------------------------
(***************************************************************************)
(* What holds of the decision about every proposal, and of the evaluator's *)
(* audit trail for any ids, proposals and length.                          *)
(***************************************************************************)
EXTENDS Evaluator, TLAPS

(* An automatic decision is one of two, each with its own conditions, and  *)
(* comes after the rules that block: what every other fact here rests on.  *)
LEMMA AutomaticOnly ==
    ASSUME NEW v, Decision(v) \in Automatic
    PROVE  /\ ~TouchesAuth(v) /\ ~TouchesProxy(v)
           /\ v.canary_error_rate # "exceeded"
           /\ ~v.superseded_head /\ ~v.stale_review
           /\ \/ Mergeable(v) /\ Decision(v) = "auto_approve"
              \/ Retriable(v) /\ Decision(v) = "auto_retry"
    BY DEF Decision, Automatic

(* The controls that may stand beside an automatic decision.               *)
LEMMA ControlsOfAutomatic ==
    ASSUME NEW v, Decision(v) \in Automatic, NEW c \in BlockingControls(v)
    PROVE  /\ Decision(v) = "auto_retry"
           /\ c \in {"exported_signature_change_requires_review",
                     "full_test_suite_required"}
<1>1. /\ ~TouchesAuth(v) /\ ~TouchesProxy(v)
      /\ v.canary_error_rate # "exceeded"
      /\ ~v.superseded_head /\ ~v.stale_review
      /\ \/ Mergeable(v) /\ Decision(v) = "auto_approve"
         \/ Retriable(v) /\ Decision(v) = "auto_retry"
  BY AutomaticOnly
<1>2. Factors(v) \cap {"auth_or_secret_touched", "proxy_or_ssl_touched",
                       "canary_error_rate_exceeded", "superseded_head",
                       "stale_review"} = {}
  BY <1>1 DEF Factors, When
<1>3. "exported_signature_changed" \in Factors(v) => v.exported_signatures_changed
  BY DEF Factors, When
<1>4. c \in {"exported_signature_change_requires_review",
             "full_test_suite_required", "transient_retry_budget_exhausted"}
  BY <1>2 DEF BlockingControls, When
<1>5. c = "transient_retry_budget_exhausted" =>
         v.capability = "ci.check.retry" /\ v.retry_count >= 1
  BY DEF BlockingControls, When
<1>6. c = "exported_signature_change_requires_review" =>
         v.exported_signatures_changed
  BY <1>3 DEF BlockingControls, When
<1>7. c = "full_test_suite_required" => ~v.tests_passed
  BY DEF BlockingControls, When
<1>8. CASE Mergeable(v) /\ Decision(v) = "auto_approve"
  BY <1>4, <1>5, <1>6, <1>7, <1>8 DEF Mergeable
<1>9. CASE Retriable(v) /\ Decision(v) = "auto_retry"
  BY <1>4, <1>5, <1>9 DEF Retriable
<1> QED
  BY <1>1, <1>8, <1>9

(* Unblocked holds of every proposal there can be, not only of those the   *)
(* model's runs submit (autonomy.py 239-263).                              *)
THEOREM NoAutomaticAgainstTheEvidence ==
    ASSUME NEW v \in Proposal
    PROVE  Unblocked(v)
<1>1. SUFFICES ASSUME Decision(v) \in Automatic
               PROVE  /\ ~v.auth_or_secret_touched /\ ~v.proxy_or_ssl_touched
                      /\ v.changed_files \subseteq {"other"}
                      /\ v.canary_error_rate # "exceeded"
                      /\ ~v.superseded_head /\ ~v.stale_review
                      /\ BlockingControls(v) \subseteq
                           IF Decision(v) = "auto_retry"
                           THEN {"exported_signature_change_requires_review",
                                 "full_test_suite_required"}
                           ELSE {}
  BY DEF Unblocked
<1>2. /\ ~TouchesAuth(v) /\ ~TouchesProxy(v)
      /\ v.canary_error_rate # "exceeded"
      /\ ~v.superseded_head /\ ~v.stale_review
  BY <1>1, AutomaticOnly
<1>3. v.changed_files \subseteq {"auth", "secret", "proxy", "other"}
  BY DEF Proposal
<1>4. /\ ~v.auth_or_secret_touched /\ ~v.proxy_or_ssl_touched
      /\ v.changed_files \subseteq {"other"}
  BY <1>2, <1>3 DEF TouchesAuth, TouchesProxy
<1>5. \A c \in BlockingControls(v) :
         /\ Decision(v) = "auto_retry"
         /\ c \in {"exported_signature_change_requires_review",
                   "full_test_suite_required"}
  BY <1>1, ControlsOfAutomatic
<1> QED
  BY <1>2, <1>4, <1>5

(* More against a proposal never turns a human's decision into an          *)
(* automatic one: a broken or lying caller can only make it stricter.      *)
THEOREM WorseIsNeverAutomatic ==
    ASSUME NEW v \in Proposal, NEW w \in Proposal, Worse(w, v),
           Decision(w) \in Automatic
    PROVE  Decision(v) = Decision(w)
<1>1. /\ ~TouchesAuth(w) /\ ~TouchesProxy(w)
      /\ w.canary_error_rate # "exceeded"
      /\ ~w.superseded_head /\ ~w.stale_review
      /\ \/ Mergeable(w) /\ Decision(w) = "auto_approve"
         \/ Retriable(w) /\ Decision(w) = "auto_retry"
  BY AutomaticOnly
<1>2. ~TouchesAuth(v) /\ ~TouchesProxy(v)
  BY <1>1 DEF Worse, TouchesAuth, TouchesProxy
<1>3. /\ v.canary_error_rate # "exceeded"
      /\ ~v.superseded_head /\ ~v.stale_review
  BY <1>1 DEF Worse
<1>4. /\ v.retry_count \in Nat /\ w.retry_count \in Nat
      /\ v.line_churn_penalty \in 0..10 /\ w.line_churn_penalty \in 0..10
  BY DEF Proposal
<1>5. Mergeable(w) => Mergeable(v)
  BY <1>4 DEF Worse, Mergeable
<1>6. Retriable(w) => Retriable(v)
  BY <1>4 DEF Worse, Retriable
<1>7. ~(Mergeable(v) /\ Retriable(v))
  BY DEF Mergeable, Retriable
<1>8. CASE Mergeable(w) /\ Decision(w) = "auto_approve"
  BY <1>2, <1>3, <1>5, <1>8 DEF Decision
<1>9. CASE Retriable(w) /\ Decision(w) = "auto_retry"
  BY <1>2, <1>3, <1>6, <1>7, <1>9 DEF Decision
<1> QED
  BY <1>1, <1>8, <1>9

(* The confidence of an evaluation is a percentage capped at 80.           *)
THEOREM ScoreIsBounded ==
    ASSUME NEW v \in Proposal
    PROVE  Score(v) \in 0..80
<1>1. /\ v.test_coverage_delta \in 0..30 /\ v.author_permission_tier \in 0..20
      /\ v.critical_path_penalty \in 0..40 /\ v.line_churn_penalty \in 0..10
  BY DEF Proposal
<1> QED
  BY <1>1 DEF Score, AtMost, AtLeast

(* The decision table of ADR-008 lists critical_file_touched among the     *)
(* signals that always ask for a human; _decision looks at it only where a *)
(* merge is proposed, and retries a check of such a proposal by itself.    *)
THEOREM RetryIgnoresCriticalFiles ==
    \E v \in Proposal : /\ Valid(v)
                        /\ "critical_file_touched" \in Factors(v)
                        /\ Decision(v) = "auto_retry"
<1> DEFINE v == [capability |-> "ci.check.retry", tests_passed |-> TRUE,
                 patch_release |-> FALSE, exported_signatures_changed |-> FALSE,
                 critical_file_touched |-> TRUE, auth_or_secret_touched |-> FALSE,
                 proxy_or_ssl_touched |-> FALSE, transient_ci_error |-> TRUE,
                 canary_error_rate |-> "none", superseded_head |-> FALSE,
                 stale_review |-> FALSE, retry_count |-> 0, changed_files |-> {},
                 test_coverage_delta |-> 0, author_permission_tier |-> 0,
                 critical_path_penalty |-> 0, line_churn_penalty |-> 0]
<1>1. v \in Proposal
  BY DEF Proposal, Capability
<1>2. Valid(v)
  BY DEF Valid
<1>3. "critical_file_touched" \in Factors(v)
  BY DEF Factors, When
<1>4. Decision(v) = "auto_retry"
  BY DEF Decision, TouchesAuth, TouchesProxy, Mergeable, Retriable
<1> QED
  BY <1>1, <1>2, <1>3, <1>4

-----------------------------------------------------------------------------
(* What the trail and the last answer hold: sealed proposals.              *)
SealedProposals == {Sealed(v) : v \in Proposal}

TrailIsSealed ==
    /\ trail \in Seq([request : RequestIds, sealed : SealedProposals])
    /\ \/ envelope \in [status : {"none", "error"}]
       \/ envelope \in [status : {"ok"}, sealed : SealedProposals]

LEMMA SealedUnblocked ==
    ASSUME NEW d \in SealedProposals
    PROVE  /\ Unblocked(d.payload)
           /\ d.human_required \/ d.decision \in Automatic
<1>1. PICK v \in Proposal : d = Sealed(v)
  BY DEF SealedProposals
<1>2. d.payload = v /\ d.decision = Decision(v)
      /\ d.human_required = (Decision(v) \notin Automatic)
  BY <1>1 DEF Sealed, HumanRequired
<1>3. Unblocked(v)
  BY NoAutomaticAgainstTheEvidence
<1> QED
  BY <1>2, <1>3

LEMMA TrailInv == EvalSpec => []TrailIsSealed
<1>1. EvalInit => TrailIsSealed
  BY DEF EvalInit, TrailIsSealed, NoEnvelope
<1>2. ASSUME TrailIsSealed, [EvalNext]_evalVars
      PROVE  TrailIsSealed'
  <2>1. CASE UNCHANGED evalVars
    BY <1>2, <2>1 DEF evalVars, TrailIsSealed
  <2>2. ASSUME NEW r \in RequestIds, NEW v \in Proposals,
               Invalid(v) \/ EvaluateAndKeep(r, v) \/ EvaluateOnly(v)
        PROVE  TrailIsSealed'
    <3>1. Sealed(v) \in SealedProposals
      BY EvaluatorAssumption DEF SealedProposals
    <3>2. CASE Invalid(v)
      BY <1>2, <3>2 DEF Invalid, TrailIsSealed
    <3>3. CASE EvaluateAndKeep(r, v)
      <4>1. trail' \in Seq([request : RequestIds, sealed : SealedProposals])
        BY <1>2, <3>1, <3>3 DEF EvaluateAndKeep, TrailIsSealed
      <4>2. envelope' \in [status : {"ok"}, sealed : SealedProposals]
        BY <3>1, <3>3 DEF EvaluateAndKeep, Answer
      <4> QED
        BY <4>1, <4>2 DEF TrailIsSealed
    <3>4. CASE EvaluateOnly(v)
      <4>1. envelope' \in [status : {"ok"}, sealed : SealedProposals]
        BY <3>1, <3>4 DEF EvaluateOnly, Answer
      <4> QED
        BY <1>2, <3>4, <4>1 DEF EvaluateOnly, TrailIsSealed
    <3> QED
      BY <2>2, <3>2, <3>3, <3>4
  <2> QED
    BY <1>2, <2>1, <2>2 DEF EvalNext
<1> QED
  BY <1>1, <1>2, PTL DEF EvalSpec

(* Whatever is submitted, in any order and number: every decision that was *)
(* answered or is in the trail is Unblocked.                               *)
THEOREM EvaluatorNeverBypassesAHuman == EvalSpec => []AutomaticIsUnblocked
<1>1. TrailIsSealed => AutomaticIsUnblocked
  <2>1. SUFFICES ASSUME TrailIsSealed,
                        NEW d \in {trail[n].sealed : n \in DOMAIN trail}
                          \cup IF envelope.status = "ok" THEN {envelope.sealed}
                               ELSE {}
                 PROVE  /\ Unblocked(d.payload)
                        /\ d.human_required \/ d.decision \in Automatic
    BY DEF AutomaticIsUnblocked
  <2>2. ASSUME NEW n \in DOMAIN trail
        PROVE  trail[n].sealed \in SealedProposals
    <3> DEFINE Rows == [request : RequestIds, sealed : SealedProposals]
    <3>1. trail \in Seq(Rows)
      BY <2>1 DEF TrailIsSealed
    <3> HIDE DEF Rows
    <3>2. trail[n] \in Rows
      BY <3>1, <2>2
    <3> QED
      BY <3>2 DEF Rows
  <2>3. envelope.status = "ok" => envelope.sealed \in SealedProposals
    BY <2>1 DEF TrailIsSealed
  <2>4. d \in SealedProposals
    BY <2>1, <2>2, <2>3
  <2> QED
    BY <2>4, SealedUnblocked
<1> QED
  BY <1>1, TrailInv, PTL
=============================================================================

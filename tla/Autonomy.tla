------------------------------ MODULE Autonomy ------------------------------
(***************************************************************************)
(* The decision about a proposal of autonomous execution (autonomy.py): a  *)
(* function of the proposal alone.  Of the changed files it keeps what     *)
(* _CRITICAL_FILE_PATTERNS make of their paths, of the canary's error rate *)
(* what it is compared with; names, texts and the blast radius, which      *)
(* decide nothing, are left out.                                           *)
(***************************************************************************)
EXTENDS Integers

Capability == {"dependency.patch.merge", "ci.check.retry",
               "deployment.rollback.prepare", "github.status.sync",
               "github.suggestion.comment", "none"}

(* AutonomyEvaluationInput                                                 *)
Proposal ==
    [capability : Capability,
     tests_passed : BOOLEAN, patch_release : BOOLEAN,
     exported_signatures_changed : BOOLEAN, critical_file_touched : BOOLEAN,
     auth_or_secret_touched : BOOLEAN, proxy_or_ssl_touched : BOOLEAN,
     transient_ci_error : BOOLEAN,
     canary_error_rate : {"none", "negative", "within", "exceeded"},
     superseded_head : BOOLEAN, stale_review : BOOLEAN,
     retry_count : Nat, changed_files : SUBSET {"auth", "secret", "proxy", "other"},
     test_coverage_delta : 0..30, author_permission_tier : 0..20,
     critical_path_penalty : 0..40, line_churn_penalty : 0..10]

(* _validate_input, beyond what the request's schema has checked before    *)
Valid(v) == v.canary_error_rate # "negative"

-----------------------------------------------------------------------------
(* _scan_critical_files: the caller's flags can only be raised.            *)
TouchesAuth(v) ==
    v.auth_or_secret_touched \/ v.changed_files \cap {"auth", "secret"} # {}

TouchesProxy(v) == v.proxy_or_ssl_touched \/ "proxy" \in v.changed_files

When(condition, name) == IF condition THEN {name} ELSE {}

Factors(v) ==
    UNION {When(v.tests_passed, "full_test_suite"),
           When(v.exported_signatures_changed, "exported_signature_changed"),
           When(v.critical_file_touched, "critical_file_touched"),
           When(TouchesAuth(v), "auth_or_secret_touched"),
           When(TouchesProxy(v), "proxy_or_ssl_touched"),
           When(v.transient_ci_error, "transient_ci_error"),
           When(v.canary_error_rate = "exceeded", "canary_error_rate_exceeded"),
           When(v.superseded_head, "superseded_head"),
           When(v.stale_review, "stale_review")}

RiskLevel(v) ==
    LET shows(names) == Factors(v) \cap names # {} IN
    IF shows({"auth_or_secret_touched", "proxy_or_ssl_touched",
              "canary_error_rate_exceeded"}) THEN "critical"
    ELSE IF shows({"exported_signature_changed", "critical_file_touched",
                   "superseded_head", "stale_review"}) THEN "high"
    ELSE IF ~v.tests_passed \/ v.transient_ci_error THEN "medium" ELSE "low"

BlockingControls(v) ==
    LET shows(name) == name \in Factors(v) IN
    UNION {When(shows("auth_or_secret_touched"), "auth_or_secret_requires_human_signoff"),
           When(shows("proxy_or_ssl_touched"), "proxy_or_ssl_requires_human_signoff"),
           When(shows("canary_error_rate_exceeded"), "canary_drift_requires_human_signoff"),
           When(shows("exported_signature_changed"), "exported_signature_change_requires_review"),
           When(shows("superseded_head"), "superseded_head_is_not_promotable"),
           When(shows("stale_review"), "stale_review_is_not_promotable"),
           When(~v.tests_passed, "full_test_suite_required"),
           When(v.capability = "ci.check.retry" /\ v.retry_count >= 1,
                "transient_retry_budget_exhausted")}

-----------------------------------------------------------------------------
Mergeable(v) ==
    /\ v.capability = "dependency.patch.merge"
    /\ v.patch_release /\ v.tests_passed
    /\ ~v.exported_signatures_changed /\ ~v.critical_file_touched
    /\ v.line_churn_penalty = 0

Retriable(v) == /\ v.capability = "ci.check.retry"
                /\ v.transient_ci_error /\ v.retry_count = 0

DecisionIgnoringFiles(v) ==       \* mutant: only the caller's own flags count
    IF v.auth_or_secret_touched \/ v.proxy_or_ssl_touched THEN "blocked"
    ELSE IF v.canary_error_rate = "exceeded" THEN "requires_human_signoff"
    ELSE IF v.superseded_head \/ v.stale_review THEN "blocked"
    ELSE IF Mergeable(v) THEN "auto_approve"
    ELSE IF Retriable(v) THEN "auto_retry" ELSE "requires_human_signoff"

(* _decision: the first rule that applies                                  *)
Decision(v) ==
    IF TouchesAuth(v) \/ TouchesProxy(v) THEN "blocked"
    ELSE IF v.canary_error_rate = "exceeded"
    THEN IF v.capability = "deployment.rollback.prepare"
         THEN "prepare_rollback" ELSE "requires_human_signoff"
    ELSE IF v.superseded_head \/ v.stale_review THEN "blocked"
    ELSE IF Mergeable(v) THEN "auto_approve"
    ELSE IF Retriable(v) THEN "auto_retry"
    ELSE "requires_human_signoff"

Automatic == {"auto_approve", "auto_retry"}

HumanRequired(v) == Decision(v) \notin Automatic

AtMost(n, limit) == IF n <= limit THEN n ELSE limit

AtLeast(n, limit) == IF n >= limit THEN n ELSE limit

Score(v) == AtLeast(AtMost(50 + AtMost(v.test_coverage_delta, 15)
                              + AtMost(v.author_permission_tier, 15)
                              - v.critical_path_penalty
                              - 2 * v.line_churn_penalty, 80), 0)

-----------------------------------------------------------------------------
(* A proposal is decided without a human only if nothing in it, whether    *)
(* the caller declared it or its files show it, touches a trust boundary,  *)
(* the canary is within bounds and the target is current; and no blocking  *)
(* control is listed beside it but, with a retry, those about tests and    *)
(* signatures.                                                             *)
Unblocked(v) ==
    Decision(v) \in Automatic =>
        /\ ~v.auth_or_secret_touched /\ ~v.proxy_or_ssl_touched
        /\ v.changed_files \subseteq {"other"}
        /\ v.canary_error_rate # "exceeded"
        /\ ~v.superseded_head /\ ~v.stale_review
        /\ BlockingControls(v) \subseteq
             IF Decision(v) = "auto_retry"
             THEN {"exported_signature_change_requires_review",
                   "full_test_suite_required"}
             ELSE {}

(* w is v with more against it.                                            *)
Worse(w, v) ==
    /\ w.capability = v.capability
    /\ w.patch_release => v.patch_release
    /\ w.tests_passed => v.tests_passed
    /\ w.transient_ci_error => v.transient_ci_error
    /\ v.exported_signatures_changed => w.exported_signatures_changed
    /\ v.critical_file_touched => w.critical_file_touched
    /\ v.auth_or_secret_touched => w.auth_or_secret_touched
    /\ v.proxy_or_ssl_touched => w.proxy_or_ssl_touched
    /\ v.canary_error_rate = "exceeded" => w.canary_error_rate = "exceeded"
    /\ v.superseded_head => w.superseded_head
    /\ v.stale_review => w.stale_review
    /\ v.changed_files \subseteq w.changed_files
    /\ v.retry_count <= w.retry_count
    /\ v.line_churn_penalty <= w.line_churn_penalty
=============================================================================

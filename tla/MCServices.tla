----------------------------- MODULE MCServices -----------------------------
(***************************************************************************)
(* The small services on small sets: one article, two updates of the       *)
(* policy, records of each kind of sighting, proposals that differ from an *)
(* acceptable one in one field.                                            *)
(***************************************************************************)
EXTENDS Services, TLC

CONSTANTS i1

(* Names of keys are only compared.                                        *)
SwapNames == Permutations(KeyNames)

OneArticle == i1 :> "key"

(* One update gives the destinations, the other the flag.                  *)
SomeUpdates ==
    {[gives |-> {"destinations"},
      to |-> [destinations |-> {"works"}, works |-> FALSE]],
     [gives |-> {"works"}, to |-> [destinations |-> {}, works |-> TRUE]]}

Sighting(path, correlated, kind, executes, admits, future) ==
    [path |-> path, correlated |-> correlated, kind |-> kind,
     executes |-> executes, admits |-> admits, admitted |-> FALSE,
     future |-> future]

SomeRecords ==
    {Sighting("wie", {"wie"}, "opportunity", FALSE, FALSE, FALSE),
     Sighting("cron", {"cron"}, "finding", FALSE, FALSE, FALSE),
     Sighting("runtime", {"wie", "runtime"}, "commitment_candidate", FALSE, FALSE, FALSE),
     Sighting("cron", {"cron"}, "finding", TRUE, FALSE, FALSE),
     Sighting("wie", {"wie"}, "opportunity", FALSE, TRUE, FALSE),
     Sighting("cron", {"wie"}, "finding", FALSE, FALSE, TRUE)}

(* Three proposals that are as good as can be, and what differs from one   *)
(* of them in one field, with and without a canary out of bounds.          *)
Good(capability) ==
    [capability |-> capability, tests_passed |-> TRUE, patch_release |-> TRUE,
     exported_signatures_changed |-> FALSE, critical_file_touched |-> FALSE,
     auth_or_secret_touched |-> FALSE, proxy_or_ssl_touched |-> FALSE,
     transient_ci_error |-> TRUE, canary_error_rate |-> "within",
     superseded_head |-> FALSE, stale_review |-> FALSE, retry_count |-> 0,
     changed_files |-> {"other"}, test_coverage_delta |-> 20,
     author_permission_tier |-> 10, critical_path_penalty |-> 0,
     line_churn_penalty |-> 0]

Deviations ==
    [tests_passed |-> FALSE, patch_release |-> FALSE,
     exported_signatures_changed |-> TRUE, critical_file_touched |-> TRUE,
     auth_or_secret_touched |-> TRUE, proxy_or_ssl_touched |-> TRUE,
     transient_ci_error |-> FALSE, canary_error_rate |-> "exceeded",
     superseded_head |-> TRUE, stale_review |-> TRUE, retry_count |-> 1,
     changed_files |-> {"other", "proxy"}, critical_path_penalty |-> 40,
     line_churn_penalty |-> 10]

NearlyGood ==
    LET deviating(good, fields) ==
          [f \in DOMAIN good |-> IF f \in fields THEN Deviations[f] ELSE good[f]]
    IN {deviating(Good(c), {f} \cup g) :
          c \in {"dependency.patch.merge", "ci.check.retry",
                 "deployment.rollback.prepare"},
          f \in DOMAIN Deviations, g \in {{}, {"canary_error_rate"}}}
       \cup {Good("dependency.patch.merge"), Good("ci.check.retry"),
             [Good("none") EXCEPT !.canary_error_rate = "negative"]}
=============================================================================

------------------------------ MODULE Evidence ------------------------------
(***************************************************************************)
(* The pure part of the evidence pipeline of a legacy AI question: the     *)
(* contract an intent asks for (ai_evidence_contract.go), what a slice of  *)
(* a file supports (ai_evidence_curator.go), and the coverage report of a  *)
(* contract against what was curated (ai_contract_checker.go,              *)
(* ai_retrieval_orchestrator.go).                                          *)
(*                                                                         *)
(* A slice is what the program tells pieces of evidence apart by:          *)
(*   [repo, file, branch, latest, type, units, named]                      *)
(* file: its path and the text of the snippet, by which the curator groups *)
(* the slices of several branches; latest: its commit is the smart latest  *)
(* one of that file; type: what classifyAIEvidenceType reads in its text;  *)
(* units: the text speaks of units; named: the word the checker searches   *)
(* for that its path contains, "conflict" or a word some contract forbids, *)
(* or "plain".  A pool of evidence is a                                    *)
(* function from the slices found to [scope, score, marks]: the label of   *)
(* the citation, the rank it was found with, and the statuses the model    *)
(* assessed it with, a function from contract keys.                        *)
(***************************************************************************)
EXTENDS Integers, Sequences, FiniteSets, FiniteSetsExt

\* The type test_fixture is given to no slice: the code's branches for it are dead.
SliceTypes == {"doc", "proto", "migration_sql", "orm_model", "route", "handler",
               "read_path", "write_path", "request_response_type"}

SourceScopes == {"smart_latest", "branch_candidate"}

\* Same path, same text: aiEvidenceGroupKey leaves the branch out.
SameText(s, t) == s.repo = t.repo /\ s.file = t.file

-----------------------------------------------------------------------------
(* Contracts. *)

ValueFlowKeys == {"value_sources", "source_precedence", "primary_write_path",
                  "derived_value_handling"}

\* aiContractKeyRequiresModelAssessment: keys only the model can fill.
AssessedKeys == ValueFlowKeys \union {"write_path", "persistence_target", "side_effects"}

\* aiContractKeyRequiresRuntimeAssessmentEvidence
RuntimeKeys == AssessedKeys \ {"persistence_target"}

NoOrders == {"unsupported_fact", "unreferenced_claim", "execute_sql",
             "direct_database_update_without_user_request", "secret_exposure"}

\* buildAIEvidenceContract; flow is aiTaskFrameLooksChangeGuidance.
Contract(intent, flow) ==
    CASE intent = "database_direct_update_for_test" ->
           [required |-> {"table_identity", "update_fields", "field_units",
                          "where_conditions", "read_path", "verification_method",
                          "side_effects"},
            recommended |-> {"rollback_plan", "scope_limit"},
            forbidden |-> {"test_fixture_as_runtime_fact", "unsupported_exact_value",
                           "unreferenced_sql", "execute_sql"}]
      [] intent = "api_integration" ->
           [required |-> {"service_candidate", "route_or_rpc", "request_fields",
                          "response_fields", "error_codes", "branch_status"},
            recommended |-> {"auth_policy", "compatibility_notes", "compensation_path"},
            forbidden |-> {"test_fixture_as_runtime_fact", "invented_route",
                           "invented_service_name", "unreferenced_error_code"}]
      [] intent = "document_qa" ->
           [required |-> {"cited_documents", "current_fact", "scope_boundary"},
            recommended |-> {"version_or_branch", "contradiction_check"},
            forbidden |-> {"unsupported_fact", "invented_business_name",
                           "test_fixture_as_runtime_fact"}]
      [] intent = "code_path_explanation" /\ flow ->
           [required |-> {"entrypoint", "call_chain", "implementation_file",
                          "scope_boundary"} \union AssessedKeys,
            recommended |-> {"request_fields", "read_path", "branch_status"},
            forbidden |-> NoOrders]
      [] intent = "code_path_explanation" /\ ~flow ->
           [required |-> {"entrypoint", "call_chain", "implementation_file",
                          "scope_boundary"},
            recommended |-> {"read_path", "write_path", "persistence_target",
                             "side_effects", "branch_status"},
            forbidden |-> NoOrders]
      [] intent = "business_value_change" ->
           [required |-> {"scope_boundary", "persistence_target", "side_effects"}
                            \union ValueFlowKeys,
            recommended |-> {"entrypoint", "read_path", "write_path"},
            forbidden |-> NoOrders \union {"schema_only_update"}]
      [] intent = "branch_lookup" ->
           [required |-> {"branch_candidates", "source_scope", "commit_evidence",
                          "default_branch_baseline"},
            recommended |-> {"merge_status", "stale_branch_risk"},
            forbidden |-> {"unscanned_branch_as_fact", "highest_score_as_latest",
                           "invented_branch"}]
      [] intent = "diagnostics" ->
           [required |-> {"run_identity", "run_steps", "retrieval_plan", "citations",
                          "provider_failover", "checkpoint"},
            recommended |-> {"sanitized_errors", "data_sources", "gaps"},
            forbidden |-> {"secret_exposure", "raw_prompt_leak", "api_key_leak",
                           "bearer_token_leak"}]
      [] OTHER ->
           [required |-> {"cited_evidence", "scope_boundary", "target_artifacts"},
            recommended |-> {"branch_status", "risk_points", "missing_items"},
            forbidden |-> {"unsupported_fact", "unreferenced_claim", "secret_exposure"}]

KeysOfContract(c) == c.required \union c.recommended

-----------------------------------------------------------------------------
(* What a slice supports: aiEvidenceMatchesRequirement. *)

\* Keys any citation supports: every one carries a scope, a branch, a commit.
AlwaysKeys == {"scope_boundary", "version_or_branch", "source_scope", "branch_status",
               "commit_evidence", "default_branch_baseline", "contradiction_check",
               "merge_status", "stale_branch_risk", "data_sources"}

UsableFactKeys == {"cited_documents", "cited_evidence", "current_fact",
                   "target_artifacts", "service_candidate", "error_codes",
                   "auth_policy", "compatibility_notes", "compensation_path",
                   "risk_points", "rollback_plan", "scope_limit"}

\* The types of slice that support the keys decided by the type alone.
TypesFor(k) ==
    CASE k \in AlwaysKeys \union UsableFactKeys -> SliceTypes
      [] k = "entrypoint" -> {"handler", "route", "proto", "request_response_type"}
      [] k \in {"call_chain", "implementation_file"} ->
            {"handler", "read_path", "write_path"}
      [] k = "table_identity" -> {"orm_model", "migration_sql", "doc"}
      [] k = "update_fields" -> {"orm_model", "migration_sql", "read_path"}
      [] k = "field_units" -> {"orm_model", "migration_sql", "read_path", "write_path"}
      [] k = "where_conditions" -> {"read_path", "migration_sql"}
      [] k \in {"read_path", "verification_method"} -> {"read_path", "handler"}
      [] k = "route_or_rpc" -> {"route", "proto", "handler"}
      [] k \in {"request_fields", "response_fields"} ->
            {"request_response_type", "proto", "handler", "route"}
      [] OTHER -> {}

Matches(s, scope, k) ==
    /\ k \notin AssessedKeys
    /\ IF k = "branch_candidates" THEN scope = "branch_candidate"
       ELSE s.type \in TypesFor(k)
    /\ k = "field_units" => s.units

\* aiEvidenceContractKeys and aiEvidenceAssessedContractKeys.
Supports(pool, s, k) ==
    Matches(s, pool[s].scope, k) \/ (k \in AssessedKeys /\ k \in DOMAIN pool[s].marks)

\* The group of a key: the curated slices that support it.
GroupOf(pool, k) == {s \in DOMAIN pool : Supports(pool, s, k)}

\* aiEvidenceContractStatusOverrides: the marks of a key, merged.
MarksOn(pool, k) ==
    {pool[s].marks[k] : s \in {r \in DOMAIN pool : k \in DOMAIN pool[r].marks}}

-----------------------------------------------------------------------------
(* Coverage. *)

BranchKeys == {"branch_candidates", "branch_status", "source_scope",
               "commit_evidence", "merge_status", "stale_branch_risk"}

\* aiEvidenceGroupCoversRequirement, by the reliability of the citation.
CoversKey(k, scope) == scope = "smart_latest" \/ k \in BranchKeys

\* checkAIEvidenceRequirement against the pool curated for the keys seen: a
\* key the curation was not asked for has no group and no status.  What a
\* contract forbids is looked for in the paths.
ItemStatus(contract, pool, seen, k) ==
    LET group == IF k \in seen THEN GroupOf(pool, k) ELSE {}
        marks == IF k \in seen \intersect AssessedKeys THEN MarksOn(pool, k) ELSE {}
    IN IF \E s \in group : s.named \in contract.forbidden THEN "forbidden"
       ELSE IF "conflict" \in marks \/ \E s \in group : s.named = "conflict"
            THEN "conflict"
       ELSE IF group = {} THEN "missing"
       ELSE IF marks = {"partial"} THEN "partial"
       ELSE IF "covered" \in marks \/ \E s \in group : CoversKey(k, pool[s].scope)
            THEN "covered"
       ELSE "partial"

\* checkAIEvidenceContract and finalizeAIContractCoverageReport.
Check(contract, pool, seen) ==
    LET all == KeysOfContract(contract)
        status == [k \in all |-> ItemStatus(contract, pool, seen, k)]
        with(keys, statuses) == {k \in keys : status[k] \in statuses}
        missing == with(contract.required, {"missing", "partial"})
    IN [missing |-> missing,
        covered |-> with(contract.required, {"covered"}),
        status |-> IF with(all, {"forbidden"}) # {} THEN "forbidden"
                   ELSE IF with(all, {"conflict"}) # {} THEN "conflict"
                   ELSE IF missing # {} THEN "missing_required"
                   ELSE IF with(contract.recommended, {"missing", "partial"}) # {}
                        THEN "partial"
                   ELSE "pass"]

StillNeedsRetrieval(report) == report.missing # {} \/ report.status = "conflict"

MarkCompletedWithGaps(report) ==
    IF StillNeedsRetrieval(report)
    THEN [report EXCEPT !.status = "completed_with_gaps"] ELSE report

-----------------------------------------------------------------------------
(* Pools. *)

NoMarks == [k \in {} |-> "covered"]

Found(scope, score) == [scope |-> scope, score |-> score, marks |-> NoMarks]

\* mergeAIEvidence: of two finds of one slice the sort puts the smart latest
\* one first, then the higher score, then the one already there; the other is
\* dropped with the statuses it was assessed with.
Better(new, old) ==
    IF new.scope # old.scope THEN new.scope = "smart_latest" ELSE new.score > old.score

Merge(pool, new) ==
    [s \in DOMAIN pool \union DOMAIN new |->
        IF s \notin DOMAIN pool THEN new[s]
        ELSE IF s \notin DOMAIN new THEN pool[s]
        ELSE IF Better(new[s], pool[s]) THEN new[s] ELSE pool[s]]
=============================================================================

--------------------------- MODULE AnswerVerifier ---------------------------
(***************************************************************************)
(* The pure part of the answer verifier (ai_answer_verifier.go): the       *)
(* checks a draft fails, the verdict drawn from them, and the status of    *)
(* the run.  A draft is known by what the checks look for in its text, a   *)
(* set of Features:                                                        *)
(*   empty      nothing at all (a model that says nothing counts as failed *)
(*              before its answer gets here)                               *)
(*   secret     a token, a key or an authorization header                  *)
(*   claims     says it has executed SQL, changed data, refreshed a cache  *)
(*   uncited    cites nothing             bad_ref     cites a source that  *)
(*                                                    is not displayed     *)
(*   sql        a mutating statement with placeholders, beside its sources *)
(*   bare_sql   the same with concrete values                              *)
(*   loose_sql  the same away from any citation                            *)
(*   select     a query with placeholders, beside its sources              *)
(*   word       a word of SQL outside any statement                        *)
(*   steps      orders a direct change of fields, without SQL              *)
(*   advises    recommends changing the database directly, without SQL     *)
(*   promotes   says of a branch candidate that it is the latest           *)
(*   latest     speaks of the latest without naming a branch candidate     *)
(*   refuses    refuses a database change for lack of an official example  *)
(*   ack        speaks of a conflict or of doubt                           *)
(*   invents    names a service that is no candidate                       *)
(* What the planner found is summed up in a record p:                      *)
(*   some      there is evidence        rounds    retrieval rounds made    *)
(*   intent, explicit   the task frame  flow      the contract requires    *)
(*   missing   required keys that are             value-flow keys          *)
(*             not covered              gaps      completed with gaps      *)
(*   conflict  the coverage is in       branch, latest   groups with only  *)
(*             conflict                 branch candidates, with others     *)
(*   clash, forbidden   some key has    backed    a write path or a        *)
(*             this status                  precedence is assessed covered *)
(* SQL beside its sources cites the slice p.backed speaks of, if any.  The *)
(* check test_fixture_pollution is left out: nothing is excluded from the  *)
(* bundle as a test fixture, so that it never fails.                       *)
(***************************************************************************)
EXTENDS Integers, FiniteSets

MaxRetrievalRounds == 3     \* aiRetrievalMaxRounds

\* buildAIAnswerPolicy: what the prompt tells the model it may answer.
AnswerMode(p) ==
    IF p.intent = "database_direct_update_for_test" /\ ~p.explicit THEN "required_gaps"
    ELSE IF p.forbidden THEN "blocked_forbidden"
    ELSE IF p.clash THEN "conflict_first"
    ELSE IF p.missing \/ p.gaps THEN "required_gaps"
    ELSE "deterministic_allowed"

\* aiAnswerSQLStatementMutatesData, extractAIAnswerSQLStatements and
\* aiAnswerSQLKeywordPattern: a statement that changes data, any statement, any
\* word of SQL.
Mutates(a) == a \intersect {"sql", "bare_sql", "loose_sql"} # {}
HasSql(a) == Mutates(a) \/ "select" \in a
SpeaksSql(a) == HasSql(a) \/ "word" \in a

OrdersSteps(a, p) == p.intent = "database_direct_update_for_test" /\ "steps" \in a

\* aiAnswerContainsDeterministicOperation
HasSteps(a, p) == SpeaksSql(a) \/ OrdersSteps(a, p)

\* The statement is near a citation, and near one that supports a write.
SqlCited(a) == a \intersect {"uncited", "loose_sql"} = {}
SqlBacked(a, p) == SqlCited(a) /\ p.backed

CodePathIntents == {"code_path_explanation", "business_value_change"}

\* The pairs of a check of verifyAIAnswerWithContext and whether it fails.
Verdicts(a, p) ==
    {<<"empty_answer", "empty" \in a>>,
     <<"secret_exposure", "secret" \in a>>,
     <<"unauthorized_behavior", "claims" \in a>>,
     <<"citation_coverage", p.some /\ "uncited" \in a>>,
     <<"citation_not_found", p.some /\ "bad_ref" \in a>>,
     <<"missing_required_deterministic_steps", p.missing /\ HasSteps(a, p)>>,
     <<"coverage_conflict_unacknowledged", p.conflict /\ "ack" \notin a>>,
     <<"sql_missing_placeholder", "bare_sql" \in a>>,
     <<"sql_without_explicit_database_request", Mutates(a) /\ ~p.explicit>>,
     <<"sql_missing_citation", /\ HasSql(a) /\ ~SqlCited(a)
                               /\ p.intent = "database_direct_update_for_test">>,
     <<"sql_value_flow_source_unsupported", HasSql(a) /\ p.flow /\ ~SqlBacked(a, p)>>,
     <<"code_path_direct_sql", p.intent \in CodePathIntents
                                 /\ (HasSql(a) \/ "advises" \in a)>>,
     <<"branch_scope_mismatch", p.branch /\ ("promotes" \in a
                                                \/ ("latest" \in a /\ ~p.latest))>>,
     <<"unsupported_refusal", /\ p.intent = "database_direct_update_for_test"
                              /\ ~p.missing /\ "refuses" \in a>>,
     <<"invented_service_name", p.some /\ "invents" \in a>>}

FailedChecks(a, p) == {v[1] : v \in {w \in Verdicts(a, p) : w[2]}}

\* More retrieval is asked for while rounds are left (nobody performs it).
RoundsLeft(p) == p.rounds \in 1..(MaxRetrievalRounds - 1)

\* finalizeAIAnswerVerificationReport
Finalize(failed, p) ==
    IF failed = {}
    THEN IF p.missing \/ p.gaps
         THEN [failed |-> failed, status |-> "completed_with_gaps",
               next |-> IF RoundsLeft(p) THEN "retrieve_more" ELSE "complete_with_gaps"]
         ELSE [failed |-> failed, status |-> "pass", next |-> "pass"]
    ELSE IF failed \intersect {"secret_exposure", "unauthorized_behavior"} # {}
    THEN [failed |-> failed, status |-> "failed", next |-> "block_answer"]
    ELSE IF p.missing /\ RoundsLeft(p)
    THEN [failed |-> failed, status |-> "failed", next |-> "retrieve_more"]
    ELSE IF "missing_required_deterministic_steps" \in failed
    THEN [failed |-> failed, status |-> "completed_with_gaps",
          next |-> "complete_with_gaps"]
    ELSE [failed |-> failed, status |-> "failed", next |-> "rewrite_answer"]

Verify(a, p) == Finalize(FailedChecks(a, p), p)

\* Mutant: only a rewriting that asks for another one is refused.
RewriteUnlessAgain(report) == report.next # "rewrite_answer"

\* Of a rewritten answer verifyAndMaybeRewriteAIAnswer keeps this.
RewriteAccepted(report) ==
    report.next = "pass" \/ report.status = "completed_with_gaps"

\* The report once a conservative answer has replaced a draft, after no, a
\* failed or a refused rewrite.
Replaced(report, rewritten) ==
    IF report.status # "completed_with_gaps"
         /\ (rewritten \/ report.next \in {"rewrite_answer", "block_answer"})
    THEN [report EXCEPT !.status = "verification_failed"] ELSE report

\* Mutant: the status of the report is stored as it is.
RunStatusRaw(report, p) == IF ~p.some THEN "insufficient_evidence" ELSE report.status

\* aiRunStatusesForVerification
RunStatus(report, p) ==
    IF ~p.some THEN "insufficient_evidence"
    ELSE CASE report.status = "pass" -> "succeeded"
           [] report.status = "completed_with_gaps" -> "completed_with_gaps"
           [] OTHER -> "verification_failed"
=============================================================================

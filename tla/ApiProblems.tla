------------------------------ MODULE ApiProblems ------------------------------
(***************************************************************************)
(* The HTTP status of every refusal.  A refusal is an error of one domain, *)
(* named by its problem code; the same code may have another status in     *)
(* another domain.  An error without an entry is an internal error.        *)
(***************************************************************************)
EXTENDS Naturals

InternalError == 500

ContentStatus(code) ==
    IF code \in {"forbidden", "tenant_context_mismatch"} THEN 403
    ELSE IF code \in {"content_not_found", "content_version_not_found", "library_item_not_found",
                      "review_queue_item_not_found"} THEN 404
    ELSE IF code \in {"content_already_exists", "content_version_already_published",
                      "content_version_append_not_allowed", "idempotency_key_reused",
                      "publication_approval_required", "publication_asset_validation_failed",
                      "publication_governance_rejected", "publication_not_allowed",
                      "publication_payload_invalid", "publication_version_not_current",
                      "review_already_decided", "review_decision_not_allowed",
                      "review_requires_new_version", "review_submit_not_allowed",
                      "review_version_not_current", "version_already_exists"} THEN 409
    ELSE IF code = "resource_revision_conflict" THEN 412
    ELSE IF code \in {"asset_reference_invalid", "content_payload_invalid", "content_schema_mismatch",
                      "content_schema_not_found", "invalid_content_request",
                      "persistence_invariant_violation", "review_comment_rejected",
                      "unknown_content_type", "version_lineage_conflict"} THEN 422
    ELSE IF code \in {"persistence_unavailable", "publication_schema_unavailable"} THEN 503
    ELSE InternalError

TeachingStatus(code) ==
    IF code \in {"class_ref_not_assignable", "forbidden", "source_work_forbidden",
                 "teaching_assignment_forbidden", "teaching_execution_forbidden",
                 "teaching_work_capability_forbidden"} THEN 403
    ELSE IF code \in {"classroom_assessment_not_found", "content_not_found", "source_work_not_found",
                      "teacher_memory_not_found", "teaching_assignment_not_found",
                      "teaching_execution_not_found", "teaching_execution_observation_not_found",
                      "teaching_work_not_found"} THEN 404
    ELSE IF code \in {"assessment_composition_conflict", "classroom_assessment_not_recorded",
                      "content_version_mismatch", "generation_idempotency_conflict",
                      "idempotency_key_reused", "teaching_assignment_not_active",
                      "teaching_execution_not_in_progress", "work_generation_already_exists",
                      "work_generation_in_progress"} THEN 409
    ELSE IF code \in {"resource_revision_conflict", "teaching_execution_observation_revision_conflict",
                      "work_generation_revision_conflict"} THEN 412
    ELSE IF code \in {"content_not_eligible_for_assignment", "educational_quality_failed",
                      "execution_content_binding_rejected", "invalid_teacher_assistant_request",
                      "invalid_teacher_memory_request", "invalid_teaching_assignment_request",
                      "invalid_teaching_execution_request", "invalid_teaching_work_request",
                      "persistence_invariant_violation", "preparation_recovery_invariant_violation",
                      "unsupported_observation_kind"} THEN 422
    ELSE IF code = "work_generation_precondition_required" THEN 428
    ELSE IF code \in {"content_materialization_failed", "model_generation_failed",
                      "model_output_invalid"} THEN 502
    ELSE IF code \in {"assistant_service_unavailable", "generation_service_unavailable",
                      "model_provider_unavailable", "persistence_unavailable",
                      "school_context_unavailable", "teacher_os_mission_unavailable"} THEN 503
    ELSE InternalError

AssessmentStatus(code) ==
    IF code \in {"assessment_composition_conflict", "content_not_eligible_for_assessment",
                 "content_version_mismatch", "invalid_classroom_assessment_request",
                 "teaching_assignment_composition_mismatch", "teaching_execution_binding_mismatch",
                 "teaching_execution_not_completed"} THEN 400
    ELSE IF code \in {"assessment_capability_forbidden", "class_ref_not_assignable"} THEN 403
    ELSE IF code \in {"classroom_assessment_not_found", "content_not_found_for_assessment",
                      "learner_submission_not_found", "teaching_assignment_not_found",
                      "teaching_execution_not_found", "teaching_work_not_found"} THEN 404
    ELSE IF code \in {"classroom_assessment_not_recorded", "evaluation_lineage_conflict",
                      "idempotency_key_reused"} THEN 409
    ELSE IF code = "resource_revision_conflict" THEN 412
    ELSE IF code = "evaluation_content_unsupported" THEN 422
    ELSE IF code = "school_context_unavailable" THEN 503
    ELSE InternalError

LearningStatus(code) ==
    IF code = "forbidden" THEN 403
    ELSE IF code \in {"assignment_not_found", "attempt_not_found", "content_version_not_found"} THEN 404
    ELSE IF code \in {"assignment_closed_or_cancelled", "assignment_not_currently_consumable",
                      "assignment_not_yet_available", "attempt_already_submitted",
                      "attempt_in_progress_conflict", "idempotency_key_reused", "invalid_attempt_state",
                      "second_attempt_not_authorized", "submission_immutable"} THEN 409
    ELSE IF code = "resource_revision_mismatch" THEN 412
    ELSE IF code \in {"content_not_learner_consumable", "invalid_learner_request", "invalid_response",
                      "response_validation_failed"} THEN 422
    ELSE IF code \in {"persistence_operation_failed", "school_context_unavailable"} THEN 503
    ELSE InternalError

\* Refusals of the path in front of every command, and of the framework.
PlatformStatus(code) ==
    IF code \in {"invalid_correlation_id", "invalid_tenant_header", "invalid_cursor", "invalid_if_match",
                 "idempotency_key_required", "invalid_idempotency_key"} THEN 400
    ELSE IF code = "unauthenticated" THEN 401
    ELSE IF code = "forbidden" THEN 403
    ELSE IF code = "not_found" THEN 404
    ELSE IF code = "method_not_allowed" THEN 405
    ELSE IF code = "validation_error" THEN 422
    ELSE IF code = "precondition_required" THEN 428
    ELSE IF code \in {"authentication_unavailable", "authorization_unavailable",
                      "governance_unavailable", "mutations_not_activated"} THEN 503
    ELSE InternalError

\* The status of a problem of a domain: the framework's own problems are answered
\* by its handlers, whatever the route; the others by the handler of their domain.
Status(domain, code) ==
    IF PlatformStatus(code) # InternalError THEN PlatformStatus(code)
    ELSE CASE domain = "content" -> ContentStatus(code)
           [] domain = "teaching" -> TeachingStatus(code)
           [] domain = "assessment" -> AssessmentStatus(code)
           [] domain = "learning" -> LearningStatus(code)
=============================================================================

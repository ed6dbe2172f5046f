------------------------------ MODULE RequestPath ------------------------------
(***************************************************************************)
(* What a request passes before a command sees it, in the order of the     *)
(* code: correlation header, activation gate of the release, tenant        *)
(* header, bearer token, current access of the principal to the tenant,    *)
(* body, Idempotency-Key, If-Match; what a command asks of the authority   *)
(* besides.  Pure operators; ApiProblems has the status of every answer.   *)
(***************************************************************************)
EXTENDS Naturals

-----------------------------------------------------------------------------
(* The activation of mutations by the environment of the process. *)

Mutating ==
    {"teaching_work_create", "teaching_work_refine", "teaching_work_from_classroom_assessment_create",
     "teaching_assignment_create", "teaching_assignment_due_update", "teaching_assignment_close",
     "teaching_assignment_cancel", "teaching_execution_start", "teaching_execution_complete",
     "teaching_execution_cancel", "teaching_execution_observation_create",
     "teaching_execution_observation_correct", "assessment_classroom_record",
     "assessment_classroom_correct", "assessment_classroom_void", "teacher_os_memory_create",
     "teacher_os_memory_update"}

\* The values are trimmed; a malformed or missing one is "".
GateStatus(env, release) ==
    IF env.activation \in {"", "DISABLED"} THEN "DISABLED"
    ELSE IF env.activation # "ENABLED" \/ env.sha = "" \/ env.digest = "" THEN "INVALID_CONFIGURATION"
    ELSE IF env.sha # release.sha \/ env.digest # release.digest THEN "RELEASE_MISMATCH"
    ELSE "ENABLED"

-----------------------------------------------------------------------------
(* Authentication by a bearer token. *)

RequiredClaims == {"exp", "iat", "sub", "client_id", "jti", "principal_id"}

\* Scheme, one space, three non-empty segments.
Extracted(token) == token.bearer /\ token.segments = 3
HeaderSound(token) == token.alg = "RS256" /\ token.typ = "at+jwt"
\* Signature, issuer, audience and times by the library, then what must be there.
ClaimsSound(token) == token.verified /\ RequiredClaims \subseteq token.claims

Authenticate(token) ==
    IF ~ Extracted(token) \/ ~ HeaderSound(token) THEN "unauthenticated"
    ELSE IF token.key = "unreachable" THEN "authentication_unavailable"
    ELSE IF token.key = "unknown" \/ ~ ClaimsSound(token) THEN "unauthenticated"
    ELSE "ok"

-----------------------------------------------------------------------------
(* The current authority, read from its rows at every request. *)

Absent == [status |-> "ABSENT", revoked |-> FALSE, expired |-> FALSE]
CurrentlyValid(row) == row.status = "ACTIVE" /\ ~ row.revoked /\ ~ row.expired

TenantAccess(authority) ==
    /\ authority.principal.status = "ACTIVE"
    /\ authority.tenant = "ACTIVE"
    /\ CurrentlyValid(authority.membership)

GrantOf(authority, capability) ==
    IF capability \in DOMAIN authority.grants THEN authority.grants[capability] ELSE Absent
\* Mutant: a membership once given is not looked at again.
GrantOnly(authority, capability) == CurrentlyValid(GrantOf(authority, capability))
Capability(authority, capability) ==
    TenantAccess(authority) /\ CurrentlyValid(GrantOf(authority, capability))

HumanPrincipal(authority) ==
    authority.principal.status = "ACTIVE" /\ authority.principal.kind = "HUMAN"

\* What a command asks of the authority before its transaction, in its order.
Needs(operation) ==
    IF operation = "assessment_classroom_record" THEN <<"assessment.classroom.record">>
    ELSE IF operation = "assessment_classroom_correct" THEN <<"assessment.classroom.correct">>
    ELSE IF operation = "assessment_classroom_void" THEN <<"assessment.classroom.void">>
    ELSE IF operation = "teaching_work_from_classroom_assessment_create"
         THEN <<"teaching.work.create", "assessment.classroom.read">>
    ELSE IF operation \in {"teacher_os_memory_create", "teacher_os_memory_update"} THEN <<"human">>
    ELSE <<>>

Granted(authority, need) ==
    IF need = "human" THEN HumanPrincipal(authority) ELSE Capability(authority, need)

Denial(need) ==
    IF need = "human" THEN "forbidden"
    ELSE IF need = "teaching.work.create" THEN "teaching_work_capability_forbidden"
    ELSE "assessment_capability_forbidden"

-----------------------------------------------------------------------------
(* The headers and the order of the checks. *)

Conditional ==
    {"teaching_work_refine", "teaching_assignment_due_update", "teaching_assignment_close",
     "teaching_assignment_cancel", "teaching_execution_complete", "teaching_execution_cancel",
     "teaching_execution_observation_correct", "assessment_classroom_correct",
     "assessment_classroom_void", "teacher_os_memory_update"}

ParsedKey(header) ==
    IF header = "absent" THEN "idempotency_key_required"
    ELSE IF header = "malformed" THEN "invalid_idempotency_key" ELSE "ok"

ParsedIfMatch(operation, header) ==
    IF operation \notin Conditional THEN "ok"
    ELSE IF header = "absent" THEN "precondition_required"
    ELSE IF header = "malformed" THEN "invalid_if_match" ELSE "ok"

TrustedContext(envelope, authority) ==
    IF envelope.tenant = "malformed" THEN "invalid_tenant_header"
    ELSE IF Authenticate(envelope.token) # "ok" THEN Authenticate(envelope.token)
    ELSE IF envelope.tenant = "absent" THEN "unauthenticated"
    ELSE IF ~ TenantAccess(authority) THEN "forbidden" ELSE "ok"

Path(operation, envelope, authority, gate) ==
    IF envelope.correlation = "malformed" THEN "invalid_correlation_id"
    ELSE IF operation \in Mutating /\ gate # "ENABLED" THEN "mutations_not_activated"
    ELSE IF TrustedContext(envelope, authority) # "ok" THEN TrustedContext(envelope, authority)
    ELSE IF envelope.body = "malformed" THEN "validation_error"
    ELSE IF ParsedKey(envelope.key) # "ok" THEN ParsedKey(envelope.key)
    ELSE ParsedIfMatch(operation, envelope.ifMatch)
=============================================================================

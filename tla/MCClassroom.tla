------------------------------ MODULE MCClassroom ------------------------------
(* Classroom with two requests at a time; each desk is the operations of one story. *)
EXTENDS Classroom, TLC

CONSTANTS T, S, N, k1, k2, j1, j2, high, low, lesson, club, other

MCWorkOwner == (lesson :> T) @@ (club :> T) @@ (other :> S)

Desk(operations, requests, withdrawals) ==
    [operations |-> operations, requests |-> requests, withdrawals |-> withdrawals]
MCDesks ==
    {Desk({"teaching_execution_start", "teaching_execution_observation_create",
           "teaching_execution_observation_correct", "teaching_execution_complete"}, 4, 1),
     Desk({"teaching_execution_start", "teaching_execution_observation_create", "teaching_execution_complete",
           "teaching_execution_cancel"}, 3, 0),
     Desk({"teaching_execution_start", "teaching_execution_cancel", "assessment_classroom_record"}, 3, 0),
     Desk({"assessment_classroom_record", "assessment_classroom_correct", "assessment_classroom_void",
           "teaching_work_from_classroom_assessment_create"}, 3, 0),
     Desk({"assessment_classroom_record", "teaching_work_from_classroom_assessment_create"}, 2, 1),
     Desk({"teaching_assignment_create", "teaching_assignment_due_update", "teaching_assignment_close",
           "teaching_assignment_cancel"}, 3, 1),
     Desk({"teaching_assignment_create", "teaching_execution_start", "teaching_execution_complete",
           "assessment_classroom_record"}, 4, 0),
     Desk({"teaching_work_create", "teaching_work_refine"}, 4, 1),
     Desk({"teacher_os_memory_create", "teacher_os_memory_update"}, 4, 1)}

MCRelease == [sha |-> "a1", digest |-> "d1"]
MCEnvironments ==
    {[activation |-> "ENABLED", sha |-> "a1", digest |-> "d1"],
     [activation |-> "ENABLED", sha |-> "a1", digest |-> ""],
     [activation |-> "ENABLED", sha |-> "a0", digest |-> "d1"],
     [activation |-> "", sha |-> "", digest |-> ""]}

Sound ==
    [correlation |-> "absent", tenant |-> "present", body |-> "ok", key |-> "present", ifMatch |-> "present",
     token |-> [bearer |-> TRUE, segments |-> 3, alg |-> "RS256", typ |-> "at+jwt", key |-> "known",
                verified |-> TRUE, claims |-> RequiredClaims]]
MCEnvelopes ==
    {Sound, [Sound EXCEPT !.correlation = "malformed"], [Sound EXCEPT !.tenant = "absent"],
     [Sound EXCEPT !.tenant = "malformed"], [Sound EXCEPT !.body = "malformed"],
     [Sound EXCEPT !.key = "absent"], [Sound EXCEPT !.key = "malformed"],
     [Sound EXCEPT !.ifMatch = "absent"], [Sound EXCEPT !.ifMatch = "malformed"],
     [Sound EXCEPT !.token.bearer = FALSE], [Sound EXCEPT !.token.alg = "none"],
     [Sound EXCEPT !.token.key = "unknown"], [Sound EXCEPT !.token.key = "unreachable"],
     [Sound EXCEPT !.token.verified = FALSE], [Sound EXCEPT !.token.claims = RequiredClaims \ {"jti"}]}

MCResources == Kinds \cup {"origin"}

Symmetry == Permutations(Jobs) \cup Permutations(Levels) \cup Permutations({lesson, club})
=============================================================================

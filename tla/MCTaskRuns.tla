------------------------------ MODULE MCTaskRuns ------------------------------
(* Model checking of TaskRuns.  "first" is the launch of the Task, "rival" *)
(* another one beside it; "next" and "again" are one continue request and  *)
(* its retry.                                                              *)
EXTENDS TaskRuns, TLC

CONSTANTS first, rival, next, again, request, stop, poll, cleanup

MCRequestId == [l \in Launches |-> IF l \in {first, rival} THEN NoRequestId ELSE request]

Scene(callers, c, w) == [callers |-> callers, crashes |-> c, writeFailures |-> w]

(* A continue request and its retry, across a restart or a failing write;  *)
(* two launches that find the same draft; a Task that is stopped, polled   *)
(* and released beside its Run.                                            *)
MCScenes == {
    Scene({first, next, again}, 1, 0),
    Scene({first, next, again, poll}, 0, 1),
    Scene({first, next, poll}, 1, 0),
    Scene({first, next}, 1, 1),
    Scene({first, rival}, 1, 1),
    Scene({first, stop, poll, cleanup}, 0, 1)}

=============================================================================

------------------------- MODULE MCWorkflowService -------------------------
EXTENDS WorkflowService, TLC

CONSTANTS o1, o2, r1, r2, r3, r4, w1, w2, w3, t1, t2, p1, p2

OneOwner      == {o1}
TwoOwners     == {o1, o2}
TwoRequests   == {r1, r2}
FourRequests  == {r1, r2, r3, r4}
OneWorkflow   == {w1}
TwoWorkflows  == {w1, w2}
ThreeWorkflows == {w1, w2, w3}
ThirdOnly     == {w3}
OneTitle      == {t1}
TwoTitles     == {t1, t2}
TwoProcesses  == {p1, p2}
OneBreakdown  == {<<t2, t1>>}
Nobody        == {}

(* Every payload a client could send, ...                                  *)
AllPayloads == Payload

(* ... and a few: the shortest way to a completed plan, a cancellation of  *)
(* each of its steps, and a command to a plan that has ended.              *)
ShortPathPayloads ==
    {[expected |-> 0, step |-> "ASSESS_TASK",
      command |-> [kind |-> "answer", answer |-> FALSE]],
     [expected |-> 1, step |-> "REVIEW", command |-> [kind |-> "confirm"]],
     [expected |-> 0, step |-> "ASSESS_TASK", command |-> [kind |-> "cancel"]],
     [expected |-> 1, step |-> "REVIEW", command |-> [kind |-> "cancel"]],
     [expected |-> 2, step |-> "COMPLETED", command |-> [kind |-> "cancel"]]}

RequestSymmetry    == Permutations(FourRequests) \cup Permutations(TwoProcesses)
TwoRequestSymmetry == Permutations(TwoRequests) \cup Permutations(TwoProcesses)
=============================================================================

------------------------ MODULE MCSuggestionService ------------------------
EXTENDS SuggestionService, TLC

CONSTANTS o1, r1, r2, w1, w2, t1, t2, p1, p2, q1, q2, s1, none, date

OneOwner       == {o1}
OneRequest     == {r1}
TwoRequests    == {r1, r2}
OneWorkflow    == {w1}
TwoWorkflows   == {w1, w2}
TwoTitles      == {t1, t2}
OneBreakdown   == {<<t2, t1>>}
Nobody         == {}
OneCaller      == {p1}
TwoCallers     == {p1, p2}
OneWorker      == {q1}
TwoWorkers     == {q1, q2}
OneSweeper     == {s1}
Cloud          == {TRUE}
BothModes      == {TRUE, FALSE}
TwoClarify     == {none, date}

(* A plan one answer away from collecting titles.                          *)
Offered == [InitialRow(o1, t1) EXCEPT !.state = "OFFER_BREAKDOWN",
                                      !.flag = "yes", !.revision = 1]
OfferedPlans == {Offered}

Right == [expected |-> 2, step |-> "COLLECT_TASKS", clarify |-> none]

(* The request the client makes, and the same with a clarification.        *)
RightPayload == {Right}
TwoPayloads  == {Right, [Right EXCEPT !.clarify = date]}

RequestSymmetry == Permutations(TwoRequests)
CallerSymmetry  == RequestSymmetry \cup Permutations(TwoCallers)
WorkerSymmetry  == Permutations(TwoWorkers)
=============================================================================

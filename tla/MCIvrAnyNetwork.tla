-------------------------- MODULE MCIvrAnyNetwork --------------------------
EXTENDS IvrAnyNetwork

CONSTANTS ours, theirs, none

Id        == <<7>>
OurCall   == {ours}
BothCalls == {ours, theirs}
Moments   == {1, 2}

(* The far side says each prompt as one segment and the amount as two.     *)
(* What may come besides: a prompt at the wrong time, or a refusal.        *)
Amount      == ResultPrompt(130)
Halves      == <<SubSeq(Amount, 1, 3), SubSeq(Amount, 4, Len(Amount))>>
WholeScript == [s \in DOMAIN StageSigns |->
                    IF s = "result" THEN Halves ELSE <<Prompt(s, <<3>>)>>]
Segments    == {Prompt("challenge", <<3>>), <<"not accepted">>}
=============================================================================

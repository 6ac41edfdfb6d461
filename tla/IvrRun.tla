------------------------------- MODULE IvrRun --------------------------------
(***************************************************************************)
(* What a run of the caller promises its operator: one call is asked for,  *)
(* the first verdict on it stands whatever cleaning up meets afterwards,   *)
(* and that verdict is the one reported.  An operator who interrupts a run *)
(* before its verdict is told so, and that is the verdict.  Every run ends *)
(* with its report.                                                        *)
(***************************************************************************)
CONSTANT None

VARIABLES
    asked,            \* the call was asked for
    verdict,
    reported

Init == asked = FALSE /\ verdict = None /\ reported = None

Ask == ~asked /\ asked' = TRUE /\ UNCHANGED <<verdict, reported>>

Decide ==
    /\ asked /\ verdict = None
    /\ verdict' # None
    /\ UNCHANGED <<asked, reported>>

Report ==
    /\ verdict # None /\ reported = None
    /\ reported' = verdict
    /\ UNCHANGED <<asked, verdict>>

Interrupt ==
    /\ asked /\ verdict = None
    /\ verdict' # None /\ verdict'.status = "error"
    /\ reported' = verdict'
    /\ UNCHANGED asked

Next == Ask \/ Decide \/ Report \/ Interrupt

Ends == <>(reported # None)

Spec == Init /\ [][Next]_<<asked, verdict, reported>> /\ Ends
=============================================================================

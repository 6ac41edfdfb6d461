------------------------------- MODULE IvrFlow -------------------------------
(***************************************************************************)
(* One call as the automated caller navigates it: ClientFlow of            *)
(* spikes/ivr/client.py, a synchronous machine from an event and a time to *)
(* the next flow.  `issued' lists the commands it has reserved; `pending'  *)
(* is the place in that list of the one whose failure still counts.        *)
(*                                                                         *)
(* An event is [id, call, kind, at, text]: `at' is when the provider says  *)
(* it occurred, which is not the order of delivery.  Partial transcripts   *)
(* and events of no concern have kind "other".                             *)
(***************************************************************************)
EXTENDS IvrSpeech

CONSTANTS
    StageTimeout, CallTimeout,
    CleanupBudget,    \* _CLEANUP_SECONDS and _CLEANUP_BUDGET
    ResultGrace,      \* what late final speech gets after the hangup
    MaxSegments, MaxEventIds

NextStage == [welcome |-> "challenge", challenge |-> "menu", menu |-> "identifier",
              identifier |-> "confirmation", confirmation |-> "result"]
Stages    == DOMAIN NextStage \cup {"dialing", "result", "hanging_up", "ended"}

(* error_result(): what the public record says of an internal reason.      *)
PublicErrors == {"challenge_unrecognized", "unexpected_menu", "id_mismatch",
                 "confirmation_unrecognized", "fixture_rejection", "result_unrecognized",
                 "stage_timeout", "overall_timeout", "early_hangup", "provider_failure",
                 "protocol_error", "startup_failed", "internal_error", "interrupted"}

PublicStages == {"startup"} \cup (Stages \ {"hanging_up", "ended"})

Alias == [dial_rejected |-> "provider_failure", dial_uncertain |-> "provider_failure",
          transcript_order |-> "protocol_error", identity_conflict |-> "protocol_error",
          buffer_overflow |-> "protocol_error", event_overflow |-> "protocol_error",
          ambiguous |-> "protocol_error", server_stopped |-> "internal_error",
          shutdown |-> "interrupted", hangup_unconfirmed |-> "provider_failure"]

ErrorResult(reason, stage) ==
    LET code == IF reason \in DOMAIN Alias THEN Alias[reason] ELSE reason
    IN  [status |-> "error",
         code   |-> IF code \in PublicErrors THEN code ELSE "internal_error",
         stage  |-> IF stage \in PublicStages THEN stage ELSE "startup"]
Success(amount) == [status |-> "success", value |-> amount]

(* A flow, the commands it has reserved, and what it may come to.          *)
Maybe(S) == S \cup {None}

Commands == [do : {"hangup"}]
            \cup [do : {"send_dtmf"}, stage : DOMAIN NextStage, digits : Seq(0..9), at : Int]

Results == [status : {"error"}, code : PublicErrors, stage : PublicStages]
           \cup [status : {"success"}, value : Int]

FlowType ==
    [stage : Stages, since : Int, pending : Maybe(Nat), result : Maybe(Results),
     heard : Seq(Seq(Tokens)), last : Maybe(Int), consumed : Maybe(Int), seen : SUBSET Nat,
     hungAt : Maybe(Int), remoteHungAt : Maybe(Int), issued : Seq(Commands)]

ASSUME IvrFlowAssumption ==
    /\ {StageTimeout, CallTimeout, CleanupBudget, ResultGrace,
        MaxSegments, MaxEventIds} \subseteq Nat \ {0}
    /\ StageTimeout <= CallTimeout
    /\ None \notin Int \cup Results \cup FlowType

NewFlow(now) ==
    [stage |-> "dialing", since |-> now, pending |-> None, result |-> None,
     heard |-> <<>>, last |-> None, consumed |-> None, seen |-> {},
     hungAt |-> None, remoteHungAt |-> None, issued |-> <<>>]

-----------------------------------------------------------------------------
(* _decide, _end, _hangup, _fail                                           *)
Decided_LastWins(f, result) == [f EXCEPT !.result = result]

Decided(f, result) == IF f.result = None THEN [f EXCEPT !.result = result] ELSE f

Ended(f) == [f EXCEPT !.stage = "ended", !.pending = None, !.heard = <<>>]

Reserve(f, command) ==
    [f EXCEPT !.issued = Append(@, command), !.pending = Len(f.issued) + 1, !.heard = <<>>]

HangUp(f, now) ==
    [Reserve(f, [do |-> "hangup"]) EXCEPT !.stage = "hanging_up", !.hungAt = now]

Leave_Silently(f, now) == Ended(f)

Leave(f, now) == IF f.remoteHungAt # None THEN Ended(f) ELSE HangUp(f, now)

Fail(f, reason, now) ==
    IF f.stage = "ended" THEN f ELSE Leave(Decided(f, ErrorResult(reason, f.stage)), now)

Stop(f, reason, now) == IF f.stage = "hanging_up" THEN f ELSE Fail(f, reason, now)

-----------------------------------------------------------------------------
(* Deadlines: _expired, _on_deadline, expire.                              *)
Boundary(f) ==
    IF f.remoteHungAt + ResultGrace <= CallTimeout THEN f.remoteHungAt + ResultGrace
                                                   ELSE CallTimeout

Expired(f, now) ==
    IF f.remoteHungAt # None
    THEN IF now >= Boundary(f) THEN "result_unrecognized" ELSE None
    ELSE IF now >= CallTimeout THEN "overall_timeout"
    ELSE IF now - f.since >= StageTimeout THEN "stage_timeout" ELSE None

Recognized(f) == Recognize(f.stage, FlattenSeq(f.heard))

OnDeadline(f, reason, now) ==
    LET Settled(found) ==
            IF found.status = "complete" THEN Leave(Decided(f, Success(found.value)), now)
                                         ELSE Fail(f, reason, now)
    IN  IF f.stage = "result" THEN Settled(Recognized(f)) ELSE Fail(f, reason, now)

HangupUnconfirmed(f, now) == f.stage = "hanging_up" /\ now - f.hungAt >= CleanupBudget

Expire(f, now) ==
    IF HangupUnconfirmed(f, now) THEN Ended(f)
    ELSE IF f.stage \notin {"ended", "hanging_up"} /\ Expired(f, now) # None
    THEN OnDeadline(f, Expired(f, now), now)
    ELSE f

CommandFailed(f, now) ==
    IF f.issued[f.pending].do = "hangup" THEN Ended(f)
    ELSE Fail(f, "provider_failure", now)

-----------------------------------------------------------------------------
(* Events: _evaluate, _reserve_dtmf, _on_transcript, handle.               *)
SendDigits(f, digits, now, at) ==
    [Reserve(f, [do |-> "send_dtmf", stage |-> f.stage, digits |-> digits, at |-> at])
        EXCEPT !.last = None, !.consumed = at, !.stage = NextStage[@], !.since = now]

Evaluate(f, now, at) ==
    LET Act(found) ==
            CASE found.status = "pending"  -> f
              [] found.status = "invalid"  -> Fail(f, found.reason, now)
              [] found.status = "complete" -> IF f.stage = "result" THEN f
                                              ELSE SendDigits(f, found.value, now, at)
    IN  Act(Recognized(f))

Answered(f, now) ==
    LET g == [f EXCEPT !.stage = "welcome", !.since = now]
    IN  IF f.stage # "dialing" THEN f
        ELSE IF f.heard = <<>> THEN g ELSE Evaluate(g, now, f.last)

Consumed_Never(f, at) == FALSE

Consumed(f, at) == f.consumed # None /\ at < f.consumed

Transcribed(f, e, now) ==
    IF f.last # None /\ e.at < f.last THEN Fail(f, "transcript_order", now)
    ELSE IF Consumed(f, e.at) THEN f
    ELSE IF Len(f.heard) >= MaxSegments THEN Fail(f, "buffer_overflow", now)
    ELSE LET g == [f EXCEPT !.heard = Append(@, e.text), !.last = e.at]
         IN  IF f.stage = "dialing" THEN g ELSE Evaluate(g, now, e.at)

RemoteHangup(f, now) ==
    IF f.stage = "result"
    THEN [f EXCEPT !.remoteHungAt = IF @ = None THEN now ELSE @, !.pending = None]
    ELSE Ended(Decided(f, ErrorResult("early_hangup", f.stage)))

Admit(f, e) == e.id \notin f.seen

Handle(f, e, now) ==
    IF f.stage = "ended" \/ (f.stage = "hanging_up" /\ e.kind # "hangup") THEN f
    ELSE IF f.stage # "hanging_up" /\ Expired(f, now) # None
    THEN OnDeadline(f, Expired(f, now), now)
    ELSE IF ~Admit(f, e) THEN f
    ELSE IF Cardinality(f.seen) >= MaxEventIds THEN Fail(f, "event_overflow", now)
    ELSE LET g == [f EXCEPT !.seen = @ \cup {e.id}]
         IN  CASE e.kind = "answered"   -> Answered(g, now)
               [] e.kind = "transcript" -> Transcribed(g, e, now)
               [] e.kind = "hangup"     -> RemoteHangup(g, now)
               [] OTHER                 -> g

(* The tones it has keyed, by their place among its commands.              *)
Tones(f) == {i \in DOMAIN f.issued : f.issued[i].do = "send_dtmf"}
=============================================================================

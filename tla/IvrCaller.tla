------------------------------ MODULE IvrCaller ------------------------------
(***************************************************************************)
(* One run of the automated caller: Caller of spikes/ivr/client.py with    *)
(* the flow it owns, the watchdog of webhooks.py, the two ways to run it   *)
(* (caller.py and cloud_runner.py) and the commands of telnyx_commands.py. *)
(*                                                                         *)
(* Every region under the caller's lock is one step, since none awaits.    *)
(* The time is that since start().  A second passes only when the watchdog *)
(* and the loop of close(), which sleep at most a second, have run.        *)
(***************************************************************************)
EXTENDS IvrFlow

CONSTANTS
    Calls,            \* identities a dial response or a callback can name
    MaxBuffer,        \* _MAX_BUFFER_EVENTS
    MaxClock          \* bound: the clock stops here

ASSUME IvrCallerAssumption ==
    /\ MaxBuffer \in Nat
    /\ MaxClock >= CallTimeout + 3 * CleanupBudget

VARIABLES
    caller,           \* the Caller object
    flow,             \* its ClientFlow, None until an identity is bound
    printed,          \* the record the operator is told, None until then
    clock,
    due,              \* the watchdog has still to run in this second
    watching          \* the watchdog task exists

callerVars == <<caller, flow, printed, clock, due, watching>>

CallerInit ==
    /\ caller = [phase |-> "idle", dial |-> "none", bound |-> None, uncertain |-> FALSE,
                 excuse |-> None, cleanupAt |-> None, buffer |-> <<>>, seen |-> {},
                 closing |-> None, report |-> None]
    /\ flow = None
    /\ printed = None
    /\ clock = 0
    /\ due = FALSE
    /\ watching = TRUE

Running == caller.phase = "running"

-----------------------------------------------------------------------------
(* _finish and _finalize: the report is taken, what is under way canceled, *)
(* and everything that named the call forgotten.                           *)
Canceled(dial) == IF dial = "asked" THEN "canceled" ELSE dial

Finishing(c, result) ==
    [c EXCEPT !.phase = "finishing", !.report = result, !.dial = Canceled(@),
              !.buffer = <<>>, !.seen = {}]

Finish(c, reason) ==
    /\ caller' = Finishing(c, ErrorResult(reason, "dialing"))
    /\ UNCHANGED flow

Forgotten(f) == [f EXCEPT !.seen = {}, !.heard = <<>>, !.last = None, !.consumed = None]

(* The caller goes on with flow f, and finalizes an end.                   *)
GoOn(c, f) ==
    IF f.stage = "ended"
    THEN caller' = Finishing(c, f.result) /\ flow' = Forgotten(f)
    ELSE caller' = c /\ flow' = f

(* _bind and _replay: early events of this call, in a first pass over the  *)
(* buffer the hangups and in a second the rest.                            *)
Replayed(c, call) ==
    LET n == Len(c.buffer)
        Due(e, i) == e.call = call /\ (i <= n <=> e.kind = "hangup")
        Replay(f, e, i) == IF Due(e, i) THEN Handle(f, e, clock) ELSE f
        after[i \in 0..(2 * n)] ==
            IF i = 0 THEN NewFlow(clock)
            ELSE Replay(after[i - 1], c.buffer[IF i <= n THEN i ELSE i - n], i)
    IN  after[2 * n]

Bind(c, call) ==
    LET excuse == IF c.excuse = None THEN "dial_uncertain" ELSE c.excuse
        Bound(f) == GoOn([c EXCEPT !.bound = call, !.buffer = <<>>],
                         IF c.uncertain THEN Stop(f, excuse, clock) ELSE f)
    IN  Bound(Replayed(c, call))

-----------------------------------------------------------------------------
(* Before an identity is known: the run is held open for a late one.       *)
Uncertain(c, reason) ==
    [c EXCEPT !.excuse = IF @ = None THEN reason ELSE @,
              !.uncertain = TRUE,
              !.cleanupAt = IF @ = None THEN clock + CleanupBudget ELSE @]

Waiting(c, reason) == IF c.uncertain THEN "dial_uncertain" ELSE reason

CleanupExpired(c) == c.cleanupAt # None /\ clock >= c.cleanupAt

Overdue(c) == c.cleanupAt = None /\ clock >= StageTimeout

UnboundExpires(c) ==
    \/ /\ CleanupExpired(c)
       /\ Finish(c, IF c.excuse = None THEN Waiting(c, "overall_timeout") ELSE c.excuse)
    \/ /\ Overdue(c)
       /\ caller' = Uncertain(c, Waiting(c, IF clock >= CallTimeout THEN "overall_timeout"
                                                                   ELSE "stage_timeout"))
       /\ UNCHANGED flow

(* start(), once: by the command line, or by a control request that finds  *)
(* the run not started; any other start is refused and changes nothing.    *)
MayStart == caller.phase = "idle"

Start ==
    /\ MayStart
    /\ caller' = [caller EXCEPT !.phase = "running", !.dial = "asked"]
    /\ UNCHANGED <<flow, printed, clock, due, watching>>

(* _run_dial: an identity, or a reason there is none.                      *)
DialReply(reply) ==
    /\ caller.dial = "asked"
    /\ LET c == [caller EXCEPT !.dial = "settled"]
       IN  \/ /\ reply \in Calls /\ flow = None
              /\ Bind(c, reply)
           \/ /\ reply \in Calls /\ flow # None
              /\ GoOn(c, IF reply = c.bound THEN flow
                         ELSE Stop(flow, "identity_conflict", clock))
           \/ /\ reply \notin Calls /\ flow # None
              /\ caller' = c /\ UNCHANGED flow
           \/ /\ reply = "rejected" /\ flow = None
              /\ Finish(c, "dial_rejected")
           \/ /\ reply = "internal_error" /\ flow = None
              /\ caller' = Uncertain(c, "internal_error") /\ UNCHANGED flow
           \/ /\ reply = "uncertain" /\ flow = None
              /\ caller' = [Uncertain(c, None) EXCEPT !.excuse = c.excuse]
              /\ UNCHANGED flow
    /\ UNCHANGED <<printed, clock, due, watching>>

(* _accept_preface                                                         *)
Preface(c, e, ours) ==
    /\ e.id \notin c.seen
    /\ \/ ours /\ Bind([c EXCEPT !.seen = IF Cardinality(@) < MaxEventIds
                                          THEN @ \cup {e.id} ELSE @], e.call)
       \/ /\ ~ours
          /\ caller' = IF Len(c.buffer) >= MaxBuffer
                       THEN Uncertain(c, "buffer_overflow")
                       ELSE IF Cardinality(c.seen) >= MaxEventIds
                       THEN Uncertain(c, "event_overflow")
                       ELSE [c EXCEPT !.seen = @ \cup {e.id}, !.buffer = Append(@, e)]
          /\ UNCHANGED flow

(* accept(): `ours' is a call.initiated that carries this run's token.     *)
Accept(e, ours) ==
    /\ Running
    /\ \/ flow = None /\ UnboundExpires(caller)
       \/ /\ flow = None /\ ~CleanupExpired(caller) /\ ~Overdue(caller)
          /\ Preface(caller, e, ours)
       \/ /\ flow # None /\ e.call = caller.bound
          /\ GoOn(caller, Handle(flow, e, clock))
    /\ UNCHANGED <<printed, clock, due, watching>>

-----------------------------------------------------------------------------
(* _run_command over send_command: neither of two tries is known to have   *)
(* been taken.  It matters for the pending command only; one that succeeds *)
(* changes nothing.                                                        *)
CommandFails ==
    /\ Running /\ flow # None /\ flow.pending # None
    /\ GoOn(caller, CommandFailed(flow, clock))
    /\ UNCHANGED <<printed, clock, due, watching>>

Second ==
    /\ caller.phase # "idle"
    /\ clock < MaxClock
    /\ ~due
    /\ (Running /\ caller.closing # None) => clock < caller.closing
    /\ clock' = clock + 1
    /\ due' = watching
    /\ UNCHANGED <<caller, flow, printed, watching>>

(* tick()                                                                  *)
Watchdog ==
    /\ due
    /\ due' = FALSE
    /\ IF ~Running THEN UNCHANGED <<caller, flow>>
       ELSE IF flow # None THEN GoOn(caller, Expire(flow, clock))
       ELSE \/ UnboundExpires(caller)
            \/ /\ ~CleanupExpired(caller) /\ ~Overdue(caller)
               /\ UNCHANGED <<caller, flow>>
    /\ UNCHANGED <<printed, clock, watching>>

(* _join                                                                   *)
Join ==
    /\ caller.phase = "finishing"
    /\ caller' = [caller EXCEPT !.phase = "done"]
    /\ UNCHANGED <<flow, printed, clock, due, watching>>

-----------------------------------------------------------------------------
(* close(), which the command line awaits before it ends and the server's  *)
(* shutdown after it has canceled the watchdog.                            *)
BeginClose(c) ==
    IF flow # None
    THEN GoOn([c EXCEPT !.closing = clock + CleanupBudget], Stop(flow, "shutdown", clock))
    ELSE /\ caller' = [c EXCEPT !.closing = clock + CleanupBudget,
                                !.dial = Canceled(@), !.uncertain = TRUE]
         /\ UNCHANGED flow

EndClose ==
    /\ Running
    /\ caller.closing # None
    /\ clock >= caller.closing
    /\ IF flow = None THEN Finish(caller, "hangup_unconfirmed")
       ELSE GoOn(caller, Ended(Decided(flow, ErrorResult("shutdown", flow.stage))))
    /\ UNCHANGED <<printed, clock, due, watching>>

(* The server is told to stop: webhooks.lifespan.                          *)
Shutdown ==
    /\ watching
    /\ Running /\ caller.closing = None
    /\ watching' = FALSE
    /\ due' = FALSE
    /\ BeginClose(caller)
    /\ UNCHANGED <<printed, clock>>

(* run_call is canceled: what it will print is settled, then it closes.    *)
Interrupt ==
    /\ Running /\ printed = None
    /\ printed' = IF flow # None /\ flow.result # None THEN flow.result
                  ELSE ErrorResult("interrupted", IF flow = None THEN "dialing" ELSE flow.stage)
    /\ UNCHANGED <<caller, flow, clock, due, watching>>

Cleanup ==
    /\ Running /\ printed # None /\ caller.closing = None
    /\ BeginClose(caller)
    /\ UNCHANGED <<printed, clock, due, watching>>

(* The result is printed by run_call, or asked for over the control socket.*)
Report ==
    /\ caller.phase = "done"
    /\ printed = None
    /\ printed' = caller.report
    /\ UNCHANGED <<caller, flow, clock, due, watching>>

Replies == Calls \cup {"rejected", "internal_error", "uncertain"}

CallerStep ==
    \/ Start
    \/ \E reply \in Replies : DialReply(reply)
    \/ CommandFails \/ Second \/ Watchdog \/ Join
    \/ EndClose \/ Shutdown \/ Interrupt \/ Cleanup \/ Report
=============================================================================

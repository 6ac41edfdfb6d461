----------------------------- MODULE IvrFixture -----------------------------
(***************************************************************************)
(* The test IVR: Flow and Fixture of spikes/ivr/fixture.py.  It answers    *)
(* one call at a time, leads it through five prompts to an announcement,   *)
(* and turns every other call away.                                        *)
(*                                                                         *)
(* A command is [n, do, says]; n stands for its client_state, which the    *)
(* callbacks about it carry.  An event is [id, call, kind, token, status,  *)
(* digits].  Left out: the outcome, which is only logged, and the limit of *)
(* 1000 calls per process.                                                 *)
(***************************************************************************)
EXTENDS IvrSpeech

CONSTANTS
    Scenarios,                          \* settings the fixture may be started with
    Amount, Challenge,
    MaxAttempts,
    AnswerTime, GatherTime, SpeechTime, \* deadlines of the commands
    HangupTime, TalkTime,               \* of a hangup, and of a whole call
    MaxFixtureIds                       \* 4096 in the code

ASSUME IvrFixtureAssumption ==
    /\ Scenarios \subseteq {"normal", "early_hangup", "silent_stage", "rejected_id",
                      "unsupported_result"}
    /\ Amount \in Nat /\ Amount <= 999999 /\ Challenge \in Seq(0..9) /\ Len(Challenge) = CodeLength
    /\ {MaxAttempts, AnswerTime, GatherTime, SpeechTime, HangupTime, TalkTime,
        MaxFixtureIds} \subseteq Nat \ {0}

VARIABLE fixture

NextPrompt == [welcome |-> "challenge", challenge |-> "menu", menu |-> "identifier",
               identifier |-> "confirmation", confirmation |-> "result"]

-----------------------------------------------------------------------------
(* Flow: _reserve, _gather, hangup, end, fail.                             *)
Ask(g, stage, do, says, until) ==
    [g EXCEPT !.stage = stage, !.pending = [n |-> g.commands + 1, do |-> do, says |-> says],
              !.commands = @ + 1, !.deadline = until]

NewCall(call, now) ==
    Ask([call |-> call, stage |-> "new", pending |-> None, commands |-> 0, deadline |-> 0,
         until |-> now + TalkTime, attempt |-> 1, answered |-> FALSE],
        "answering", "answer", <<>>, now + AnswerTime)

Gather(g, stage, now) ==
    Ask([g EXCEPT !.attempt = 1], stage, "gather", Prompt(stage, Challenge), now + GatherTime)

GatherAgain(g, now) ==
    Ask([g EXCEPT !.attempt = @ + 1], g.stage, "gather",
        <<"not accepted">> \o Prompt(g.stage, Challenge), now + GatherTime)

Release(g, now) ==
    IF g.stage \in {"hanging_up", "ended"} THEN g
    ELSE Ask(g, "hanging_up", "hangup", <<>>, now + HangupTime)

Over(g) == [g EXCEPT !.stage = "ended", !.pending = None]

Refuse(g, says, now) ==
    IF g.stage \in {"ended", "hanging_up"} THEN g
    ELSE IF ~g.answered \/ g.stage = "failure" THEN Release(g, now)
    ELSE Ask(g, "failure", "speak", says, now + SpeechTime)

Unavailable == <<"service unavailable", ".">>
Unverified  == <<"could not verify", ".">>
Business    == <<"not supported", ".">>

(* expire                                                                  *)
LetsGo_Never(g, now) == FALSE

LetsGo(g, now) == now >= g.deadline

Lapse(g, now) ==
    IF g.stage = "hanging_up" THEN IF LetsGo(g, now) THEN Over(g) ELSE g
    ELSE IF now >= g.until \/ (now >= g.deadline /\ g.stage \in {"result", "failure"})
    THEN Release(g, now)
    ELSE IF now >= g.deadline THEN Refuse(g, Unavailable, now)
    ELSE g

-----------------------------------------------------------------------------
(* handle()                                                                *)
Wanted(stage) ==
    CASE stage = "challenge"  -> Challenge
      [] stage = "identifier" -> SyntheticId
      [] OTHER                -> <<1>>

Announcement ==
    IF fixture.scenario = "unsupported_result" THEN <<"value is", "unavailable", ".">>
                                       ELSE ResultPrompt(Amount)

(* The entry was right: the next prompt, or what the scenario does instead.*)
Advance(g, now) ==
    LET next == NextPrompt[g.stage]
    IN  CASE next = "challenge" /\ fixture.scenario = "early_hangup" -> Release(g, now)
          [] next = "challenge" /\ fixture.scenario = "silent_stage" ->
                 [g EXCEPT !.stage = "silent", !.pending = None, !.deadline = g.until]
          [] next = "confirmation" /\ fixture.scenario = "rejected_id" ->
                 Refuse(g, Unverified, now)
          [] next = "result" ->
                 Ask([g EXCEPT !.attempt = 1], "result", "speak", Announcement, now + SpeechTime)
          [] OTHER -> Gather(g, next, now)

Right_OrSilence(g, e) == e.status # "invalid" /\ e.digits \in {Wanted(g.stage), <<>>}

Right(g, e) == e.status = "valid" /\ e.digits = Wanted(g.stage)

Entered(g, e, now) ==
    IF e.status \notin {"valid", "invalid", "timeout"}
    THEN Refuse(g, Unavailable, now)
    ELSE IF g.stage = "menu" /\ e.status = "valid" /\ e.digits = <<2>>
    THEN Refuse(g, Business, now)
    ELSE IF Right(g, e) THEN Advance(g, now)
    ELSE IF g.attempt < MaxAttempts THEN GatherAgain(g, now)
    ELSE Refuse(g, Unverified, now)

(* A callback about the command that is pending.                           *)
Concerns(g, e) == e.token = g.pending.n

Respond(g, e, now) ==
    IF g.stage = "ended" THEN g
    ELSE IF e.kind = "hangup" THEN Over(g)
    ELSE IF g.pending = None THEN Lapse(g, now)
    ELSE IF ~Concerns(g, e) THEN g
    ELSE IF e.kind \in {"gather.ended", "speak.ended"} /\ e.status = "call_hangup"
    THEN Over(g)
    ELSE IF Lapse(g, now) # g THEN Lapse(g, now)
    ELSE IF g.stage = "answering" /\ e.kind = "answered"
    THEN Gather([g EXCEPT !.answered = TRUE], "welcome", now)
    ELSE IF g.pending.do = "gather" /\ e.kind = "gather.ended" THEN Entered(g, e, now)
    ELSE IF g.stage \in {"result", "failure"} /\ e.kind = "speak.ended"
    THEN Release(g, now)
    ELSE g

-----------------------------------------------------------------------------
(* Fixture.  `busy' are the calls being turned away, with the time until   *)
(* which their hangup is awaited.                                          *)
FixtureInit ==
    fixture \in [active : {None}, seen : {{}}, tombstones : {{}}, busy : {{}},
                 phase : {"open"}, closeBy : {None}, due : {FALSE}, scenario : Scenarios]

(* _sync                                                                   *)
GoesOn(fx, g) ==
    IF g.stage = "ended"
    THEN [fx EXCEPT !.active = None, !.tombstones = @ \cup {g.call}, !.seen = {}]
    ELSE [fx EXCEPT !.active = g]

BusyWith(fx) == {b.call : b \in fx.busy}

HungUp(fx, call) ==
    IF fx.active # None /\ fx.active.call = call
    THEN GoesOn(fx, Over(fx.active))
    ELSE IF call \in BusyWith(fx) THEN [fx EXCEPT !.busy = {b \in @ : b.call # call}]
    ELSE [fx EXCEPT !.tombstones = @ \cup {call}]

Buried_Never(fx, call) == FALSE

Buried(fx, call) == call \in fx.tombstones

TurnAway(fx, call, now) ==
    [fx EXCEPT !.busy = @ \cup {[call |-> call, until |-> now + HangupTime]},
               !.tombstones = @ \cup {call}]

Initiated(fx, e, now) ==
    IF fx.active = None
    THEN [fx EXCEPT !.active = NewCall(e.call, now), !.seen = {e.id}]
    ELSE IF fx.active.call = e.call THEN fx
    ELSE TurnAway(fx, e.call, now)

Heeds(fx, e, now) ==
    LET full == Cardinality(fx.seen) >= MaxFixtureIds
    IN  IF fx.active = None \/ fx.active.call # e.call \/ e.id \in fx.seen THEN fx
        ELSE IF full /\ fx.active.stage \notin {"failure", "hanging_up"}
        THEN GoesOn(fx, Refuse(fx.active, Unavailable, now))
        ELSE GoesOn([fx EXCEPT !.seen = IF full THEN @ ELSE @ \cup {e.id}],
                    Respond(fx.active, e, now))

(* accept()                                                                *)
FixtureAccept(e, now) ==
    /\ fixture.phase = "open"
    /\ fixture' = IF e.kind = "hangup" THEN HungUp(fixture, e.call)
                  ELSE IF Buried(fixture, e.call) THEN fixture
                  ELSE IF e.kind = "initiated" THEN Initiated(fixture, e, now)
                  ELSE Heeds(fixture, e, now)

(* _run: the send of the pending command failed.                           *)
FixtureSendFails(now) ==
    /\ fixture.active # None /\ fixture.active.pending # None
    /\ fixture' = GoesOn(fixture, Refuse(fixture.active, Unavailable, now))

(* tick()                                                                  *)
FixtureTick(now) ==
    /\ fixture.due
    /\ LET fx == [fixture EXCEPT !.busy = {b \in @ : now < b.until}, !.due = FALSE]
       IN  fixture' = IF fx.active = None THEN fx ELSE GoesOn(fx, Lapse(fx.active, now))

(* close(): a last hangup, and the end once it was sent or 15 s are over.  *)
FixtureBeginClose(now) ==
    /\ fixture.phase = "open"
    /\ LET fx == [fixture EXCEPT !.phase = "closing", !.closeBy = now + HangupTime,
                                    !.due = FALSE]
       IN  fixture' = IF fx.active = None THEN fx ELSE GoesOn(fx, Release(fx.active, now))

FixtureEndClose ==
    /\ fixture.phase = "closing"
    /\ LET fx == [fixture EXCEPT !.phase = "closed", !.busy = {}]
       IN  fixture' = IF fx.active = None THEN fx
                      ELSE GoesOn(fx, Over(fx.active))
=============================================================================

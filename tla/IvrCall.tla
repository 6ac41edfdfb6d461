------------------------------- MODULE IvrCall -------------------------------
(***************************************************************************)
(* The automated caller and the test IVR on the two ends of a call, hosted *)
(* by one process (caller.py --app public), with the telephone network     *)
(* between them.  The network takes commands, or does not; speaks prompts, *)
(* transcribes them in one final or two, and tells each end what occurred. *)
(* What it told stays in `toCaller' and `toFixture': it may be delivered   *)
(* late, out of order, again, or never.                                    *)
(***************************************************************************)
EXTENDS IvrCaller, IvrFixture

CONSTANTS
    OurCall,          \* the call the run asks for
    Cuts,             \* places at which the transcription of an announcement may be cut
    MaxTrouble        \* bound: failures and strangers' calls

(* A call as the test IVR leads it, and the command it waits for.          *)
Orders == [n : Nat, do : {"answer", "gather", "speak", "hangup"}, says : Seq(Tokens)]

Conversations ==
    [call : Calls, pending : Maybe(Orders), commands : Nat, attempt : Int,
     stage : DOMAIN NextPrompt \cup {"answering", "result", "silent", "failure", "hanging_up",
                                     "ended"},
     deadline : Int, until : Int, answered : BOOLEAN]

ASSUME IvrCallAssumption ==
    /\ OurCall \in Calls /\ Cuts \subseteq Nat
    /\ None \notin Orders \cup Conversations

VARIABLES
    line,             \* of every call, what the network knows
    toCaller, toFixture,
    told,             \* events so far; numbers them in order of occurrence
    keyed,            \* place in flow.issued of the caller's last command that arrived
    outage,           \* the network is not heard of any more
    trouble

networkVars == <<line, toCaller, toFixture, told, keyed, outage, trouble>>
vars == <<callerVars, fixture, networkVars>>

Init ==
    /\ CallerInit
    /\ FixtureInit
    /\ line = [c \in Calls |-> [state |-> "idle", took |-> 0, playing |-> None, since |-> 0,
                                rest |-> <<>>]]
    /\ toCaller = {} /\ toFixture = {}
    /\ told = 0 /\ keyed = 0 /\ outage = FALSE /\ trouble = 0

Trouble == trouble < MaxTrouble /\ trouble' = trouble + 1

-----------------------------------------------------------------------------
(* The network.                                                            *)
Tells(c, kind, text, status, digits) ==
    LET forCaller  == [id |-> told + 1, call |-> c, kind |-> kind, at |-> told + 1, text |-> text]
        forFixture == [id |-> told + 1, call |-> c, kind |-> kind, token |-> line'[c].took,
                       status |-> status, digits |-> digits]
    IN  /\ told' = told + 1
        /\ toCaller' = IF c = OurCall /\ kind \notin {"gather.ended", "speak.ended"}
                       THEN toCaller \cup {forCaller} ELSE toCaller
        /\ toFixture' = IF kind = "transcript" THEN toFixture ELSE toFixture \cup {forFixture}

Occurs(c, kind) == Tells(c, kind, <<>>, "", <<>>)

Silent == UNCHANGED <<toCaller, toFixture, told>>

(* The dial was taken; or somebody else calls the test IVR.                *)
Rings(c) ==
    /\ line[c].state = "idle"
    /\ line' = [line EXCEPT ![c].state = "ringing"]
    /\ Occurs(c, "initiated")
    /\ IF c = OurCall THEN caller.dial = "asked" /\ UNCHANGED trouble
       ELSE caller.phase # "idle" /\ clock = 0 /\ Trouble
    /\ UNCHANGED keyed

Drops(c) ==
    /\ line[c].state \in {"ringing", "up"}
    /\ line' = [line EXCEPT ![c].state = "down", ![c].playing = None, ![c].rest = <<>>]
    /\ Occurs(c, "hangup")

(* A command of the fixture arrives.  It is transcribed in one final, an   *)
(* announcement perhaps in two, the first with a full stop or without.     *)
CutAt(says, cut) ==
    {<<SubSeq(says, 1, cut) \o stop, SubSeq(says, cut + 1, Len(says))>> : stop \in {<<>>, <<".">>}}

Finals(cmd) ==
    {<<cmd.says>>} \cup
    IF cmd.do # "speak" THEN {}
    ELSE UNION {CutAt(cmd.says, cut) : cut \in {i \in Cuts : i < Len(cmd.says)}}

Plays(c, cmd) ==
    /\ line[c].state = "up"
    /\ \E finals \in Finals(cmd) :
          line' = [line EXCEPT ![c].took = cmd.n, ![c].since = clock, ![c].rest = finals,
                               ![c].playing = IF cmd.do = "gather" THEN fixture.active.stage
                                                                   ELSE "speak"]
    /\ Silent

Answers(c, cmd) ==
    /\ line[c].state = "ringing"
    /\ line' = [line EXCEPT ![c].state = "up", ![c].took = cmd.n]
    /\ Occurs(c, "answered")

TakesFromFixture(c) ==
    /\ \/ /\ fixture.active # None /\ fixture.active.call = c /\ fixture.active.pending # None
          /\ LET cmd == fixture.active.pending
             IN  /\ line[c].took < cmd.n
                 /\ CASE cmd.do = "answer" -> Answers(c, cmd)
                      [] cmd.do = "hangup" -> Drops(c)
                      [] OTHER             -> Plays(c, cmd)
       \/ c \in BusyWith(fixture) /\ Drops(c)
    /\ UNCHANGED <<keyed, trouble>>

Transcribes ==
    /\ line[OurCall].rest # <<>>
    /\ line' = [line EXCEPT ![OurCall].rest = Tail(@)]
    /\ Tells(OurCall, "transcript", Head(line[OurCall].rest), "", <<>>)
    /\ UNCHANGED <<keyed, trouble>>

(* What is played ends: digits cut it short, nobody keyed any in time, or  *)
(* it was an announcement.                                                 *)
Ends(c, kind, status, digits) ==
    /\ line' = [line EXCEPT ![c].playing = None, ![c].rest = <<>>]
    /\ Tells(c, kind, <<>>, status, digits)

PlayedOut(c) ==
    /\ line[c].playing # None
    /\ c = OurCall => line[c].rest = <<>>
    /\ \/ line[c].playing = "speak" /\ Ends(c, "speak.ended", "completed", <<>>)
       \/ /\ line[c].playing # "speak" /\ clock > line[c].since
          /\ Ends(c, "gather.ended", "timeout", <<>>)
    /\ UNCHANGED <<keyed, trouble>>

(* A command of the caller arrives; tones into an announcement are unheard.*)
TakesFromCaller ==
    /\ Running /\ flow # None /\ caller.bound = OurCall
    /\ \E n \in (keyed + 1)..Len(flow.issued) :
          /\ keyed' = n
          /\ LET cmd  == flow.issued[n]
                 open == line[OurCall].playing \notin {None, "speak"}
             IN  \/ cmd.do = "hangup" /\ Drops(OurCall)
                 \/ /\ cmd.do = "send_dtmf" /\ open
                    /\ Ends(OurCall, "gather.ended", "valid", cmd.digits)
                 \/ /\ IF cmd.do = "hangup" THEN line[OurCall].state = "down" ELSE ~open
                    /\ UNCHANGED line /\ Silent
    /\ UNCHANGED trouble

Network ==
    /\ ~outage
    /\ \/ \E c \in Calls : Rings(c) \/ TakesFromFixture(c) \/ PlayedOut(c)
       \/ Transcribes \/ TakesFromCaller
    /\ UNCHANGED <<callerVars, fixture, outage>>

-----------------------------------------------------------------------------
(* The two ends.                                                           *)
(* In order of occurrence, unless it is trouble that one overtakes older   *)
(* ones, stays to be delivered again, or is lost.                          *)
Oldest(e, pool) == \A f \in pool : e.id <= f.id

Leaves(e, pool, rest) ==
    /\ ~outage
    /\ \/ Oldest(e, pool) /\ rest = pool \ {e} /\ UNCHANGED trouble
       \/ Trouble

Ignored(e) ==
    \/ ~Running
    \/ flow = None /\ ~CleanupExpired(caller) /\ ~Overdue(caller) /\ e.id \in caller.seen

(* _correlates: a call.initiated that names this run's token.              *)
Correlates(e) == e.kind = "initiated"

CallerHears ==
    /\ \E e \in toCaller :
          /\ toCaller' \in {toCaller \ {e}, toCaller} /\ Leaves(e, toCaller, toCaller')
          /\ IF Ignored(e) THEN UNCHANGED callerVars ELSE Accept(e, Correlates(e))
    /\ UNCHANGED <<fixture, line, toFixture, told, keyed, outage>>

FixtureHears ==
    /\ \E e \in toFixture :
          /\ toFixture' \in {toFixture \ {e}, toFixture} /\ Leaves(e, toFixture, toFixture')
          /\ IF fixture.phase = "open" THEN FixtureAccept(e, clock) ELSE UNCHANGED fixture
    /\ UNCHANGED <<callerVars, line, toCaller, told, keyed, outage>>

Loses ==
    /\ \/ \E e \in toCaller : toCaller' = toCaller \ {e} /\ UNCHANGED toFixture
       \/ \E e \in toFixture : toFixture' = toFixture \ {e} /\ UNCHANGED toCaller
    /\ Trouble
    /\ UNCHANGED <<callerVars, fixture, line, told, keyed, outage>>

CallerActs ==
    /\ Start \/ Watchdog \/ Join \/ EndClose \/ Cleanup \/ Report
       \/ (line[OurCall].state # "idle" /\ DialReply(OurCall))
    /\ UNCHANGED <<fixture, networkVars>>

CallerTrouble ==
    /\ CommandFails \/ Interrupt \/ DialReply("uncertain")
    /\ Trouble
    /\ UNCHANGED <<fixture, line, toCaller, toFixture, told, keyed, outage>>

FixtureTrouble ==
    /\ FixtureSendFails(clock)
    /\ Trouble
    /\ UNCHANGED <<callerVars, line, toCaller, toFixture, told, keyed, outage>>

FixtureWatchdog == FixtureTick(clock) /\ UNCHANGED <<callerVars, networkVars>>

CallerToClose == Running /\ caller.closing = None

Breaks ==
    /\ outage' = TRUE
    /\ Trouble
    /\ UNCHANGED <<callerVars, fixture, line, toCaller, toFixture, told, keyed>>

(* A second is long: it is trouble if the network has something to do.     *)
Untaken ==
    \/ /\ fixture.active # None /\ fixture.active.pending # None
       /\ line[fixture.active.call].state # "down"
       /\ line[fixture.active.call].took < fixture.active.pending.n
    \/ Running /\ flow # None /\ keyed < Len(flow.issued)

Quiet == toCaller = {} /\ toFixture = {} /\ line[OurCall].rest = <<>> /\ ~Untaken

BothThrough == caller.phase = "done" /\ fixture.active = None /\ fixture.busy = {}

OneSecond ==
    /\ ~fixture.due
    /\ fixture.phase = "closing" => clock < fixture.closeBy
    /\ ~(fixture.phase = "closed" /\ CallerToClose)
    /\ Second
    /\ fixture' = [fixture EXCEPT !.due = fixture.phase = "open"]
    /\ IF Quiet \/ outage THEN UNCHANGED trouble ELSE Trouble
    /\ UNCHANGED <<line, toCaller, toFixture, told, keyed, outage>>

(* The process stops: the fixture is closed, and then the caller.          *)
Stops ==
    /\ watching /\ CallerToClose
    /\ watching' = FALSE /\ due' = FALSE
    /\ FixtureBeginClose(clock)
    /\ Trouble
    /\ UNCHANGED <<caller, flow, printed, clock, line, toCaller, toFixture, told, keyed, outage>>

FixtureClosed == FixtureEndClose /\ UNCHANGED <<callerVars, networkVars>>

ThenCallerCloses ==
    /\ fixture.phase = "closed" /\ CallerToClose
    /\ BeginClose(caller)
    /\ UNCHANGED <<printed, clock, due, watching, fixture, networkVars>>

Next ==
    \/ Network \/ CallerHears \/ FixtureHears \/ Loses \/ Breaks
    \/ CallerActs \/ CallerTrouble \/ FixtureTrouble
    \/ FixtureWatchdog \/ OneSecond \/ Stops \/ FixtureClosed \/ ThenCallerCloses

Spec == Init /\ [][Next]_vars

(* The process runs: its tasks go on, time passes and both watchdogs wake. *)
(* The network does what it has to do, or breaks down.                     *)
FairSpec ==
    /\ Spec
    /\ WF_vars(FixtureClosed \/ ThenCallerCloses \/ OneSecond \/ FixtureWatchdog
               \/ ((Start \/ Join \/ EndClose \/ Cleanup \/ Report)
                   /\ UNCHANGED <<fixture, networkVars>>))
    /\ WF_due(due /\ due' = FALSE)
    /\ WF_vars(Network)
    /\ WF_<<toCaller, toFixture>>(
           /\ ~outage
           /\ \/ \E e \in toCaller : toCaller' = toCaller \ {e} /\ UNCHANGED toFixture
              \/ \E e \in toFixture : toFixture' = toFixture \ {e} /\ UNCHANGED toCaller)

-----------------------------------------------------------------------------
(* A success is the amount the test IVR announced, of a call in which it   *)
(* accepted every entry, however the finals were cut, late or reordered.   *)
SuccessIsTrue ==
    (caller.report # None /\ caller.report.status = "success") =>
        fixture.scenario = "normal" /\ caller.report.value = Amount

(* The test IVR is never ahead of the tones the caller keyed, nor the      *)
(* caller ahead of the prompts that were played.                           *)
Place(stage) ==
    CHOOSE i \in 1..6 :
        stage = <<"welcome", "challenge", "menu", "identifier", "confirmation", "result">>[i]

InStep ==
    (flow # None /\ fixture.active # None /\ fixture.active.call = OurCall
     /\ fixture.active.stage \in DOMAIN StageSigns) =>
        Cardinality(Tones(flow)) \in {Place(fixture.active.stage) - 1, Place(fixture.active.stage)}

(* A call that is over, or was turned away, is never taken up again by a   *)
(* late or repeated callback, and one that is let go is remembered so.     *)
Held(fx) == BusyWith(fx) \cup (IF fx.active = None THEN {} ELSE {fx.active.call})

CallsEndOnce ==
    [][/\ \A c \in fixture.tombstones :
             fixture'.active # None /\ fixture'.active.call = c =>
                 fixture.active # None /\ fixture.active.call = c
       /\ Held(fixture) \ Held(fixture') \subseteq fixture'.tombstones]_vars

(* Whatever the network fails to do, both ends let go of every call.       *)
BothEndsLetGo == <>[]BothThrough
=============================================================================

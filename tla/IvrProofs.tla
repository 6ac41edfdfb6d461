------------------------------ MODULE IvrProofs ------------------------------
(***************************************************************************)
(* What is proved of the automated caller before any network, and of the   *)
(* caller and the test IVR on the two ends of a call.                      *)
(***************************************************************************)
EXTENDS IvrAnyNetwork, IvrCall, IvrCallerProofs, FiniteSetTheorems

-----------------------------------------------------------------------------
(* The caller before any network.                                          *)
Kept == Holds(caller, flow) /\ clock \in Nat /\ delivered \in Nat

LEMMA AnyEvent ==
    ASSUME NEW id \in Nat
    PROVE  /\ Event(id, Texts) \subseteq EventType
           /\ Event(id, UNION {Range(Script[s]) : s \in DOMAIN Script}) \subseteq EventType
  <1>1. \A texts \in SUBSET Seq(Tokens) : Event(id, texts) \subseteq EventType
    <2>1. Times \subseteq Int
      BY IvrAnyNetworkAssumption
    <2>2. ASSUME NEW texts \in SUBSET Seq(Tokens), NEW e \in Event(id, texts)
          PROVE  e \in EventType
      BY <2>1, <2>2 DEF Event, EventType, Maybe
    <2>. QED  BY <2>2
  <1>2. UNION {Range(Script[s]) : s \in DOMAIN Script} \in SUBSET Seq(Tokens)
    <2>1. ASSUME NEW s \in DOMAIN Script  PROVE Range(Script[s]) \subseteq Seq(Tokens)
      <3>1. Script[s] \in Seq(Seq(Tokens))
        BY IvrAnyNetworkAssumption
      <3>. QED  BY <3>1 DEF Range
    <2>. QED  BY <2>1
  <1>. QED  BY <1>1, <1>2, IvrAnyNetworkAssumption

(* What a step does to the run and to its record.                          *)
LEMMA Steps ==
    ASSUME Kept, [AnyNext]_anyVars
    PROVE  /\ Holds(caller', flow') /\ clock' \in Nat /\ delivered' \in Nat
           /\ \/ Start
              \/ Onward /\ UNCHANGED printed
              \/ Onward /\ (Interrupt \/ Report)
  <1>. USE DEF Kept
  <1>1. clock \in Int /\ delivered + 1 \in Nat /\ clock + 1 \in Nat
    OBVIOUS
  <1>. DEFINE Goal == /\ Holds(caller', flow') /\ clock' \in Nat /\ delivered' \in Nat
                      /\ \/ Start
                         \/ Onward /\ UNCHANGED printed
                         \/ Onward /\ (Interrupt \/ Report)
  <1>2. ASSUME Onward, UNCHANGED printed, clock' \in {clock, clock + 1},
               delivered' \in {delivered, delivered + 1}
        PROVE  Goal
    BY <1>1, <1>2 DEF Onward
  <1>3. ASSUME CallerStep, UNCHANGED <<delivered, surprises>>  PROVE Goal
    <2>1. CASE Start
      BY <1>3, <2>1, Starts DEF Start
    <2>2. ASSUME NEW reply, DialReply(reply)  PROVE Goal
      <3>1. Onward
        BY <1>1, <2>2, DialReplies
      <3>. QED  BY <1>2, <1>3, <2>2, <3>1 DEF DialReply
    <2>3. CASE CommandFails
      <3>1. Onward
        BY <1>1, <2>3, CommandsFail
      <3>. QED  BY <1>2, <1>3, <2>3, <3>1 DEF CommandFails
    <2>4. CASE Second
      <3>1. Onward
        BY <2>4, RestsOn DEF Second
      <3>. QED  BY <1>2, <1>3, <2>4, <3>1 DEF Second
    <2>5. CASE Watchdog
      <3>1. Onward
        BY <1>1, <2>5, Watches
      <3>. QED  BY <1>2, <1>3, <2>5, <3>1 DEF Watchdog
    <2>6. CASE Join
      <3>1. Onward
        BY <2>6, Joins
      <3>. QED  BY <1>2, <1>3, <2>6, <3>1 DEF Join
    <2>7. CASE EndClose
      <3>1. Onward
        BY <2>7, ClosesAtLast
      <3>. QED  BY <1>2, <1>3, <2>7, <3>1 DEF EndClose
    <2>8. CASE Shutdown
      <3>1. Onward
        BY <1>1, <2>8, BeginsToClose DEF Shutdown, Running
      <3>. QED  BY <1>2, <1>3, <2>8, <3>1 DEF Shutdown
    <2>9. CASE Cleanup
      <3>1. Onward
        BY <1>1, <2>9, BeginsToClose DEF Cleanup, Running
      <3>. QED  BY <1>2, <1>3, <2>9, <3>1 DEF Cleanup
    <2>10. CASE Interrupt \/ Report
      <3>1. Onward
        BY <2>10, RestsOn DEF Interrupt, Report
      <3>. QED  BY <1>3, <2>10, <3>1 DEF Interrupt, Report, Onward
    <2>. HIDE DEF Goal
    <2>. QED  BY <1>3, <2>1, <2>2, <2>3, <2>4, <2>5, <2>6, <2>7, <2>8, <2>9, <2>10
              DEF CallerStep
  <1>4. ASSUME NEW e \in EventType, \E ours \in BOOLEAN : Accept(e, ours),
               delivered' \in {delivered, delivered + 1}
        PROVE  Goal
    <2>1. PICK ours \in BOOLEAN : Accept(e, ours)
      BY <1>4
    <2>2. Onward
      BY <1>1, <2>1, Accepts
    <2>. QED  BY <1>2, <1>4, <2>1, <2>2 DEF Accept
  <1>5. ASSUME Expected  PROVE Goal
    <2>1. PICK e \in Event(delivered + 1, UNION {Range(Script[s]) : s \in DOMAIN Script}) :
               Accept(e, FALSE)
      BY <1>5 DEF Expected
    <2>2. e \in EventType
      BY <1>1, <2>1, AnyEvent
    <2>3. delivered' \in {delivered, delivered + 1}
      BY <1>5 DEF Expected
    <2>4. \E ours \in BOOLEAN : Accept(e, ours)
      BY <2>1, Zenon
    <2>. HIDE DEF Goal
    <2>. QED  BY <1>4, <2>2, <2>3, <2>4, Zenon
  <1>6. ASSUME Surprising  PROVE Goal
    <2>1. PICK e \in Event(delivered + 1, Texts), ours \in BOOLEAN : Accept(e, ours)
      BY <1>6 DEF Surprising
    <2>2. e \in EventType
      BY <1>1, <2>1, AnyEvent
    <2>3. delivered' \in {delivered, delivered + 1}
      BY <1>6 DEF Surprising
    <2>4. \E b \in BOOLEAN : Accept(e, b)
      BY <2>1, Zenon
    <2>. HIDE DEF Goal
    <2>. QED  BY <1>4, <2>2, <2>3, <2>4, Zenon
  <1>7. ASSUME Repeated  PROVE Goal
    <2>1. PICK id \in flow.seen : \E e \in Event(id, Texts) : Accept(e, FALSE)
      BY <1>7 DEF Repeated
    <2>2. id \in Nat
      BY <1>7, <2>1 DEF Repeated, Holds, Flows, FlowType
    <2>3. PICK e \in Event(id, Texts) : Accept(e, FALSE)
      BY <2>1
    <2>4. e \in EventType
      BY <2>2, <2>3, AnyEvent
    <2>5. delivered' \in {delivered, delivered + 1}
      BY <1>7 DEF Repeated
    <2>6. \E ours \in BOOLEAN : Accept(e, ours)
      BY <2>3, Zenon
    <2>. HIDE DEF Goal
    <2>. QED  BY <1>4, <2>4, <2>5, <2>6, Zenon
  <1>8. ASSUME UNCHANGED anyVars  PROVE Goal
    <2>1. Onward
      BY <1>8, RestsOn DEF anyVars, callerVars
    <2>. QED  BY <1>2, <1>8, <2>1 DEF anyVars, callerVars
  <1>. QED
    <2>. HIDE DEF Goal
    <2>1. Goal
      BY <1>3, <1>5, <1>6, <1>7, <1>8, Zenon DEF AnyNext
    <2>. QED  BY <2>1 DEF Goal

(* Throughout a run: the caller and the flow it owns agree.  It is the     *)
(* invariant the theorems below rest on.                                   *)
THEOREM CallerOwnsFlow == AnySpec => []Kept
  <1>1. AnyInit => Kept
    BY CallerBegins DEF AnyInit, CallerInit, Kept
  <1>2. Kept /\ [AnyNext]_anyVars => Kept'
    BY Steps DEF Kept
  <1>. QED  BY <1>1, <1>2, PTL DEF AnySpec

(* Every tone answers a prompt spoken no earlier than the one before it,   *)
(* and no stage is answered twice, whatever order the transcripts arrive   *)
(* in and however late they are (_on_transcript, _reserve_dtmf).           *)
THEOREM TonesAnswerSpeech == AnySpec => []TonesFollowSpeech
  <1>1. Kept => TonesFollowSpeech
    <2>1. SUFFICES ASSUME Kept, flow # None, NEW i \in Tones(flow), NEW j \in Tones(flow),
                          i < j
                   PROVE  /\ flow.issued[i].at <= flow.issued[j].at
                          /\ flow.issued[i].stage # flow.issued[j].stage
      BY DEF TonesFollowSpeech
    <2>2. flow \in Flows
      BY <2>1 DEF Kept, Holds
    <2>3. /\ flow.issued[i].at <= flow.issued[j].at
          /\ Rank[flow.issued[i].stage] < Rank[flow.issued[j].stage]
      BY <2>1, <2>2 DEF Flows, Base, TonesOrdered
    <2>4. i \in DOMAIN flow.issued /\ flow.issued[i] \in Commands
          /\ flow.issued[i].do = "send_dtmf"
      BY <2>2 DEF Flows, FlowType, Tones
    <2>5. Rank[flow.issued[i].stage] \in 1..5
      BY <2>4, Ranks DEF Commands
    <2>. QED  BY <2>3, <2>5
  <1>. QED  BY <1>1, CallerOwnsFlow, PTL

(* A call the run was bound to is never left: when the run is done the     *)
(* remote side ended it, or a hangup was asked for (_leave, close).        *)
THEOREM CallsAreLeft == AnySpec => []NoCallAbandoned
  <1>1. Kept => NoCallAbandoned
    BY DEF Kept, Holds, Reports, RunOver, Flows, LetGo, Hangs, NoCallAbandoned
  <1>. QED  BY <1>1, CallerOwnsFlow, PTL

(* The safety part of what a run promises: it is asked for once, its first *)
(* verdict stands, whatever cleaning up meets, and is the one reported; an *)
(* operator who interrupts it before is told so (IvrRun, but its end).     *)
THEOREM FirstVerdictStands ==
    AnySpec => Contract!Init /\ [][Contract!Next]_<<caller.phase # "idle", Verdict, printed>>
  <1>. DEFINE asked == caller.phase # "idle"
  <1>1. AnyInit => Contract!Init
    BY DEF AnyInit, CallerInit, Contract!Init, Verdict
  <1>2. ASSUME Kept, [AnyNext]_anyVars
        PROVE  [Contract!Next]_<<asked, Verdict, printed>>
    <2>1. /\ Verdict = IF printed # None THEN printed ELSE Decision(caller, flow)
          /\ Verdict' = IF printed' # None THEN printed' ELSE Decision(caller', flow')
      BY DEF Verdict, Decision
    <2>2. CASE Start
      <3>1. ~asked /\ asked' /\ printed' = printed /\ Verdict' = Verdict
        BY <1>2, <2>1, <2>2, Starts DEF Kept, Start
      <3>. QED  BY <3>1 DEF Contract!Next, Contract!Ask
    <2>3. CASE Onward /\ UNCHANGED printed
      <3>1. /\ asked' = asked /\ printed' = printed
            /\ Verdict' = Verdict \/ (Verdict = None /\ asked)
        BY <2>1, <2>3 DEF Onward
      <3>. QED  BY <3>1 DEF Contract!Next, Contract!Decide
    <2>4. CASE Interrupt
      <3>1. /\ caller.phase = "running" /\ caller.report = None /\ printed = None
            /\ caller' = caller /\ flow' = flow
        BY <1>2, <2>4 DEF Interrupt, Running, Kept, Holds, Reports, RunOver
      <3>2. CASE flow # None /\ flow.result # None
        <4>1. Verdict = flow.result /\ printed' = flow.result /\ Verdict' = flow.result
          BY <2>1, <2>4, <3>1, <3>2 DEF Interrupt, Decision
        <4>. QED  BY <3>1, <3>2, <4>1 DEF Contract!Next, Contract!Report
      <3>3. CASE ~(flow # None /\ flow.result # None)
        <4>. DEFINE r == ErrorResult("interrupted",
                                     IF flow = None THEN "dialing" ELSE flow.stage)
        <4>1. r # None /\ r.status = "error"
          BY ErrorsAreResults, NoneIsNoFlow
        <4>2. printed' = r
          BY <2>4, <3>3 DEF Interrupt
        <4>. HIDE DEF r
        <4>3. Verdict = None /\ Verdict' = r
          BY <2>1, <3>1, <3>3, <4>1, <4>2 DEF Decision
        <4>. QED  BY <3>1, <4>1, <4>2, <4>3 DEF Contract!Next, Contract!Interrupt
      <3>. QED  BY <3>2, <3>3
    <2>5. CASE Report
      <3>1. /\ caller.phase = "done" /\ caller.report # None /\ printed = None
            /\ printed' = caller.report /\ caller' = caller /\ flow' = flow
        BY <1>2, <2>5 DEF Report, Kept, Holds, Reports, RunOver
      <3>2. Verdict = caller.report /\ Verdict' = caller.report
        BY <2>1, <3>1 DEF Decision
      <3>. QED  BY <3>1, <3>2 DEF Contract!Next, Contract!Report
    <2>. QED  BY <1>2, <2>2, <2>3, <2>4, <2>5, Steps
  <1>. QED  BY <1>1, <1>2, CallerOwnsFlow, PTL DEF AnySpec

-----------------------------------------------------------------------------
(* The test IVR.  How far it has led a call; 7 is beyond the announcement. *)
Prompts == DOMAIN NextPrompt

Reached == [answering |-> 0, welcome |-> 1, challenge |-> 2, menu |-> 3, identifier |-> 4,
            confirmation |-> 5, result |-> 6, silent |-> 7, failure |-> 7,
            hanging_up |-> 7, ended |-> 7]

Speech(scenario) ==
    IF scenario = "unsupported_result" THEN <<"value is", "unavailable", ".">>
                                       ELSE ResultPrompt(Amount)

Prompting(stage) == {Prompt(stage, Challenge), <<"not accepted">> \o Prompt(stage, Challenge)}

Apologies == {Unavailable, Unverified, Business}

(* What it waits for is its last command, and says what the stage is for.  *)
Waits(g) ==
    /\ g.stage \in {"silent", "ended"} <=> g.pending = None
    /\ g.pending # None => g.pending.n = g.commands

Says(g, scenario) ==
    /\ g.stage \in Prompts => g.pending.do = "gather" /\ g.pending.says \in Prompting(g.stage)
    /\ g.stage = "result"  => g.pending.do = "speak" /\ g.pending.says = Speech(scenario)
    /\ g.stage = "failure" => g.pending.do = "speak" /\ g.pending.says \in Apologies
    /\ g.stage = "answering"  => g.pending.do = "answer"
    /\ g.stage = "hanging_up" => g.pending.do = "hangup"

(* How far a scenario lets a call come.                                    *)
Allows(g, scenario) ==
    Reached[g.stage] \in 2..6 =>
        /\ scenario \notin {"early_hangup", "silent_stage"}
        /\ scenario = "rejected_id" => Reached[g.stage] < 5

Sound(g, scenario) == g \in Conversations /\ Waits(g) /\ Says(g, scenario) /\ Allows(g, scenario)

(* One step of a call it leads: it goes on only after the entry it waits   *)
(* for, asks again, or gives up.                                           *)
Leads(g, h, right) ==
    \/ h = g
    \/ /\ Sound(h, fixture.scenario) /\ h.call = g.call /\ h.commands >= g.commands
       /\ \/ Reached[h.stage] = 7
          \/ /\ h.commands > g.commands
             /\ \/ h.stage = g.stage /\ g.stage \in Prompts
                \/ g.stage = "answering" /\ h.stage = "welcome"
                \/ right /\ Reached[h.stage] = Reached[g.stage] + 1

StageNames == Prompts \cup {"answering", "result", "silent", "failure", "hanging_up", "ended"}

LEMMA StagesOfFixture ==
    /\ Prompts = {"welcome", "challenge", "menu", "identifier", "confirmation"}
    /\ DOMAIN Reached = StageNames
    /\ \A s \in StageNames : Reached[s] \in 0..7
    /\ \A s \in Prompts : Reached[s] \in 1..5 /\ Reached[NextPrompt[s]] = Reached[s] + 1
                          /\ NextPrompt[s] \in Prompts \cup {"result"}
    /\ \A s \in {"silent", "failure", "hanging_up", "ended"} : Reached[s] = 7
    /\ Reached["answering"] = 0 /\ Reached["result"] = 6
  BY DEF Prompts, NextPrompt, Reached, StageNames

LEMMA AmountIsSmall ==
    /\ Amount \div 100 \in Nat /\ Amount % 100 \in Nat
    /\ Amount \div 100 <= 9999 /\ Amount % 100 <= 99
  <1>1. Amount \in Nat /\ Amount <= 999999
    BY IvrFixtureAssumption, SMT
  <1>. QED  BY <1>1, Divides, SMT

(* What it says at a stage is made of the signs of that stage and of plain *)
(* words.                                                                  *)
LEMMA PromptIsVoiced ==
    ASSUME NEW stages, NEW stage \in Prompts, stage \in stages
    PROVE  Prompt(stage, Challenge) \in Seq(Voice(stages))
  <1>. DEFINE V == Voice(stages)
  <1>1. Challenge \in Seq(0..9) /\ SyntheticId \in Seq(0..9)
    BY IvrFixtureAssumption, IvrSpeechAssumption, SMT
  <1>2. PlainWords \subseteq V /\ StageSigns[stage] \subseteq V
    BY Voices, StagesOfFixture, Ranks
  <1>3. "1 if correct" \in V
    BY <1>2, Zenon DEF PlainWords
  <1>4. Seq(Numbering) \subseteq Seq(V)
    <2>1. Numbering \subseteq V
      BY <1>2, Zenon DEF PlainWords
    <2>. HIDE DEF V
    <2>. QED  BY <2>1
  <1>5. DigitWords(Challenge) \in Seq(V) /\ DigitWords(SyntheticId) \in Seq(V)
    BY <1>1, <1>4, DigitsAreText
  <1>. HIDE DEF V
  <1>6. CASE stage = "welcome"
    <2>1. "1 to continue" \in V
      BY <1>2, <1>6, SignsOfStages, Zenon
    <2>. QED  BY <1>6, <2>1, OfWords, Zenon DEF Prompt, V
  <1>7. CASE stage = "challenge"
    <2>1. "code is" \in V /\ "enter code" \in V
      BY <1>2, <1>7, SignsOfStages, Zenon
    <2>2. <<"code is">> \o DigitWords(Challenge) \o <<"enter code">> \in Seq(V)
      BY <1>5, <2>1, OfWords, Zenon
    <2>. QED  BY <1>7, <2>2, Zenon DEF Prompt, V
  <1>8. CASE stage = "menu"
    <2>1. "1 for personal" \in V /\ "2 for business" \in V
      BY <1>2, <1>8, SignsOfStages, Zenon
    <2>. QED  BY <1>8, <2>1, OfWords, Zenon DEF Prompt, V
  <1>9. CASE stage = "identifier"
    <2>1. "9 digit personal id" \in V
      BY <1>2, <1>9, SignsOfStages, Zenon
    <2>. QED  BY <1>9, <2>1, OfWords, Zenon DEF Prompt, V
  <1>10. CASE stage = "confirmation"
    <2>1. "you entered" \in V
      BY <1>2, <1>10, SignsOfStages, Zenon
    <2>2. <<"you entered">> \o DigitWords(SyntheticId) \o <<"1 if correct">> \in Seq(V)
      BY <1>3, <1>5, <2>1, OfWords, Zenon
    <2>. QED  BY <1>10, <2>2, Zenon DEF Prompt, V
  <1>. QED  BY <1>6, <1>7, <1>8, <1>9, <1>10, StagesOfFixture, Zenon

LEMMA AnnouncementIsVoiced ==
    ASSUME NEW stages, "result" \in stages, NEW scenario
    PROVE  Speech(scenario) \in Seq(Voice(stages))
  <1>. DEFINE V == Voice(stages)
              a == IntegerWords[Amount \div 100]
              b == IntegerWords[Amount % 100]
              u == Unit(Amount \div 100, "dollar", "dollars")
              v == Unit(Amount % 100, "cent", "cents")
  <1>1. PlainWords \subseteq V /\ StageSigns["result"] \subseteq V
    BY Voices, SignsOfStages, Zenon
  <1>2. {u, v, "and", ".", "unavailable", "value is"} \subseteq V
    BY <1>1, SignsOfStages, Zenon DEF Unit, PlainWords
  <1>3. a \in Seq(V) /\ b \in Seq(V)
    <2>1. Amount % 100 <= 9999
      BY AmountIsSmall
    <2>2. a \in Seq(Numbering) /\ b \in Seq(Numbering)
      BY <2>1, AmountIsSmall, SpeltInText
    <2>3. Numbering \subseteq V
      BY <1>1, Zenon DEF PlainWords
    <2>. HIDE DEF V, a, b
    <2>. QED  BY <2>2, <2>3
  <1>4. ResultPrompt(Amount) = <<"value is">> \o a \o <<u, "and">> \o b \o <<v, ".">>
    BY Zenon DEF ResultPrompt
  <1>. HIDE DEF V, a, b, u, v
  <1>5. /\ <<"value is">> \in Seq(V) /\ <<u, "and">> \in Seq(V)
        /\ <<v, ".">> \in Seq(V)
    BY <1>2, OfWords, Zenon
  <1>6. <<"value is">> \o a \o <<u, "and">> \in Seq(V)
    BY <1>3, <1>5, OfWords, Zenon
  <1>7. <<"value is">> \o a \o <<u, "and">> \o b \in Seq(V)
    BY <1>3, <1>6, OfWords, Zenon
  <1>8. ResultPrompt(Amount) \in Seq(V)
    BY <1>4, <1>5, <1>7, OfWords, Zenon
  <1>9. <<"value is", "unavailable", ".">> \in Seq(V)
    <2>1. \A x, y, z \in V : <<x, y, z>> \in Seq(V)
      OBVIOUS
    <2>. QED  BY <1>2, <2>1, Zenon
  <1>. QED  BY <1>8, <1>9, Zenon DEF Speech, V

LEMMA SpeechIsVoiced ==
    ASSUME NEW stages
    PROVE  /\ \A stage \in Prompts : stage \in stages => Prompting(stage) \subseteq Seq(Voice(stages))
           /\ Apologies \subseteq Seq(Voice(stages))
           /\ "result" \in stages => \A scenario : Speech(scenario) \in Seq(Voice(stages))
  <1>. DEFINE V == Voice(stages)
  <1>1. PlainWords \subseteq V
    BY Voices
  <1>2. {"not accepted", "service unavailable", "could not verify", "not supported", "."}
            \subseteq V
    BY <1>1, Zenon DEF PlainWords
  <1>3. "result" \in stages => \A scenario : Speech(scenario) \in Seq(V)
    BY AnnouncementIsVoiced, Zenon
  <1>4. \A stage \in Prompts : stage \in stages => Prompt(stage, Challenge) \in Seq(V)
    BY PromptIsVoiced, Zenon
  <1>. HIDE DEF V
  <1>5. <<"not accepted">> \in Seq(V)
    BY <1>2, OfWords, Zenon
  <1>6. \A stage \in Prompts : stage \in stages => Prompting(stage) \subseteq Seq(V)
    BY <1>4, <1>5, OfWords, Zenon DEF Prompting
  <1>7. /\ <<"service unavailable", ".">> \in Seq(V)
        /\ <<"could not verify", ".">> \in Seq(V)
        /\ <<"not supported", ".">> \in Seq(V)
    BY <1>2, OfWords, Zenon
  <1>8. Apologies \subseteq Seq(V)
    BY <1>7, Zenon DEF Apologies, Unavailable, Unverified, Business
  <1>. QED  BY <1>3, <1>6, <1>8 DEF V

LEMMA SpeechIsText ==
    /\ \A stage \in Prompts : Prompting(stage) \subseteq Seq(Tokens)
    /\ Apologies \subseteq Seq(Tokens)
    /\ \A scenario : Speech(scenario) \in Seq(Tokens)
  <1>. DEFINE V == Voice(DOMAIN StageSigns)
  <1>1. V \subseteq Tokens
    BY Voices
  <1>2. /\ \A stage \in Prompts : Prompting(stage) \subseteq Seq(V)
        /\ Apologies \subseteq Seq(V)
        /\ \A scenario : Speech(scenario) \in Seq(V)
    BY SpeechIsVoiced, StagesOfFixture, SignsOfStages, Zenon
  <1>. HIDE DEF V
  <1>3. Seq(V) \subseteq Seq(Tokens)
    BY <1>1
  <1>. QED  BY <1>2, <1>3, Zenon

LEMMA Deadlines ==
    /\ AnswerTime \in Nat /\ GatherTime \in Nat /\ SpeechTime \in Nat
    /\ HangupTime \in Nat /\ TalkTime \in Nat
  BY IvrFixtureAssumption, SMT

Ordered(g, h, stage, do, says) ==
    /\ h \in Conversations /\ h.call = g.call /\ h.stage = stage
    /\ h.commands = g.commands + 1 /\ h.answered = g.answered
    /\ h.pending # None /\ h.pending.n = h.commands
    /\ h.pending.do = do /\ h.pending.says = says

LEMMA OrdersOne ==
    ASSUME NEW g \in Conversations, NEW stage \in StageNames,
           NEW do \in {"answer", "gather", "speak", "hangup"}, NEW says \in Seq(Tokens),
           NEW until \in Int
    PROVE  Ordered(g, Ask(g, stage, do, says, until), stage, do, says)
  <1>. DEFINE order == [n |-> g.commands + 1, do |-> do, says |-> says]
              h == Ask(g, stage, do, says, until)
  <1>1. order \in Orders /\ order # None
    <2>1. g.commands + 1 \in Nat
      BY DEF Conversations
    <2>2. order \in Orders
      BY <2>1 DEF Orders
    <2>. QED  BY <2>2, IvrCallAssumption
  <1>2. h = [g EXCEPT !.stage = stage, !.pending = order, !.commands = g.commands + 1,
                      !.deadline = until]
    BY DEF Ask, Conversations
  <1>3. order.n = g.commands + 1 /\ order.do = do /\ order.says = says
    OBVIOUS
  <1>. HIDE DEF order, h
  <1>4. order \in Maybe(Orders) /\ g.commands + 1 \in Nat
    BY <1>1 DEF Maybe, Conversations
  <1>5. /\ h \in Conversations /\ h.call = g.call /\ h.stage = stage /\ h.pending = order
        /\ h.commands = g.commands + 1 /\ h.answered = g.answered
    BY <1>2, <1>4 DEF Conversations, StageNames, Prompts
  <1>. QED  BY <1>1, <1>3, <1>5 DEF h, Ordered

(* What is reserved at a stage that says what it is for is sound.          *)
LEMMA OrdersSoundly ==
    ASSUME NEW g \in Conversations, NEW stage \in StageNames,
           NEW do, NEW says, NEW until \in Int,
           \/ stage \in Prompts /\ do = "gather" /\ says \in Prompting(stage)
           \/ stage = "result" /\ do = "speak" /\ says = Speech(fixture.scenario)
           \/ stage = "failure" /\ do = "speak" /\ says \in Apologies
           \/ stage = "answering" /\ do = "answer" /\ says = <<>>
           \/ stage = "hanging_up" /\ do = "hangup" /\ says = <<>>,
           Reached[stage] \in 2..6 =>
               /\ fixture.scenario \notin {"early_hangup", "silent_stage"}
               /\ fixture.scenario = "rejected_id" => Reached[stage] < 5
    PROVE  LET h == Ask(g, stage, do, says, until)
           IN  /\ Sound(h, fixture.scenario) /\ h.call = g.call /\ h.stage = stage
               /\ h.commands = g.commands + 1 /\ h.answered = g.answered
  <1>1. do \in {"answer", "gather", "speak", "hangup"} /\ says \in Seq(Tokens)
    <2>1. <<>> \in Seq(Tokens)
      OBVIOUS
    <2>2. do \in {"answer", "gather", "speak", "hangup"}
      OBVIOUS
    <2>3. says \in Seq(Tokens)
      BY <2>1, SpeechIsText
    <2>. QED  BY <2>2, <2>3
  <1>. DEFINE h == Ask(g, stage, do, says, until)
  <1>2. Ordered(g, h, stage, do, says)
    BY <1>1, OrdersOne
  <1>3. stage \notin {"silent", "ended"} /\ "result" \notin Prompts /\ "failure" \notin Prompts
        /\ "answering" \notin Prompts /\ "hanging_up" \notin Prompts
    BY StagesOfFixture
  <1>. HIDE DEF h
  <1>4. Waits(h) /\ Says(h, fixture.scenario) /\ Allows(h, fixture.scenario)
    BY <1>2, <1>3 DEF Ordered, Waits, Says, Allows
  <1>. QED  BY <1>2, <1>4 DEF Ordered, Sound, h

LEMMA Releases ==
    ASSUME NEW g \in Conversations, Sound(g, fixture.scenario), NEW now \in Int, NEW right
    PROVE  Leads(g, Release(g, now), right)
  <1>1. CASE g.stage \in {"hanging_up", "ended"}
    BY <1>1 DEF Release, Leads
  <1>2. CASE g.stage \notin {"hanging_up", "ended"}
    <2>. DEFINE h == Ask(g, "hanging_up", "hangup", <<>>, now + HangupTime)
    <2>1. now + HangupTime \in Int /\ g.commands \in Nat /\ Reached["hanging_up"] = 7
          /\ "hanging_up" \in StageNames
      BY Deadlines, StagesOfFixture DEF Conversations, StageNames
    <2>2. /\ Sound(h, fixture.scenario) /\ h.call = g.call /\ h.stage = "hanging_up"
          /\ h.commands = g.commands + 1
      BY <2>1, OrdersSoundly
    <2>3. Release(g, now) = h
      BY <1>2 DEF Release
    <2>. HIDE DEF h
    <2>. QED  BY <2>1, <2>2, <2>3 DEF Leads
  <1>. QED  BY <1>1, <1>2

LEMMA IsOver ==
    ASSUME NEW g \in Conversations, NEW right
    PROVE  Leads(g, Over(g), right) /\ Over(g).stage = "ended"
  <1>. DEFINE h == Over(g)
  <1>1. h \in Conversations /\ h.stage = "ended" /\ h.pending = None /\ h.call = g.call
        /\ h.commands = g.commands
    BY DEF Over, Conversations, Maybe
  <1>2. g.commands \in Nat
    BY DEF Conversations
  <1>. HIDE DEF h
  <1>3. Sound(h, fixture.scenario) /\ Reached[h.stage] = 7
    BY <1>1, StagesOfFixture DEF Sound, Waits, Says, Allows
  <1>. QED  BY <1>1, <1>2, <1>3 DEF Leads, h

LEMMA Refuses ==
    ASSUME NEW g \in Conversations, Sound(g, fixture.scenario), NEW now \in Int, NEW right,
           NEW says \in Apologies
    PROVE  Leads(g, Refuse(g, says, now), right)
  <1>1. CASE g.stage \in {"hanging_up", "ended"}
    BY <1>1 DEF Refuse, Leads
  <1>2. CASE g.stage \notin {"hanging_up", "ended"} /\ (~g.answered \/ g.stage = "failure")
    BY <1>2, Releases DEF Refuse
  <1>3. CASE g.stage \notin {"hanging_up", "ended"} /\ ~(~g.answered \/ g.stage = "failure")
    <2>. DEFINE h == Ask(g, "failure", "speak", says, now + SpeechTime)
    <2>1. now + SpeechTime \in Int /\ g.commands \in Nat /\ Reached["failure"] = 7
          /\ "failure" \in StageNames
      BY Deadlines, StagesOfFixture DEF Conversations, StageNames
    <2>2. /\ Sound(h, fixture.scenario) /\ h.call = g.call /\ h.stage = "failure"
          /\ h.commands = g.commands + 1
      BY <2>1, OrdersSoundly
    <2>3. Refuse(g, says, now) = h
      BY <1>3 DEF Refuse
    <2>. HIDE DEF h
    <2>. QED  BY <2>1, <2>2, <2>3 DEF Leads
  <1>. QED  BY <1>1, <1>2, <1>3

LEMMA Lapses ==
    ASSUME NEW g \in Conversations, Sound(g, fixture.scenario), NEW now \in Int, NEW right
    PROVE  Leads(g, Lapse(g, now), right)
  <1>1. Leads(g, g, right)
    BY DEF Leads
  <1>2. Unavailable \in Apologies
    BY DEF Apologies
  <1>. QED  BY <1>1, <1>2, Releases, IsOver, Refuses DEF Lapse


(* The call goes on to a stage, its attempts counted anew.                 *)
LEMMA Resets ==
    ASSUME NEW g \in Conversations, NEW attempt \in Int
    PROVE  LET h == [g EXCEPT !.attempt = attempt]
           IN  /\ h \in Conversations /\ h.call = g.call /\ h.commands = g.commands
               /\ h.stage = g.stage /\ h.answered = g.answered
  BY DEF Conversations

LEMMA Prompted ==
    ASSUME NEW g \in Conversations, NEW stage \in Prompts, NEW now \in Int,
           Reached[stage] \in 2..6 =>
               /\ fixture.scenario \notin {"early_hangup", "silent_stage"}
               /\ fixture.scenario = "rejected_id" => Reached[stage] < 5
    PROVE  LET h == Gather(g, stage, now)
           IN  /\ Sound(h, fixture.scenario) /\ h.call = g.call /\ h.stage = stage
               /\ h.commands = g.commands + 1
  <1>. DEFINE r == [g EXCEPT !.attempt = 1]
              says == Prompt(stage, Challenge)
              until == now + GatherTime
  <1>1. r \in Conversations /\ r.call = g.call /\ r.commands = g.commands
    BY Resets
  <1>2. until \in Int /\ says \in Prompting(stage) /\ stage \in StageNames
    BY Deadlines DEF Prompting, StageNames
  <1>3. Gather(g, stage, now) = Ask(r, stage, "gather", says, until)
    BY DEF Gather
  <1>. HIDE DEF r, says, until
  <1>. QED  BY <1>1, <1>2, <1>3, OrdersSoundly

LEMMA AsksAgain ==
    ASSUME NEW g \in Conversations, Sound(g, fixture.scenario), g.stage \in Prompts,
           NEW now \in Int, NEW right
    PROVE  Leads(g, GatherAgain(g, now), right)
  <1>. DEFINE r == [g EXCEPT !.attempt = g.attempt + 1]
              says == <<"not accepted">> \o Prompt(g.stage, Challenge)
              until == now + GatherTime
              h == Ask(r, g.stage, "gather", says, until)
  <1>1. g.attempt + 1 \in Int /\ g.commands \in Nat
    BY DEF Conversations
  <1>2. r \in Conversations /\ r.call = g.call /\ r.commands = g.commands
    BY <1>1, Resets
  <1>3. until \in Int /\ says \in Prompting(g.stage) /\ g.stage \in StageNames
    BY Deadlines DEF Prompting, StageNames
  <1>4. GatherAgain(g, now) = h
    BY DEF GatherAgain, Conversations
  <1>5. /\ Sound(h, fixture.scenario) /\ h.call = g.call /\ h.stage = g.stage
        /\ h.commands = g.commands + 1
    <2>1. Reached[g.stage] \in 2..6 =>
               /\ fixture.scenario \notin {"early_hangup", "silent_stage"}
               /\ fixture.scenario = "rejected_id" => Reached[g.stage] < 5
      BY DEF Sound, Allows
    <2>. HIDE DEF r, says, until
    <2>. QED  BY <1>2, <1>3, <2>1, OrdersSoundly
  <1>. HIDE DEF h
  <1>. QED  BY <1>1, <1>4, <1>5 DEF Leads

LEMMA Welcomes ==
    ASSUME NEW g \in Conversations, Sound(g, fixture.scenario), g.stage = "answering",
           NEW now \in Int, NEW right
    PROVE  Leads(g, Gather([g EXCEPT !.answered = TRUE], "welcome", now), right)
  <1>. DEFINE r == [g EXCEPT !.answered = TRUE]
              h == Gather(r, "welcome", now)
  <1>1. r \in Conversations /\ r.call = g.call /\ r.commands = g.commands /\ g.commands \in Nat
    BY DEF Conversations
  <1>2. "welcome" \in Prompts /\ Reached["welcome"] = 1
    BY StagesOfFixture DEF Reached
  <1>. HIDE DEF r
  <1>3. /\ Sound(h, fixture.scenario) /\ h.call = g.call /\ h.stage = "welcome"
        /\ h.commands = g.commands + 1
    BY <1>1, <1>2, Prompted
  <1>. HIDE DEF h
  <1>. QED  BY <1>1, <1>3 DEF Leads, h, r

LEMMA Advances ==
    ASSUME NEW g \in Conversations, Sound(g, fixture.scenario), g.stage \in Prompts,
           NEW now \in Int
    PROVE  Leads(g, Advance(g, now), TRUE)
  <1>. DEFINE next == NextPrompt[g.stage]
  <1>1. /\ next \in Prompts \cup {"result"} /\ Reached[next] = Reached[g.stage] + 1
        /\ Reached[g.stage] \in 1..5 /\ Reached["challenge"] = 2 /\ Reached["result"] = 6
        /\ Reached["confirmation"] = 5
    BY StagesOfFixture DEF Reached
  <1>2. /\ now + SpeechTime \in Int /\ g.commands \in Nat
        /\ Unverified \in Apologies
    BY Deadlines DEF Conversations, Apologies
  <1>3. Reached[g.stage] \in 2..6 =>
               /\ fixture.scenario \notin {"early_hangup", "silent_stage"}
               /\ fixture.scenario = "rejected_id" => Reached[g.stage] < 5
    BY DEF Sound, Allows
  <1>4. next # "challenge" => Reached[next] > 2
    BY <1>1, StagesOfFixture DEF Reached
  <1>5. next \in Prompts \ {"confirmation"} => Reached[next] < 5
    BY <1>1, StagesOfFixture DEF Reached
  <1>. HIDE DEF next
  <1>6. CASE next = "challenge" /\ fixture.scenario = "early_hangup"
    BY <1>6, Releases DEF Advance, next
  <1>7. CASE next = "challenge" /\ fixture.scenario = "silent_stage"
    <2>. DEFINE h == [g EXCEPT !.stage = "silent", !.pending = None, !.deadline = g.until]
    <2>1. /\ h \in Conversations /\ h.stage = "silent" /\ h.pending = None /\ h.call = g.call
          /\ h.commands = g.commands
      BY DEF Conversations, Maybe
    <2>2. Advance(g, now) = h
      BY <1>7 DEF Advance, next
    <2>. HIDE DEF h
    <2>3. Reached[h.stage] = 7 /\ h.stage \notin Prompts
      BY <2>1, StagesOfFixture
    <2>4. Sound(h, fixture.scenario)
      BY <2>1, <2>3 DEF Sound, Waits, Says, Allows
    <2>. QED  BY <1>2, <2>1, <2>2, <2>3, <2>4 DEF Leads
  <1>8. CASE next = "confirmation" /\ fixture.scenario = "rejected_id"
    BY <1>2, <1>8, Refuses DEF Advance, next
  <1>9. CASE next = "result"
    <2>. DEFINE r == [g EXCEPT !.attempt = 1]
                h == Ask(r, "result", "speak", Announcement, now + SpeechTime)
    <2>1. r \in Conversations /\ r.call = g.call /\ r.commands = g.commands
      BY Resets
    <2>2. Announcement = Speech(fixture.scenario) /\ "result" \in StageNames
      BY DEF Announcement, Speech, StageNames
    <2>3. /\ fixture.scenario \notin {"early_hangup", "silent_stage", "rejected_id"}
      BY <1>1, <1>3, <1>9
    <2>4. Advance(g, now) = h
      BY <1>9 DEF Advance, next
    <2>. HIDE DEF r
    <2>5. /\ Sound(h, fixture.scenario) /\ h.call = g.call /\ h.stage = "result"
          /\ h.commands = g.commands + 1
      BY <1>2, <2>1, <2>2, <2>3, OrdersSoundly
    <2>. HIDE DEF h
    <2>. QED  BY <1>1, <1>2, <1>9, <2>4, <2>5 DEF Leads
  <1>10. CASE /\ next \in Prompts
              /\ ~(next = "challenge" /\ fixture.scenario \in {"early_hangup", "silent_stage"})
              /\ ~(next = "confirmation" /\ fixture.scenario = "rejected_id")
    <2>. DEFINE h == Gather(g, next, now)
    <2>1. /\ fixture.scenario \notin {"early_hangup", "silent_stage"}
          /\ fixture.scenario = "rejected_id" => Reached[next] < 5
      BY <1>1, <1>3, <1>4, <1>5, <1>10
    <2>2. /\ Sound(h, fixture.scenario) /\ h.call = g.call /\ h.stage = next
          /\ h.commands = g.commands + 1
      BY <1>10, <2>1, Prompted
    <2>3. Advance(g, now) = h
      BY <1>10, StagesOfFixture DEF Advance, next
    <2>. HIDE DEF h
    <2>. QED  BY <1>1, <1>2, <2>2, <2>3 DEF Leads
  <1>. QED  BY <1>1, <1>6, <1>7, <1>8, <1>9, <1>10

(* The callback is that the entry asked for last was keyed.                *)
Enters(g, e) == e.kind = "gather.ended" /\ e.status = "valid" /\ e.token = g.commands

LEMMA EntersOne ==
    ASSUME NEW g \in Conversations, Sound(g, fixture.scenario), g.stage \in Prompts,
           NEW e, e.kind = "gather.ended", e.token = g.commands, NEW now \in Int
    PROVE  Leads(g, Entered(g, e, now), Enters(g, e))
  <1>1. {Unavailable, Unverified, Business} \subseteq Apologies
    BY DEF Apologies
  <1>2. CASE Right(g, e) /\ Entered(g, e, now) = Advance(g, now)
    <2>1. Enters(g, e) = TRUE
      BY <1>2 DEF Right, Enters
    <2>. QED  BY <1>2, <2>1, Advances
  <1>3. CASE Entered(g, e, now) = GatherAgain(g, now)
    BY <1>3, AsksAgain
  <1>4. CASE \E says \in Apologies : Entered(g, e, now) = Refuse(g, says, now)
    BY <1>4, Refuses
  <1>. QED  BY <1>1, <1>2, <1>3, <1>4 DEF Entered

LEMMA Responds ==
    ASSUME NEW g \in Conversations, Sound(g, fixture.scenario), NEW e, NEW now \in Int
    PROVE  Leads(g, Respond(g, e, now), Enters(g, e))
  <1>1. Leads(g, g, Enters(g, e))
    BY DEF Leads
  <1>2. CASE g.pending # None /\ Concerns(g, e) /\ g.pending.do = "gather"
             /\ e.kind = "gather.ended" /\ Respond(g, e, now) = Entered(g, e, now)
    <2>1. e.token = g.commands
      BY <1>2 DEF Concerns, Sound, Waits
    <2>2. g.stage \in Prompts
      <3>1. g.stage \in StageNames
        BY DEF Conversations, StageNames, Prompts
      <3>. QED  BY <1>2, <3>1 DEF Sound, Waits, Says, StageNames
    <2>. QED  BY <1>2, <2>1, <2>2, EntersOne
  <1>3. CASE Respond(g, e, now) \in {g, Over(g), Lapse(g, now), Release(g, now)}
    BY <1>1, <1>3, IsOver, Lapses, Releases
  <1>4. CASE g.stage = "answering"
             /\ Respond(g, e, now) = Gather([g EXCEPT !.answered = TRUE], "welcome", now)
    BY <1>4, Welcomes
  <1>. QED  BY <1>2, <1>3, <1>4 DEF Respond

-----------------------------------------------------------------------------
(* The fixture, and what each of its steps does to the calls it holds.     *)
FixtureType ==
    [active : Maybe(Conversations), seen : SUBSET Nat, tombstones : SUBSET Calls,
     busy : SUBSET [call : Calls, until : Int], phase : {"open", "closing", "closed"},
     closeBy : Maybe(Int), due : BOOLEAN, scenario : Scenarios]

(* A call that is led is not buried, and one turned away is.               *)
Keeps(fx) ==
    /\ fx \in FixtureType
    /\ fx.active # None =>
           /\ Sound(fx.active, fx.scenario) /\ fx.active.stage # "ended"
           /\ fx.active.call \notin fx.tombstones
    /\ BusyWith(fx) \subseteq fx.tombstones

(* From one state of the fixture to the next.  A call is taken up, goes on *)
(* (after a right entry, if it is one), or is buried.                      *)
Passes(fx, fy, right) ==
    /\ Keeps(fy) /\ fy.scenario = fx.scenario /\ fx.tombstones \subseteq fy.tombstones
    /\ BusyWith(fx) \subseteq BusyWith(fy) \cup fy.tombstones
    /\ fx.active = None /\ fy.active # None =>
           fy.active.call \notin fx.tombstones /\ fy.active.stage = "answering"
    /\ fx.active # None =>
           \/ fy.active = None /\ fx.active.call \in fy.tombstones
           \/ fy.active # None /\ Leads(fx.active, fy.active, right)

Kinds == {"initiated", "answered", "hangup", "transcript", "gather.ended", "speak.ended"}

Statuses == {"", "valid", "timeout", "completed"}

FixtureEvents == [id : Nat, call : Calls, kind : Kinds, token : Nat, status : Statuses,
                  digits : Seq(0..9)]

(* A call that is led goes on, or ends.                                    *)
LEMMA FollowsCall ==
    ASSUME NEW fx \in FixtureType, Keeps(fixture), fixture.active # None,
           NEW g, NEW right, Leads(fixture.active, g, right),
           fx.active = fixture.active \/ fx.active = None,
           fx.scenario = fixture.scenario, fx.tombstones = fixture.tombstones,
           BusyWith(fx) \subseteq fx.tombstones
    PROVE  Passes(fixture, GoesOn(fx, g), right)
  <1>1. /\ fixture.active \in Conversations /\ fixture.active.call \notin fixture.tombstones
        /\ Sound(fixture.active, fixture.scenario) /\ fixture.active.stage # "ended"
        /\ BusyWith(fixture) \subseteq fixture.tombstones
    BY DEF Keeps, FixtureType, Maybe
  <1>2. g \in Conversations /\ g.call = fixture.active.call /\ Sound(g, fixture.scenario)
        /\ g # None /\ g.call \in Calls
    BY <1>1, IvrCallAssumption DEF Leads, Sound, Conversations
  <1>3. CASE g.stage = "ended"
    <2>. DEFINE fy == [fx EXCEPT !.active = None, !.tombstones = fx.tombstones \cup {g.call},
                                 !.seen = {}]
    <2>1. /\ fy \in FixtureType /\ fy.active = None /\ fy.scenario = fixture.scenario
          /\ fy.tombstones = fixture.tombstones \cup {g.call} /\ fy.busy = fx.busy
      BY <1>2 DEF FixtureType, Maybe
    <2>2. GoesOn(fx, g) = fy
      BY <1>3 DEF GoesOn, FixtureType
    <2>. HIDE DEF fy
    <2>3. BusyWith(fy) = BusyWith(fx)
      BY <2>1 DEF BusyWith
    <2>4. Keeps(fy)
      BY <2>1, <2>3 DEF Keeps
    <2>. QED  BY <1>1, <1>2, <2>1, <2>2, <2>4 DEF Passes
  <1>4. CASE g.stage # "ended"
    <2>. DEFINE fy == [fx EXCEPT !.active = g]
    <2>1. /\ fy \in FixtureType /\ fy.active = g /\ fy.scenario = fixture.scenario
          /\ fy.tombstones = fixture.tombstones /\ fy.busy = fx.busy
      BY <1>2 DEF FixtureType, Maybe
    <2>2. GoesOn(fx, g) = fy
      BY <1>4 DEF GoesOn, FixtureType
    <2>. HIDE DEF fy
    <2>3. BusyWith(fy) = BusyWith(fx)
      BY <2>1 DEF BusyWith
    <2>4. Keeps(fy)
      BY <1>1, <1>2, <1>4, <2>1, <2>3 DEF Keeps
    <2>. QED  BY <1>1, <1>2, <2>1, <2>2, <2>4 DEF Passes
  <1>. QED  BY <1>3, <1>4

(* Nothing happens to the call that is led, nor to those that were.        *)
LEMMA LeavesCalls ==
    ASSUME NEW fx \in FixtureType, Keeps(fixture), NEW right,
           fx.active = fixture.active, fx.scenario = fixture.scenario,
           fixture.tombstones \subseteq fx.tombstones,
           fixture.active # None => fixture.active.call \notin fx.tombstones,
           BusyWith(fx) \subseteq fx.tombstones
    PROVE  Passes(fixture, fx, right)
  BY DEF Passes, Keeps, Leads

LEMMA HungUpOn ==
    ASSUME Keeps(fixture), NEW call \in Calls
    PROVE  Passes(fixture, HungUp(fixture, call), FALSE)
  <1>1. fixture \in FixtureType /\ BusyWith(fixture) \subseteq fixture.tombstones
    BY DEF Keeps
  <1>2. CASE fixture.active # None /\ fixture.active.call = call
    <2>1. fixture.active \in Conversations
      BY <1>2 DEF Keeps, FixtureType, Maybe
    <2>2. Leads(fixture.active, Over(fixture.active), FALSE)
      BY <2>1, IsOver
    <2>. QED  BY <1>1, <1>2, <2>2, FollowsCall DEF HungUp
  <1>3. CASE ~(fixture.active # None /\ fixture.active.call = call) /\ call \in BusyWith(fixture)
    <2>. DEFINE fx == [fixture EXCEPT !.busy = {b \in fixture.busy : b.call # call}]
    <2>1. /\ fx \in FixtureType /\ fx.active = fixture.active /\ fx.scenario = fixture.scenario
          /\ fx.tombstones = fixture.tombstones /\ fx.busy \subseteq fixture.busy
      BY <1>1 DEF FixtureType
    <2>2. HungUp(fixture, call) = fx
      BY <1>1, <1>3 DEF HungUp
    <2>. HIDE DEF fx
    <2>3. BusyWith(fx) \subseteq fx.tombstones
      BY <1>1, <2>1 DEF BusyWith
    <2>4. fixture.active # None => fixture.active.call \notin fx.tombstones
      BY <2>1 DEF Keeps
    <2>. QED  BY <2>1, <2>2, <2>3, <2>4, LeavesCalls
  <1>4. CASE ~(fixture.active # None /\ fixture.active.call = call) /\ call \notin BusyWith(fixture)
    <2>. DEFINE fx == [fixture EXCEPT !.tombstones = fixture.tombstones \cup {call}]
    <2>1. /\ fx \in FixtureType /\ fx.active = fixture.active /\ fx.scenario = fixture.scenario
          /\ fx.tombstones = fixture.tombstones \cup {call} /\ fx.busy = fixture.busy
      BY <1>1 DEF FixtureType
    <2>2. HungUp(fixture, call) = fx
      BY <1>1, <1>4 DEF HungUp
    <2>. HIDE DEF fx
    <2>3. BusyWith(fx) \subseteq fx.tombstones
      BY <1>1, <2>1 DEF BusyWith
    <2>4. fixture.active # None => fixture.active.call \notin fx.tombstones
      BY <1>4, <2>1 DEF Keeps
    <2>. QED  BY <2>1, <2>2, <2>3, <2>4, LeavesCalls
  <1>. QED  BY <1>2, <1>3, <1>4

LEMMA TakesUp ==
    ASSUME NEW call \in Calls, NEW now \in Int
    PROVE  LET g == NewCall(call, now)
           IN  g \in Conversations /\ Sound(g, fixture.scenario) /\ g.call = call
               /\ g.stage = "answering" /\ g.commands = 1
  <1>. DEFINE r == [call |-> call, stage |-> "new", pending |-> None, commands |-> 0,
                    deadline |-> 0, until |-> now + TalkTime, attempt |-> 1, answered |-> FALSE]
              order == [n |-> 1, do |-> "answer", says |-> <<>>]
              g == [call |-> call, stage |-> "answering", pending |-> order, commands |-> 1,
                    deadline |-> now + AnswerTime, until |-> now + TalkTime, attempt |-> 1,
                    answered |-> FALSE]
  <1>1. NewCall(call, now) = g
    <2>1. NewCall(call, now) = [r EXCEPT !.stage = "answering",
                                         !.pending = [n |-> r.commands + 1, do |-> "answer",
                                                      says |-> <<>>],
                                         !.commands = @ + 1, !.deadline = now + AnswerTime]
      BY DEF NewCall, Ask
    <2>2. r.commands + 1 = 1
      OBVIOUS
    <2>3. [n |-> r.commands + 1, do |-> "answer", says |-> <<>>] = order
      BY <2>2
    <2>. HIDE DEF order
    <2>. QED  BY <2>1, <2>2, <2>3
  <1>2. order \in Orders /\ order # None /\ order.n = 1 /\ order.do = "answer"
    <2>1. <<>> \in Seq(Tokens)
      OBVIOUS
    <2>2. order \in Orders
      BY <2>1 DEF Orders
    <2>. QED  BY <2>2, IvrCallAssumption
  <1>3. now + AnswerTime \in Int /\ now + TalkTime \in Int
    BY Deadlines
  <1>. HIDE DEF order
  <1>4. g \in Conversations
    BY <1>2, <1>3 DEF Conversations, Maybe
  <1>5. g.stage = "answering" /\ g.pending = order /\ g.commands = 1 /\ g.call = call
    OBVIOUS
  <1>. HIDE DEF g
  <1>6. Sound(g, fixture.scenario)
    BY <1>2, <1>4, <1>5, StagesOfFixture DEF Sound, Waits, Says, Allows
  <1>. QED  BY <1>1, <1>4, <1>5, <1>6

LEMMA Initiates ==
    ASSUME Keeps(fixture), NEW e, e.id \in Nat, e.call \in Calls,
           e.call \notin fixture.tombstones, NEW now \in Int
    PROVE  Passes(fixture, Initiated(fixture, e, now), FALSE)
  <1>1. fixture \in FixtureType /\ BusyWith(fixture) \subseteq fixture.tombstones
    BY DEF Keeps
  <1>2. CASE fixture.active = None
    <2>. DEFINE g == NewCall(e.call, now)
                fx == [fixture EXCEPT !.active = g, !.seen = {e.id}]
    <2>1. g \in Conversations /\ Sound(g, fixture.scenario) /\ g.call = e.call
          /\ g.stage = "answering" /\ g # None
      BY TakesUp, IvrCallAssumption
    <2>2. Initiated(fixture, e, now) = fx
      BY <1>2 DEF Initiated
    <2>. HIDE DEF g
    <2>3. /\ fx \in FixtureType /\ fx.active = g /\ fx.scenario = fixture.scenario
          /\ fx.tombstones = fixture.tombstones /\ fx.busy = fixture.busy
      BY <1>1, <2>1 DEF FixtureType, Maybe
    <2>. HIDE DEF fx
    <2>4. BusyWith(fx) = BusyWith(fixture)
      BY <2>3 DEF BusyWith
    <2>. QED  BY <1>1, <1>2, <2>1, <2>2, <2>3, <2>4 DEF Passes, Keeps
  <1>3. CASE fixture.active # None /\ fixture.active.call = e.call
    BY <1>1, <1>3, LeavesCalls DEF Initiated, Keeps
  <1>4. CASE fixture.active # None /\ fixture.active.call # e.call
    <2>. DEFINE b == [call |-> e.call, until |-> now + HangupTime]
                fx == [fixture EXCEPT !.busy = fixture.busy \cup {b},
                                      !.tombstones = fixture.tombstones \cup {e.call}]
    <2>1. b \in [call : Calls, until : Int] /\ b.call = e.call
      BY Deadlines
    <2>2. Initiated(fixture, e, now) = fx
      BY <1>1, <1>4 DEF Initiated, TurnAway, FixtureType
    <2>. HIDE DEF b
    <2>3. /\ fx \in FixtureType /\ fx.active = fixture.active /\ fx.scenario = fixture.scenario
          /\ fx.tombstones = fixture.tombstones \cup {e.call} /\ fx.busy = fixture.busy \cup {b}
      BY <1>1, <2>1 DEF FixtureType
    <2>. HIDE DEF fx
    <2>4. BusyWith(fx) \subseteq fx.tombstones
      BY <1>1, <2>1, <2>3 DEF BusyWith
    <2>5. fixture.active.call \notin fx.tombstones
      BY <1>4, <2>3 DEF Keeps
    <2>. QED  BY <2>2, <2>3, <2>4, <2>5, LeavesCalls
  <1>. QED  BY <1>2, <1>3, <1>4

LEMMA HeedsIt ==
    ASSUME Keeps(fixture), NEW e, e.id \in Nat, NEW now \in Int, NEW right,
           fixture.active # None /\ fixture.active.call = e.call /\ Enters(fixture.active, e)
               => right
    PROVE  Passes(fixture, Heeds(fixture, e, now), right)
  <1>1. fixture \in FixtureType /\ BusyWith(fixture) \subseteq fixture.tombstones
    BY DEF Keeps
  <1>. DEFINE full == Cardinality(fixture.seen) >= MaxFixtureIds
              fx == [fixture EXCEPT !.seen = IF full THEN fixture.seen
                                             ELSE fixture.seen \cup {e.id}]
              g == fixture.active
  <1>2. CASE g = None \/ g.call # e.call \/ e.id \in fixture.seen
    BY <1>1, <1>2, LeavesCalls DEF Heeds, Keeps
  <1>3. CASE ~(g = None \/ g.call # e.call \/ e.id \in fixture.seen)
    <2>1. g \in Conversations /\ Sound(g, fixture.scenario) /\ Unavailable \in Apologies
      BY <1>3 DEF Keeps, FixtureType, Maybe, Apologies
    <2>2. \/ Heeds(fixture, e, now) = GoesOn(fixture, Refuse(g, Unavailable, now))
          \/ Heeds(fixture, e, now) = GoesOn(fx, Respond(g, e, now))
      BY <1>1, <1>3 DEF Heeds, FixtureType
    <2>3. /\ fx \in FixtureType /\ fx.active = g /\ fx.scenario = fixture.scenario
          /\ fx.tombstones = fixture.tombstones /\ fx.busy = fixture.busy
      BY <1>1 DEF FixtureType
    <2>. HIDE DEF fx
    <2>4. BusyWith(fx) = BusyWith(fixture)
      BY <2>3 DEF BusyWith
    <2>5. Leads(g, Refuse(g, Unavailable, now), right)
      BY <2>1, Refuses
    <2>6. Leads(g, Respond(g, e, now), right)
      <3>1. Leads(g, Respond(g, e, now), Enters(g, e))
        BY <2>1, Responds
      <3>. QED  BY <1>3, <3>1 DEF Leads
    <2>7. Passes(fixture, GoesOn(fixture, Refuse(g, Unavailable, now)), right)
      BY <1>1, <1>3, <2>5, FollowsCall
    <2>8. Passes(fixture, GoesOn(fx, Respond(g, e, now)), right)
      BY <1>1, <1>3, <2>3, <2>4, <2>6, FollowsCall
    <2>. QED  BY <2>2, <2>7, <2>8
  <1>. QED  BY <1>2, <1>3

-----------------------------------------------------------------------------
(* The network: what one of its steps does to the line of a call, and what *)
(* it tells.                                                               *)
LineType ==
    [state : {"idle", "ringing", "up", "down"}, took : Nat,
     playing : Maybe(StageNames \cup {"speak"}), since : Int, rest : Seq(Seq(Tokens))]

Lines == [Calls -> LineType]

NetworkType ==
    /\ line \in Lines /\ told \in Nat /\ keyed \in Nat
    /\ toCaller \subseteq EventType /\ toFixture \subseteq FixtureEvents

TakesOrder(c) ==
    /\ fixture.active # None /\ fixture.active.call = c /\ fixture.active.pending # None
    /\ line[c].took < fixture.active.pending.n
    /\ line'[c].took = fixture.active.pending.n

KeyedMore == flow # None /\ keyed' \in (keyed + 1)..Len(flow.issued)

Reaction(c) ==
    /\ line' \in Lines /\ \A d \in Calls \ {c} : line'[d] = line[d]
    /\ line'[c].took = line[c].took \/ TakesOrder(c)
    /\ \/ Range(line'[c].rest) \subseteq Range(line[c].rest)
       \/ /\ TakesOrder(c) /\ fixture.active.pending.do \in {"gather", "speak"}
          /\ line'[c].rest \in Finals(fixture.active.pending)
    /\ keyed' = keyed \/ KeyedMore

Telling(c) ==
    /\ told' \in Nat
    /\ \A e \in toFixture' \ toFixture :
           /\ e \in FixtureEvents /\ e.call = c /\ e.token = line'[c].took
           /\ e.status = "valid" => KeyedMore /\ flow.issued[keyed'].do = "send_dtmf"
    /\ \A e \in toCaller' \ toCaller :
           /\ e \in EventType
           /\ e.kind = "transcript" => c = OurCall /\ e.text \in Range(line[c].rest)

LEMMA Changes ==
    ASSUME line \in Lines, NEW c \in Calls, NEW r \in LineType, line' = [line EXCEPT ![c] = r]
    PROVE  line' \in Lines /\ line'[c] = r /\ \A d \in Calls \ {c} : line'[d] = line[d]
  BY DEF Lines

LEMMA Tellings ==
    ASSUME NetworkType, line' \in Lines, NEW c \in Calls,
           NEW kind \in Kinds, NEW text \in Seq(Tokens), kind # "transcript" => text = <<>>,
           kind = "transcript" => c = OurCall /\ text \in Range(line[c].rest),
           NEW status \in Statuses, NEW digits \in Seq(0..9),
           status = "valid" => KeyedMore /\ flow.issued[keyed'].do = "send_dtmf",
           Tells(c, kind, text, status, digits)
    PROVE  Telling(c)
  <1>. DEFINE forCaller  == [id |-> told + 1, call |-> c, kind |-> kind, at |-> told + 1,
                             text |-> text]
              forFixture == [id |-> told + 1, call |-> c, kind |-> kind,
                             token |-> line'[c].took, status |-> status, digits |-> digits]
  <1>1. told + 1 \in Nat /\ told' = told + 1 /\ line'[c].took \in Nat
    BY DEF NetworkType, Tells, Lines, LineType
  <1>2. /\ \A e \in toCaller' \ toCaller :
               e = forCaller /\ kind \notin {"gather.ended", "speak.ended"}
        /\ \A e \in toFixture' \ toFixture : e = forFixture
    BY DEF Tells
  <1>3. forFixture \in FixtureEvents
    BY <1>1 DEF FixtureEvents
  <1>4. kind \notin {"gather.ended", "speak.ended"} => forCaller \in EventType
    <2>1. told + 1 \in Int /\ told + 1 \in Maybe(Int)
      BY <1>1 DEF Maybe
    <2>. QED  BY <1>1, <2>1 DEF EventType, Kinds
  <1>5. /\ forFixture.call = c /\ forFixture.token = line'[c].took
        /\ forFixture.status = status /\ forCaller.kind = kind /\ forCaller.text = text
    OBVIOUS
  <1>. HIDE DEF forCaller, forFixture
  <1>. QED  BY <1>1, <1>2, <1>3, <1>4, <1>5 DEF Telling

LEMMA Occurring ==
    ASSUME NetworkType, line' \in Lines, NEW c \in Calls,
           NEW kind \in {"initiated", "answered", "hangup"}, Occurs(c, kind)
    PROVE  Telling(c)
  <1>1. <<>> \in Seq(Tokens) /\ <<>> \in Seq(0..9)
    OBVIOUS
  <1>2. Tells(c, kind, <<>>, "", <<>>)
    BY DEF Occurs
  <1>3. kind \in Kinds /\ "" \in Statuses
    BY DEF Kinds, Statuses
  <1>. QED  BY <1>1, <1>2, <1>3, Tellings

LEMMA SilentlyTelling ==
    ASSUME NetworkType, Silent, NEW c
    PROVE  Telling(c)
  BY DEF NetworkType, Silent, Telling

LEMMA Dropping ==
    ASSUME NetworkType, NEW c \in Calls, Drops(c), keyed' = keyed \/ KeyedMore
    PROVE  Reaction(c) /\ Telling(c)
  <1>. DEFINE r == [line[c] EXCEPT !.state = "down", !.playing = None, !.rest = <<>>]
  <1>1. line[c] \in LineType /\ line \in Lines
    BY DEF NetworkType, Lines
  <1>2. r \in LineType /\ r.took = line[c].took /\ r.rest = <<>>
    <2>1. <<>> \in Seq(Seq(Tokens)) /\ None \in Maybe(StageNames \cup {"speak"})
      BY DEF Maybe
    <2>. QED  BY <1>1, <2>1 DEF LineType
  <1>3. line' = [line EXCEPT ![c] = r]
    BY <1>1 DEF Drops, LineType
  <1>. HIDE DEF r
  <1>4. /\ line' \in Lines /\ line'[c] = r /\ \A d \in Calls \ {c} : line'[d] = line[d]
    BY <1>1, <1>2, <1>3, Changes
  <1>5. Range(line'[c].rest) \subseteq Range(line[c].rest)
    BY <1>2, <1>4 DEF Range
  <1>6. Reaction(c)
    BY <1>2, <1>4, <1>5 DEF Reaction
  <1>7. Telling(c)
    BY <1>4, Occurring DEF Drops
  <1>. QED  BY <1>6, <1>7

LEMMA Ringing ==
    ASSUME NetworkType, NEW c \in Calls, Rings(c)
    PROVE  Reaction(c) /\ Telling(c)
  <1>. DEFINE r == [line[c] EXCEPT !.state = "ringing"]
  <1>1. line[c] \in LineType /\ line \in Lines
    BY DEF NetworkType, Lines
  <1>2. r \in LineType /\ r.took = line[c].took /\ r.rest = line[c].rest
    BY <1>1 DEF LineType, Maybe
  <1>3. line' = [line EXCEPT ![c] = r]
    BY <1>1 DEF Rings, LineType
  <1>. HIDE DEF r
  <1>4. /\ line' \in Lines /\ line'[c] = r /\ \A d \in Calls \ {c} : line'[d] = line[d]
    BY <1>1, <1>2, <1>3, Changes
  <1>5. keyed' = keyed
    BY DEF Rings
  <1>6. Reaction(c)
    BY <1>2, <1>4, <1>5 DEF Reaction
  <1>7. Telling(c)
    BY <1>4, Occurring DEF Rings
  <1>. QED  BY <1>6, <1>7

LEMMA Answering ==
    ASSUME NetworkType, NEW c \in Calls, NEW cmd \in Orders, Answers(c, cmd),
           fixture.active # None, fixture.active.call = c, fixture.active.pending = cmd,
           cmd # None, line[c].took < cmd.n, keyed' = keyed
    PROVE  Reaction(c) /\ Telling(c)
  <1>. DEFINE r == [line[c] EXCEPT !.state = "up", !.took = cmd.n]
  <1>1. line[c] \in LineType /\ line \in Lines /\ cmd.n \in Nat
    BY DEF NetworkType, Lines, Orders
  <1>2. r \in LineType /\ r.took = cmd.n /\ r.rest = line[c].rest
    BY <1>1 DEF LineType, Maybe
  <1>3. line' = [line EXCEPT ![c] = r]
    BY <1>1 DEF Answers, LineType
  <1>. HIDE DEF r
  <1>4. /\ line' \in Lines /\ line'[c] = r /\ \A d \in Calls \ {c} : line'[d] = line[d]
    BY <1>1, <1>2, <1>3, Changes
  <1>6. Reaction(c)
    BY <1>2, <1>4 DEF Reaction, TakesOrder
  <1>7. Telling(c)
    BY <1>4, Occurring DEF Answers
  <1>. QED  BY <1>6, <1>7

LEMMA FinalsOf ==
    ASSUME NEW cmd, NEW finals \in Finals(cmd)
    PROVE  \/ finals = <<cmd.says>>
           \/ /\ cmd.do = "speak"
              /\ \E cut \in Cuts, stop \in {<<>>, <<".">>} :
                    /\ cut < Len(cmd.says)
                    /\ finals = <<SubSeq(cmd.says, 1, cut) \o stop,
                                  SubSeq(cmd.says, cut + 1, Len(cmd.says))>>
  <1>1. CASE finals # <<cmd.says>>
    <2>1. cmd.do = "speak"
          /\ finals \in UNION {CutAt(cmd.says, cut) : cut \in {i \in Cuts : i < Len(cmd.says)}}
      BY <1>1 DEF Finals
    <2>2. PICK cut \in Cuts : cut < Len(cmd.says) /\ finals \in CutAt(cmd.says, cut)
      BY <2>1
    <2>3. PICK stop \in {<<>>, <<".">>} :
              finals = <<SubSeq(cmd.says, 1, cut) \o stop,
                         SubSeq(cmd.says, cut + 1, Len(cmd.says))>>
      BY <2>2, Zenon DEF CutAt
    <2>. QED  BY <2>1, <2>2, <2>3
  <1>. QED  BY <1>1

(* The finals of a speech are made of the same words.                      *)
LEMMA FinalsWithin ==
    ASSUME NEW S, "." \in S, NEW cmd, cmd.says \in Seq(S)
    PROVE  Finals(cmd) \subseteq Seq(Seq(S))
  <1>1. cmd.says \in Seq(S)
    OBVIOUS
  <1>2. <<cmd.says>> \in Seq(Seq(S))
    BY <1>1
  <1>3. ASSUME NEW cut \in Cuts, NEW stop \in {<<>>, <<".">>}, cut < Len(cmd.says)
        PROVE  <<SubSeq(cmd.says, 1, cut) \o stop, SubSeq(cmd.says, cut + 1, Len(cmd.says))>>
                   \in Seq(Seq(S))
    <2>1. cut \in Nat /\ cut < Len(cmd.says) /\ Len(cmd.says) \in Nat
      BY <1>1, <1>3, IvrCallAssumption
    <2>2. SubSeq(cmd.says, 1, cut) \in Seq(S)
      BY <1>1, <2>1
    <2>3. SubSeq(cmd.says, cut + 1, Len(cmd.says)) \in Seq(S)
      BY <1>1, <2>1
    <2>4. stop \in Seq(S)
      BY OfWords
    <2>5. SubSeq(cmd.says, 1, cut) \o stop \in Seq(S)
      BY <2>2, <2>4
    <2>. QED  BY <2>3, <2>5
  <1>4. ASSUME NEW finals \in Finals(cmd)  PROVE finals \in Seq(Seq(S))
    <2>1. CASE finals = <<cmd.says>>
      BY <1>2, <2>1
    <2>2. ASSUME NEW cut \in Cuts, NEW stop \in {<<>>, <<".">>}, cut < Len(cmd.says),
                 finals = <<SubSeq(cmd.says, 1, cut) \o stop,
                            SubSeq(cmd.says, cut + 1, Len(cmd.says))>>
          PROVE  finals \in Seq(Seq(S))
      BY <1>3, <2>2, Zenon
    <2>. QED  BY <1>4, <2>1, <2>2, FinalsOf, Zenon
  <1>. QED  BY <1>4

LEMMA FinalsAreTexts ==
    ASSUME NEW cmd \in Orders
    PROVE  Finals(cmd) \subseteq Seq(Seq(Tokens))
  BY FinalsWithin, TokenWords DEF Orders

LEMMA Playing ==
    ASSUME NetworkType, NEW c \in Calls, NEW cmd \in Orders, Plays(c, cmd), clock \in Int,
           fixture.active # None, fixture.active.call = c, fixture.active.pending = cmd,
           fixture.active.stage \in StageNames, cmd.do \notin {"answer", "hangup"},
           cmd # None, line[c].took < cmd.n, keyed' = keyed
    PROVE  Reaction(c) /\ Telling(c)
  <1>1. line[c] \in LineType /\ line \in Lines /\ cmd.n \in Nat /\ cmd.do \in {"gather", "speak"}
    BY DEF NetworkType, Lines, Orders
  <1>2. PICK finals \in Finals(cmd) :
            line' = [line EXCEPT ![c].took = cmd.n, ![c].since = clock, ![c].rest = finals,
                                 ![c].playing = IF cmd.do = "gather" THEN fixture.active.stage
                                                                     ELSE "speak"]
    BY DEF Plays
  <1>. DEFINE what == IF cmd.do = "gather" THEN fixture.active.stage ELSE "speak"
              r == [line[c] EXCEPT !.took = cmd.n, !.since = clock, !.rest = finals,
                                   !.playing = what]
  <1>3. finals \in Seq(Seq(Tokens))
    BY FinalsAreTexts
  <1>9. what \in Maybe(StageNames \cup {"speak"})
    BY DEF Maybe
  <1>4. line' = [line EXCEPT ![c] = r]
    BY <1>1, <1>2 DEF Lines, LineType
  <1>. HIDE DEF what
  <1>5. r \in LineType /\ r.took = cmd.n /\ r.rest = finals
    BY <1>1, <1>3, <1>9 DEF LineType
  <1>. HIDE DEF r
  <1>6. /\ line' \in Lines /\ line'[c] = r /\ \A d \in Calls \ {c} : line'[d] = line[d]
    BY <1>1, <1>4, <1>5, Changes
  <1>7. Reaction(c)
    BY <1>1, <1>5, <1>6 DEF Reaction, TakesOrder
  <1>8. Telling(c)
    BY SilentlyTelling DEF Plays
  <1>. QED  BY <1>7, <1>8

LEMMA FirstAndRest ==
    ASSUME NEW S, NEW s \in Seq(S), s # <<>>
    PROVE  /\ Head(s) \in S /\ Head(s) \in Range(s)
           /\ Tail(s) \in Seq(S) /\ Range(Tail(s)) \subseteq Range(s)
  <1>1. Len(s) \in Nat /\ Len(s) > 0 /\ DOMAIN s = 1..Len(s)
    OBVIOUS
  <1>2. Head(s) = s[1] /\ s[1] \in S /\ 1 \in DOMAIN s
    BY <1>1
  <1>3. Tail(s) \in Seq(S) /\ Len(Tail(s)) = Len(s) - 1
    BY <1>1
  <1>4. \A i \in 1..Len(Tail(s)) : Tail(s)[i] = s[i + 1] /\ i + 1 \in 1..Len(s)
    BY <1>1, <1>3
  <1>5. DOMAIN Tail(s) = 1..Len(Tail(s))
    BY <1>3
  <1>. QED  BY <1>1, <1>2, <1>3, <1>4, <1>5 DEF Range

LEMMA Transcribing ==
    ASSUME NetworkType, Transcribes
    PROVE  Reaction(OurCall) /\ Telling(OurCall)
  <1>. DEFINE c == OurCall
              r == [line[c] EXCEPT !.rest = Tail(line[c].rest)]
  <1>1. line[c] \in LineType /\ line \in Lines /\ c \in Calls
    BY IvrCallAssumption DEF NetworkType, Lines
  <1>2. /\ line[c].rest \in Seq(Seq(Tokens)) /\ line[c].rest # <<>>
        /\ line' = [line EXCEPT ![c] = r]
    BY <1>1 DEF Transcribes, LineType, Lines
  <1>3. /\ Head(line[c].rest) \in Seq(Tokens) /\ Head(line[c].rest) \in Range(line[c].rest)
        /\ Tail(line[c].rest) \in Seq(Seq(Tokens))
        /\ Range(Tail(line[c].rest)) \subseteq Range(line[c].rest)
    BY <1>2, FirstAndRest
  <1>4. r \in LineType /\ r.took = line[c].took /\ r.rest = Tail(line[c].rest)
    BY <1>1, <1>3 DEF LineType
  <1>. HIDE DEF r
  <1>5. /\ line' \in Lines /\ line'[c] = r /\ \A d \in Calls \ {c} : line'[d] = line[d]
    BY <1>1, <1>2, <1>4, Changes
  <1>6. Reaction(c)
    BY <1>3, <1>4, <1>5 DEF Reaction, Transcribes
  <1>7. Telling(c)
    <2>1. Tells(c, "transcript", Head(line[c].rest), "", <<>>)
      BY DEF Transcribes
    <2>3. <<>> \in Seq(0..9)
      OBVIOUS
    <2>2. "transcript" \in Kinds /\ "" \in Statuses
      BY DEF Kinds, Statuses
    <2>. QED  BY <1>1, <1>3, <1>5, <2>1, <2>2, <2>3, Tellings
  <1>. QED  BY <1>6, <1>7

LEMMA EndingPlay ==
    ASSUME NetworkType, NEW c \in Calls, NEW kind \in {"gather.ended", "speak.ended"},
           NEW status \in Statuses, NEW digits \in Seq(0..9), Ends(c, kind, status, digits),
           status = "valid" => KeyedMore /\ flow.issued[keyed'].do = "send_dtmf",
           keyed' = keyed \/ KeyedMore
    PROVE  Reaction(c) /\ Telling(c)
  <1>. DEFINE r == [line[c] EXCEPT !.playing = None, !.rest = <<>>]
  <1>1. line[c] \in LineType /\ line \in Lines
    BY DEF NetworkType, Lines
  <1>2. r \in LineType /\ r.took = line[c].took /\ r.rest = <<>>
    <2>1. <<>> \in Seq(Seq(Tokens)) /\ None \in Maybe(StageNames \cup {"speak"})
      BY DEF Maybe
    <2>. QED  BY <1>1, <2>1 DEF LineType
  <1>3. line' = [line EXCEPT ![c] = r]
    BY <1>1 DEF Ends, LineType
  <1>. HIDE DEF r
  <1>4. /\ line' \in Lines /\ line'[c] = r /\ \A d \in Calls \ {c} : line'[d] = line[d]
    BY <1>1, <1>2, <1>3, Changes
  <1>5. Range(line'[c].rest) \subseteq Range(line[c].rest)
    BY <1>2, <1>4 DEF Range
  <1>6. Reaction(c)
    BY <1>2, <1>4, <1>5 DEF Reaction
  <1>7. Telling(c)
    <2>1. <<>> \in Seq(Tokens) /\ Tells(c, kind, <<>>, status, digits)
      BY DEF Ends
    <2>2. kind \in Kinds
      BY DEF Kinds
    <2>. QED  BY <1>4, <2>1, <2>2, Tellings
  <1>. QED  BY <1>6, <1>7

LEMMA NetworkActs ==
    ASSUME NetworkType, Keeps(fixture), flow # None => flow \in Flows, clock \in Int, Network
    PROVE  \E c \in Calls : Reaction(c) /\ Telling(c)
  <1>1. ASSUME NEW c \in Calls, Rings(c)  PROVE Reaction(c) /\ Telling(c)
    BY <1>1, Ringing
  <1>2. ASSUME NEW c \in Calls, TakesFromFixture(c)  PROVE Reaction(c) /\ Telling(c)
    <2>1. keyed' = keyed
      BY <1>2 DEF TakesFromFixture
    <2>2. CASE Drops(c)
      BY <2>1, <2>2, Dropping
    <2>3. CASE ~Drops(c)
      <3>. DEFINE g == fixture.active
                  cmd == g.pending
      <3>1. /\ g # None /\ g.call = c /\ cmd # None /\ line[c].took < cmd.n
            /\ CASE cmd.do = "answer" -> Answers(c, cmd)
                 [] cmd.do = "hangup" -> Drops(c)
                 [] OTHER             -> Plays(c, cmd)
        BY <1>2, <2>3 DEF TakesFromFixture
      <3>2. g \in Conversations
        BY <3>1 DEF Keeps, FixtureType, Maybe
      <3>3. cmd \in Orders /\ g.stage \in StageNames
        BY <3>1, <3>2 DEF Conversations, Maybe, StageNames, Prompts
      <3>4. CASE cmd.do = "answer"
        <4>1. Answers(c, cmd)
          BY <3>1, <3>4
        <4>. QED  BY <2>1, <3>1, <3>3, <4>1, Answering
      <3>5. CASE cmd.do \notin {"answer", "hangup"}
        <4>1. Plays(c, cmd)
          BY <3>1, <3>5
        <4>. QED  BY <2>1, <3>1, <3>3, <3>5, <4>1, Playing
      <3>. QED  BY <2>3, <3>1, <3>4, <3>5
    <2>. QED  BY <2>2, <2>3
  <1>3. ASSUME NEW c \in Calls, PlayedOut(c)  PROVE Reaction(c) /\ Telling(c)
    <2>1. keyed' = keyed
      BY <1>3 DEF PlayedOut
    <2>2. "completed" \in Statuses /\ "timeout" \in Statuses
      BY DEF Statuses
    <2>3. <<>> \in Seq(0..9)
      OBVIOUS
    <2>4. Ends(c, "speak.ended", "completed", <<>>) \/ Ends(c, "gather.ended", "timeout", <<>>)
      BY <1>3 DEF PlayedOut
    <2>5. CASE Ends(c, "speak.ended", "completed", <<>>)
      BY <2>1, <2>2, <2>3, <2>5, EndingPlay
    <2>6. CASE Ends(c, "gather.ended", "timeout", <<>>)
      BY <2>1, <2>2, <2>3, <2>6, EndingPlay
    <2>. QED  BY <2>4, <2>5, <2>6
  <1>4. ASSUME TakesFromCaller  PROVE Reaction(OurCall) /\ Telling(OurCall)
    <2>1. /\ flow # None
          /\ \E n \in (keyed + 1)..Len(flow.issued) :
                /\ keyed' = n
                /\ \/ Drops(OurCall)
                   \/ /\ flow.issued[n].do = "send_dtmf"
                      /\ Ends(OurCall, "gather.ended", "valid", flow.issued[n].digits)
                   \/ UNCHANGED line /\ Silent
      BY <1>4 DEF TakesFromCaller
    <2>2. PICK n \in (keyed + 1)..Len(flow.issued) :
                /\ keyed' = n
                /\ \/ Drops(OurCall)
                   \/ /\ flow.issued[n].do = "send_dtmf"
                      /\ Ends(OurCall, "gather.ended", "valid", flow.issued[n].digits)
                   \/ UNCHANGED line /\ Silent
      BY <2>1
    <2>3. KeyedMore /\ OurCall \in Calls
      BY <2>1, <2>2, IvrCallAssumption DEF KeyedMore
    <2>4. CASE Drops(OurCall)
      BY <2>3, <2>4, Dropping
    <2>5. CASE /\ flow.issued[n].do = "send_dtmf"
               /\ Ends(OurCall, "gather.ended", "valid", flow.issued[n].digits)
      <3>1. flow.issued \in Seq(Commands) /\ n \in 1..Len(flow.issued)
        BY <2>1, <2>2 DEF Flows, FlowType, NetworkType
      <3>2. flow.issued[n].digits \in Seq(0..9)
        <4>1. flow.issued[n] \in Commands
          BY <3>1
        <4>. QED  BY <2>5, <4>1 DEF Commands
      <3>3. "valid" \in Statuses /\ flow.issued[keyed'].do = "send_dtmf"
        BY <2>2, <2>5 DEF Statuses
      <3>. QED  BY <2>3, <2>5, <3>2, <3>3, EndingPlay
    <2>6. CASE UNCHANGED line /\ Silent
      <3>1. Reaction(OurCall)
        BY <2>3, <2>6 DEF Reaction, NetworkType
      <3>. QED  BY <2>6, <3>1, SilentlyTelling
    <2>. QED  BY <2>2, <2>4, <2>5, <2>6
  <1>5. OurCall \in Calls
    BY IvrCallAssumption
  <1>. QED  BY <1>1, <1>2, <1>3, <1>4, <1>5, Transcribing DEF Network

-----------------------------------------------------------------------------
(* Every step of the test IVR.                                             *)
LEMMA AnyWay ==
    ASSUME NEW fx, NEW fy, NEW right, Passes(fx, fy, FALSE)
    PROVE  Passes(fx, fy, right)
  BY DEF Passes, Leads

LEMMA AcceptsCallback ==
    ASSUME Keeps(fixture), NEW e \in FixtureEvents, NEW now \in Int, FixtureAccept(e, now)
    PROVE  Passes(fixture, fixture', /\ fixture.active # None /\ fixture.active.call = e.call
                                     /\ Enters(fixture.active, e))
  <1>. DEFINE right == /\ fixture.active # None /\ fixture.active.call = e.call
                       /\ Enters(fixture.active, e)
  <1>1. e.id \in Nat /\ e.call \in Calls /\ fixture \in FixtureType
        /\ BusyWith(fixture) \subseteq fixture.tombstones
    BY DEF FixtureEvents, Keeps
  <1>2. CASE e.kind = "hangup"
    <2>1. fixture' = HungUp(fixture, e.call)
      BY <1>2 DEF FixtureAccept
    <2>2. Passes(fixture, fixture', FALSE)
      BY <1>1, <2>1, HungUpOn
    <2>. HIDE DEF right
    <2>. QED  BY <2>2, AnyWay DEF right
  <1>3. CASE e.kind # "hangup" /\ Buried(fixture, e.call)
    <2>1. fixture' = fixture
      BY <1>3 DEF FixtureAccept
    <2>. HIDE DEF right
    <2>2. Passes(fixture, fixture, right)
      BY <1>1, LeavesCalls DEF Keeps
    <2>. QED  BY <2>1, <2>2 DEF right
  <1>4. CASE e.kind # "hangup" /\ ~Buried(fixture, e.call) /\ e.kind = "initiated"
    <2>1. fixture' = Initiated(fixture, e, now) /\ e.call \notin fixture.tombstones
      BY <1>4 DEF FixtureAccept, Buried
    <2>2. Passes(fixture, fixture', FALSE)
      BY <1>1, <2>1, Initiates
    <2>. HIDE DEF right
    <2>. QED  BY <2>2, AnyWay DEF right
  <1>5. CASE e.kind # "hangup" /\ ~Buried(fixture, e.call) /\ e.kind # "initiated"
    <2>1. fixture' = Heeds(fixture, e, now)
      BY <1>5 DEF FixtureAccept
    <2>2. Passes(fixture, Heeds(fixture, e, now), right)
      BY <1>1, HeedsIt
    <2>. HIDE DEF right
    <2>. QED  BY <2>1, <2>2 DEF right
  <1>. HIDE DEF right
  <1>. QED  BY <1>2, <1>3, <1>4, <1>5

LEMMA SendFails ==
    ASSUME Keeps(fixture), NEW now \in Int, FixtureSendFails(now)
    PROVE  Passes(fixture, fixture', FALSE)
  <1>1. fixture \in FixtureType /\ BusyWith(fixture) \subseteq fixture.tombstones
        /\ fixture.active # None
    BY DEF Keeps, FixtureSendFails
  <1>2. fixture.active \in Conversations /\ Sound(fixture.active, fixture.scenario)
        /\ Unavailable \in Apologies
    BY <1>1 DEF Keeps, FixtureType, Maybe, Apologies
  <1>3. Leads(fixture.active, Refuse(fixture.active, Unavailable, now), FALSE)
    BY <1>2, Refuses
  <1>4. fixture' = GoesOn(fixture, Refuse(fixture.active, Unavailable, now))
    BY DEF FixtureSendFails
  <1>. QED  BY <1>1, <1>3, <1>4, FollowsCall

(* The fixture with other bookkeeping, and its call a step further.        *)
LEMMA KeepsHouse ==
    ASSUME Keeps(fixture), NEW fx \in FixtureType, fx.active = fixture.active,
           fx.scenario = fixture.scenario, fx.tombstones = fixture.tombstones,
           fx.busy \subseteq fixture.busy,
           NEW g, fixture.active # None => Leads(fixture.active, g, FALSE),
           fixture' = IF fx.active = None THEN fx ELSE GoesOn(fx, g)
    PROVE  Passes(fixture, fixture', FALSE)
  <1>1. BusyWith(fx) \subseteq fx.tombstones
    BY DEF Keeps, BusyWith
  <1>2. CASE fixture.active = None
    BY <1>1, <1>2, LeavesCalls DEF Keeps
  <1>3. CASE fixture.active # None
    BY <1>1, <1>3, FollowsCall
  <1>. QED  BY <1>2, <1>3

LEMMA TicksOn ==
    ASSUME Keeps(fixture), NEW now \in Int, FixtureTick(now)
    PROVE  Passes(fixture, fixture', FALSE)
  <1>. DEFINE fx == [fixture EXCEPT !.busy = {b \in fixture.busy : now < b.until}, !.due = FALSE]
              g == Lapse(fixture.active, now)
  <1>1. fixture \in FixtureType
    BY DEF Keeps
  <1>2. /\ fx \in FixtureType /\ fx.active = fixture.active /\ fx.scenario = fixture.scenario
        /\ fx.tombstones = fixture.tombstones /\ fx.busy \subseteq fixture.busy
    BY <1>1 DEF FixtureType
  <1>3. fixture' = IF fx.active = None THEN fx ELSE GoesOn(fx, g)
    BY <1>1 DEF FixtureTick, FixtureType
  <1>4. fixture.active # None => Leads(fixture.active, g, FALSE)
    <2>1. fixture.active # None => fixture.active \in Conversations
                                   /\ Sound(fixture.active, fixture.scenario)
      BY DEF Keeps, FixtureType, Maybe
    <2>. QED  BY <2>1, Lapses
  <1>. HIDE DEF fx, g
  <1>. QED  BY <1>2, <1>3, <1>4, KeepsHouse

LEMMA ClosesFixture ==
    ASSUME Keeps(fixture), NEW now \in Int, FixtureBeginClose(now)
    PROVE  Passes(fixture, fixture', FALSE)
  <1>. DEFINE fx == [fixture EXCEPT !.phase = "closing", !.closeBy = now + HangupTime,
                                    !.due = FALSE]
              g == Release(fixture.active, now)
  <1>1. fixture \in FixtureType /\ now + HangupTime \in Maybe(Int)
    BY Deadlines DEF Keeps, Maybe
  <1>2. /\ fx \in FixtureType /\ fx.active = fixture.active /\ fx.scenario = fixture.scenario
        /\ fx.tombstones = fixture.tombstones /\ fx.busy \subseteq fixture.busy
    BY <1>1 DEF FixtureType
  <1>3. fixture' = IF fx.active = None THEN fx ELSE GoesOn(fx, g)
    BY <1>1 DEF FixtureBeginClose, FixtureType
  <1>4. fixture.active # None => Leads(fixture.active, g, FALSE)
    <2>1. fixture.active # None => fixture.active \in Conversations
                                   /\ Sound(fixture.active, fixture.scenario)
      BY DEF Keeps, FixtureType, Maybe
    <2>. QED  BY <2>1, Releases
  <1>. HIDE DEF fx, g
  <1>. QED  BY <1>2, <1>3, <1>4, KeepsHouse

LEMMA FixtureIsClosed ==
    ASSUME Keeps(fixture), FixtureEndClose
    PROVE  Passes(fixture, fixture', FALSE)
  <1>. DEFINE fx == [fixture EXCEPT !.phase = "closed", !.busy = {}]
              g == Over(fixture.active)
  <1>1. fixture \in FixtureType
    BY DEF Keeps
  <1>2. /\ fx \in FixtureType /\ fx.active = fixture.active /\ fx.scenario = fixture.scenario
        /\ fx.tombstones = fixture.tombstones /\ fx.busy \subseteq fixture.busy
    BY <1>1 DEF FixtureType
  <1>3. fixture' = IF fx.active = None THEN fx ELSE GoesOn(fx, g)
    BY <1>1 DEF FixtureEndClose, FixtureType
  <1>4. fixture.active # None => Leads(fixture.active, g, FALSE)
    <2>1. fixture.active # None => fixture.active \in Conversations
      BY DEF Keeps, FixtureType, Maybe
    <2>. QED  BY <2>1, IsOver
  <1>. HIDE DEF fx, g
  <1>. QED  BY <1>2, <1>3, <1>4, KeepsHouse

LEMMA WaitsASecond ==
    ASSUME Keeps(fixture), fixture' = [fixture EXCEPT !.due = fixture.phase = "open"]
    PROVE  Passes(fixture, fixture', FALSE)
  <1>1. fixture \in FixtureType /\ BusyWith(fixture) \subseteq fixture.tombstones
    BY DEF Keeps
  <1>. DEFINE b == fixture.phase = "open"
              fx == [fixture EXCEPT !.due = b]
  <1>2. b \in BOOLEAN
    OBVIOUS
  <1>. HIDE DEF b
  <1>3. /\ fx \in FixtureType /\ fx.active = fixture.active /\ fx.scenario = fixture.scenario
        /\ fx.tombstones = fixture.tombstones /\ fx.busy = fixture.busy
    BY <1>1, <1>2 DEF FixtureType
  <1>4. fixture' = fx
    BY DEF b
  <1>. HIDE DEF fx
  <1>5. BusyWith(fx) \subseteq fx.tombstones
    BY <1>1, <1>3 DEF BusyWith
  <1>6. Passes(fixture, fx, FALSE)
    BY <1>3, <1>5, LeavesCalls DEF Keeps
  <1>. QED  BY <1>4, <1>6

-----------------------------------------------------------------------------
(* The call with both its ends.                                            *)
CallKept ==
    Holds(caller, flow) /\ clock \in Nat /\ Keeps(fixture) /\ NetworkType

(* What is under way may be delivered; nothing else happens on the line.   *)
Delivering ==
    /\ UNCHANGED <<line, told, keyed>>
    /\ toCaller' \subseteq toCaller /\ toFixture' \subseteq toFixture

NetworkMoves ==
    /\ UNCHANGED <<callerVars, fixture>>
    /\ \E c \in Calls : Reaction(c) /\ Telling(c)

Keyed(e) == /\ fixture.active # None /\ fixture.active.call = e.call
            /\ Enters(fixture.active, e)

FixtureMoves ==
    /\ Delivering /\ UNCHANGED <<caller, flow>> /\ clock' \in {clock, clock + 1}
    /\ \/ Passes(fixture, fixture', FALSE)
       \/ \E e \in toFixture : Passes(fixture, fixture', Keyed(e))

CallerMoves ==
    /\ Delivering /\ UNCHANGED <<fixture, clock>>
    /\ \/ Start \/ CommandFails \/ Watchdog \/ Join \/ EndClose
       \/ \E reply : DialReply(reply)
       \/ \E e \in toCaller, ours \in BOOLEAN : Accept(e, ours)
       \/ Running /\ BeginClose(caller)
       \/ UNCHANGED <<caller, flow>>

LEMMA CallMoves ==
    ASSUME CallKept, [Next]_vars
    PROVE  NetworkMoves \/ FixtureMoves \/ CallerMoves
  <1>1. /\ Holds(caller, flow) /\ clock \in Int /\ Keeps(fixture) /\ NetworkType
        /\ (flow # None => flow \in Flows) /\ toFixture \subseteq FixtureEvents
    BY DEF CallKept, Holds, NetworkType
  <1>2. CASE Network
    <2>1. \E c \in Calls : Reaction(c) /\ Telling(c)
      BY <1>1, <1>2, NetworkActs
    <2>. QED  BY <1>2, <2>1 DEF Network, NetworkMoves
  <1>3. CASE CallerHears
    <2>1. PICK e \in toCaller :
              /\ toCaller' \in {toCaller \ {e}, toCaller}
              /\ IF Ignored(e) THEN UNCHANGED callerVars ELSE Accept(e, Correlates(e))
      BY <1>3 DEF CallerHears
    <2>2. Correlates(e) \in BOOLEAN
      BY DEF Correlates
    <2>3. Delivering /\ UNCHANGED fixture
      BY <1>3, <2>1 DEF CallerHears, Delivering
    <2>4. CASE Ignored(e)
      BY <2>1, <2>3, <2>4 DEF CallerMoves, callerVars
    <2>5. CASE ~Ignored(e)
      <3>1. Accept(e, Correlates(e))
        BY <2>1, <2>5
      <3>2. clock' = clock
        BY <3>1 DEF Accept
      <3>. QED  BY <2>2, <2>3, <3>1, <3>2 DEF CallerMoves
    <2>. QED  BY <2>4, <2>5
  <1>4. CASE FixtureHears
    <2>1. PICK e \in toFixture :
              /\ toFixture' \in {toFixture \ {e}, toFixture}
              /\ IF fixture.phase = "open" THEN FixtureAccept(e, clock) ELSE UNCHANGED fixture
      BY <1>4 DEF FixtureHears
    <2>2. Delivering /\ UNCHANGED callerVars
      BY <1>4, <2>1 DEF FixtureHears, Delivering
    <2>3. CASE fixture.phase # "open"
      BY <2>1, <2>2, <2>3 DEF CallerMoves, callerVars
    <2>4. CASE FixtureAccept(e, clock)
      <3>1. e \in FixtureEvents
        BY <1>1
      <3>2. Passes(fixture, fixture', Keyed(e))
        BY <1>1, <2>4, <3>1, AcceptsCallback DEF Keyed
      <3>. QED  BY <2>2, <3>2 DEF FixtureMoves, callerVars
    <2>. QED  BY <2>1, <2>3, <2>4
  <1>5. CASE Loses \/ Breaks
    <2>1. Delivering /\ UNCHANGED callerVars /\ UNCHANGED fixture
      BY <1>5 DEF Loses, Breaks, Delivering
    <2>. QED  BY <2>1 DEF CallerMoves, callerVars
  <1>6. CASE CallerActs
    <2>1. Delivering /\ UNCHANGED fixture
      BY <1>6 DEF CallerActs, Delivering, networkVars
    <2>2. CASE Start \/ Watchdog \/ Join \/ EndClose
      <3>1. clock' = clock
        BY <2>2 DEF Start, Watchdog, Join, EndClose
      <3>. QED  BY <2>1, <2>2, <3>1 DEF CallerMoves
    <2>3. CASE Cleanup
      <3>1. clock' = clock /\ Running /\ BeginClose(caller)
        BY <2>3 DEF Cleanup
      <3>. QED  BY <2>1, <3>1 DEF CallerMoves
    <2>4. CASE Report
      BY <2>1, <2>4 DEF CallerMoves, Report
    <2>5. CASE DialReply(OurCall)
      <3>1. clock' = clock
        BY <2>5 DEF DialReply
      <3>. QED  BY <2>1, <2>5, <3>1 DEF CallerMoves
    <2>. QED  BY <1>6, <2>2, <2>3, <2>4, <2>5 DEF CallerActs
  <1>7. CASE CallerTrouble
    <2>1. Delivering /\ UNCHANGED fixture
      BY <1>7 DEF CallerTrouble, Delivering
    <2>2. CASE CommandFails
      <3>1. clock' = clock
        BY <2>2 DEF CommandFails
      <3>. QED  BY <2>1, <2>2, <3>1 DEF CallerMoves
    <2>3. CASE Interrupt
      BY <2>1, <2>3 DEF CallerMoves, Interrupt
    <2>4. CASE DialReply("uncertain")
      <3>1. clock' = clock
        BY <2>4 DEF DialReply
      <3>. QED  BY <2>1, <2>4, <3>1 DEF CallerMoves
    <2>. QED  BY <1>7, <2>2, <2>3, <2>4 DEF CallerTrouble
  <1>8. CASE FixtureTrouble
    <2>1. Delivering /\ UNCHANGED callerVars /\ FixtureSendFails(clock)
      BY <1>8 DEF FixtureTrouble, Delivering
    <2>2. Passes(fixture, fixture', FALSE)
      BY <1>1, <2>1, SendFails
    <2>. QED  BY <2>1, <2>2 DEF FixtureMoves, callerVars
  <1>9. CASE FixtureWatchdog
    <2>1. Delivering /\ UNCHANGED callerVars /\ FixtureTick(clock)
      BY <1>9 DEF FixtureWatchdog, Delivering, networkVars
    <2>2. Passes(fixture, fixture', FALSE)
      BY <1>1, <2>1, TicksOn
    <2>. QED  BY <2>1, <2>2 DEF FixtureMoves, callerVars
  <1>10. CASE OneSecond
    <2>1. /\ Delivering /\ UNCHANGED <<caller, flow>> /\ clock' = clock + 1
          /\ fixture' = [fixture EXCEPT !.due = fixture.phase = "open"]
      BY <1>10 DEF OneSecond, Second, Delivering
    <2>2. Passes(fixture, fixture', FALSE)
      BY <1>1, <2>1, WaitsASecond
    <2>. QED  BY <2>1, <2>2 DEF FixtureMoves
  <1>11. CASE Stops
    <2>1. /\ Delivering /\ UNCHANGED <<caller, flow, clock>> /\ FixtureBeginClose(clock)
      BY <1>11 DEF Stops, Delivering
    <2>2. Passes(fixture, fixture', FALSE)
      BY <1>1, <2>1, ClosesFixture
    <2>. QED  BY <2>1, <2>2 DEF FixtureMoves
  <1>12. CASE FixtureClosed
    <2>1. Delivering /\ UNCHANGED callerVars /\ FixtureEndClose
      BY <1>12 DEF FixtureClosed, Delivering, networkVars
    <2>2. Passes(fixture, fixture', FALSE)
      BY <1>1, <2>1, FixtureIsClosed
    <2>. QED  BY <2>1, <2>2 DEF FixtureMoves, callerVars
  <1>13. CASE ThenCallerCloses
    <2>1. Delivering /\ UNCHANGED <<fixture, clock>> /\ Running /\ BeginClose(caller)
      BY <1>13 DEF ThenCallerCloses, Delivering, networkVars, CallerToClose
    <2>. QED  BY <2>1 DEF CallerMoves
  <1>14. CASE UNCHANGED vars
    <2>1. Delivering /\ UNCHANGED callerVars /\ UNCHANGED fixture
      BY <1>14 DEF vars, networkVars, Delivering
    <2>. QED  BY <2>1 DEF CallerMoves, callerVars
  <1>. QED
    BY <1>2, <1>3, <1>4, <1>5, <1>6, <1>7, <1>8, <1>9, <1>10, <1>11, <1>12, <1>13, <1>14, Zenon
    DEF Next

LEMMA CallStays ==
    ASSUME CallKept, NetworkMoves \/ FixtureMoves \/ CallerMoves
    PROVE  CallKept'
  <1>1. /\ Holds(caller, flow) /\ clock \in Nat /\ clock \in Int /\ Keeps(fixture) /\ NetworkType
    BY DEF CallKept
  <1>2. CASE NetworkMoves
    <2>1. UNCHANGED <<caller, flow, clock, fixture>>
      BY <1>2 DEF NetworkMoves, callerVars
    <2>2. PICK c \in Calls : Reaction(c) /\ Telling(c)
      BY <1>2 DEF NetworkMoves
    <2>3. NetworkType'
      <3>1. line' \in Lines /\ told' \in Nat
        BY <2>2 DEF Reaction, Telling
      <3>2. keyed' \in Nat
        BY <1>1, <2>2 DEF Reaction, KeyedMore, NetworkType
      <3>3. toCaller' \subseteq EventType
        BY <1>1, <2>2 DEF Telling, NetworkType
      <3>4. toFixture' \subseteq FixtureEvents
        BY <1>1, <2>2 DEF Telling, NetworkType
      <3>. QED  BY <3>1, <3>2, <3>3, <3>4 DEF NetworkType, Lines, LineType
    <2>4. Holds(caller', flow') /\ clock' \in Nat /\ Keeps(fixture')
      BY <1>1, <2>1
    <2>. QED  BY <2>3, <2>4 DEF CallKept
  <1>3. ASSUME Delivering  PROVE NetworkType'
    BY <1>1, <1>3 DEF Delivering, NetworkType
  <1>4. CASE FixtureMoves
    <2>1. caller' = caller /\ flow' = flow /\ clock' \in {clock, clock + 1} /\ Delivering
      BY <1>4 DEF FixtureMoves
    <2>2. Keeps(fixture')
      BY <1>4 DEF FixtureMoves, Passes
    <2>3. Holds(caller', flow') /\ clock' \in Nat
      BY <1>1, <2>1
    <2>. QED  BY <1>3, <2>1, <2>2, <2>3 DEF CallKept
  <1>5. CASE CallerMoves
    <2>1. fixture' = fixture /\ clock' = clock /\ Delivering
      BY <1>5 DEF CallerMoves
    <2>2. Holds(caller', flow')
      <3>1. CASE Start
        BY <1>1, <3>1, Starts
      <3>2. CASE CommandFails
        BY <1>1, <3>2, CommandsFail DEF Onward
      <3>3. CASE Watchdog
        BY <1>1, <3>3, Watches DEF Onward
      <3>4. CASE Join
        BY <1>1, <3>4, Joins DEF Onward
      <3>5. CASE EndClose
        BY <1>1, <3>5, ClosesAtLast DEF Onward
      <3>6. CASE \E reply : DialReply(reply)
        BY <1>1, <3>6, DialReplies DEF Onward
      <3>7. CASE \E e \in toCaller, ours \in BOOLEAN : Accept(e, ours)
        <4>1. PICK e \in toCaller, ours \in BOOLEAN : Accept(e, ours)
          BY <3>7
        <4>2. e \in EventType
          BY <1>1 DEF NetworkType
        <4>. QED  BY <1>1, <4>1, <4>2, Accepts DEF Onward
      <3>8. CASE Running /\ BeginClose(caller)
        BY <1>1, <3>8, BeginsToClose DEF Onward, Running
      <3>9. CASE UNCHANGED <<caller, flow>>
        BY <1>1, <3>9
      <3>. QED  BY <1>5, <3>1, <3>2, <3>3, <3>4, <3>5, <3>6, <3>7, <3>8, <3>9 DEF CallerMoves
    <2>3. clock' \in Nat /\ Keeps(fixture')
      BY <1>1, <2>1
    <2>. QED  BY <1>3, <2>1, <2>2, <2>3 DEF CallKept
  <1>. QED  BY <1>2, <1>4, <1>5

LEMMA CallBegins == Init => CallKept
  <1>. SUFFICES ASSUME Init PROVE CallKept
    OBVIOUS
  <1>1. Holds(caller, flow)
    BY CallerBegins DEF Init
  <1>2. clock \in Nat
    BY DEF Init, CallerInit
  <1>3. Keeps(fixture)
    <2>1. fixture \in [active : {None}, seen : {{}}, tombstones : {{}}, busy : {{}},
                       phase : {"open"}, closeBy : {None}, due : {FALSE}, scenario : Scenarios]
      BY DEF Init, FixtureInit
    <2>2. fixture \in FixtureType
      <3>1. None \in Maybe(Conversations) /\ None \in Maybe(Int) /\ {} \in SUBSET Nat
            /\ {} \in SUBSET Calls /\ {} \in SUBSET [call : Calls, until : Int]
        BY DEF Maybe
      <3>. QED  BY <2>1, <3>1 DEF FixtureType
    <2>. QED  BY <2>1, <2>2 DEF Keeps, BusyWith
  <1>4. NetworkType
    <2>. DEFINE r == [state |-> "idle", took |-> 0, playing |-> None, since |-> 0, rest |-> <<>>]
    <2>1. r \in LineType
      <3>1. None \in Maybe(StageNames \cup {"speak"}) /\ <<>> \in Seq(Seq(Tokens))
        BY DEF Maybe
      <3>. QED  BY <3>1 DEF LineType
    <2>2. line = [c \in Calls |-> r] /\ toCaller = {} /\ toFixture = {} /\ told = 0 /\ keyed = 0
      BY DEF Init
    <2>. HIDE DEF r
    <2>. QED  BY <2>1, <2>2 DEF NetworkType, Lines
  <1>. QED  BY <1>1, <1>2, <1>3, <1>4 DEF CallKept

(* The caller, the test IVR and the line between them agree on what a call *)
(* is, whatever is delivered late, out of order, again or never.           *)
THEOREM BothEndsAgree == Spec => []CallKept
  <1>1. CallKept /\ [Next]_vars => CallKept'
    BY CallMoves, CallStays
  <1>. QED  BY <1>1, CallBegins, PTL DEF Spec

(* A call that is over, or was turned away, is never taken up again by a   *)
(* late or repeated callback, and one that is let go is remembered so      *)
(* (Fixture.accept, _sync).                                                *)
THEOREM CallsEndForGood == Spec => CallsEndOnce
  <1>. DEFINE Once ==
           /\ \A c \in fixture.tombstones :
                 fixture'.active # None /\ fixture'.active.call = c =>
                     fixture.active # None /\ fixture.active.call = c
           /\ Held(fixture) \ Held(fixture') \subseteq fixture'.tombstones
  <1>1. ASSUME CallKept, [Next]_vars  PROVE Once
    <2>1. CASE fixture' = fixture
      BY <2>1
    <2>2. ASSUME NEW right, Passes(fixture, fixture', right)  PROVE Once
      BY <2>2 DEF Passes, Leads, Held
    <2>. QED
      BY <1>1, <2>1, <2>2, CallMoves DEF NetworkMoves, FixtureMoves, CallerMoves
  <1>2. CallKept /\ [Next]_vars => [Once]_vars
    BY <1>1
  <1>. QED  BY <1>2, BothEndsAgree, PTL DEF Spec, CallsEndOnce
-----------------------------------------------------------------------------
(* What the caller did follows from what was said, of which some may still *)
(* be on its way: on the line, or told but not delivered.                  *)
Spoken(texts) ==
    /\ Founded(caller, flow, texts)
    /\ Told(toCaller, texts)
    /\ Range(line[OurCall].rest) \subseteq texts

FlowGoesOn == flow # None => flow' # None /\ Tones(flow) \subseteq Tones(flow')

LEMMA SpokenToCaller ==
    ASSUME CallKept, CallerMoves, NEW texts, Spoken(texts)
    PROVE  Founded(caller', flow', texts) /\ FlowGoesOn
  <1>1. /\ Holds(caller, flow) /\ clock \in Int /\ Founded(caller, flow, texts)
        /\ toCaller \subseteq EventType /\ Told(toCaller, texts)
    BY DEF CallKept, NetworkType, Spoken
  <1>2. ASSUME Stems(texts)  PROVE Founded(caller', flow', texts) /\ FlowGoesOn
    BY <1>2 DEF Stems, FlowGoesOn
  <1>3. CASE Start \/ Join
    BY <1>1, <1>2, <1>3, StemsFromBounds
  <1>4. CASE CommandFails \/ Watchdog
    BY <1>1, <1>2, <1>4, StemsFromTime
  <1>5. CASE EndClose
    BY <1>1, <1>2, <1>5, StemsFromEnd
  <1>6. CASE \E reply : DialReply(reply)
    BY <1>1, <1>2, <1>6, StemsFromReply
  <1>7. CASE \E e \in toCaller, ours \in BOOLEAN : Accept(e, ours)
    <2>1. PICK e \in toCaller, ours \in BOOLEAN : Accept(e, ours)
      BY <1>7
    <2>2. e \in EventType /\ Told({e}, texts)
      BY <1>1 DEF Told
    <2>. QED  BY <1>1, <1>2, <2>1, <2>2, StemsFromEvent
  <1>8. CASE Running /\ BeginClose(caller)
    BY <1>1, <1>2, <1>8, StemsFromClose
  <1>9. CASE UNCHANGED <<caller, flow>>
    BY <1>1, <1>2, <1>9, StemsStill
  <1>. QED  BY <1>3, <1>4, <1>5, <1>6, <1>7, <1>8, <1>9 DEF CallerMoves

LEMMA SpokenOn ==
    ASSUME CallKept, NetworkMoves \/ FixtureMoves \/ CallerMoves, NEW texts, Spoken(texts),
           NEW more, texts \subseteq more, Range(line'[OurCall].rest) \subseteq more
    PROVE  /\ Founded(caller', flow', more) /\ Told(toCaller', more) /\ FlowGoesOn
           /\ Range(line'[OurCall].rest) \subseteq more
  <1>1. /\ Founded(caller, flow, texts) /\ Told(toCaller, texts)
        /\ Range(line[OurCall].rest) \subseteq texts
    BY DEF Spoken
  <1>2. ASSUME UNCHANGED <<caller, flow>>  PROVE Founded(caller', flow', texts) /\ FlowGoesOn
    BY <1>1, <1>2 DEF FlowGoesOn
  <1>3. CASE NetworkMoves
    <2>1. UNCHANGED <<caller, flow>>
      BY <1>3 DEF NetworkMoves, callerVars
    <2>2. PICK c \in Calls : Telling(c)
      BY <1>3 DEF NetworkMoves
    <2>3. Told(toCaller', texts)
      BY <1>1, <2>2 DEF Telling, Told
    <2>. QED  BY <1>2, <2>1, <2>3, FoundedOnMore DEF Told
  <1>4. CASE FixtureMoves \/ CallerMoves
    <2>1. toCaller' \subseteq toCaller
      BY <1>4 DEF FixtureMoves, CallerMoves, Delivering
    <2>2. Told(toCaller', texts)
      BY <1>1, <2>1 DEF Told
    <2>3. Founded(caller', flow', texts) /\ FlowGoesOn
      BY <1>2, <1>4, SpokenToCaller DEF FixtureMoves
    <2>. QED  BY <2>2, <2>3, FoundedOnMore DEF Told
  <1>. QED  BY <1>3, <1>4


(* The stages whose prompts our call may have heard: those it was led to,  *)
(* and all of them once it is over.                                        *)
Led(fx) == fx.active # None /\ fx.active.call = OurCall

Begun(fx) ==
    {s \in DOMAIN StageSigns : \/ OurCall \in fx.tombstones
                               \/ Led(fx) /\ Rank[s] <= Reached[fx.active.stage]}

LEMMA RanksReached ==
    /\ \A s \in DOMAIN StageSigns : Rank[s] \in 1..6 /\ s \in DOMAIN Reached /\ Reached[s] = Rank[s]
    /\ \A g \in Conversations : Reached[g.stage] \in 0..7
  <1>1. \A s \in DOMAIN StageSigns : Rank[s] \in 1..6 /\ s \in DOMAIN Reached /\ Reached[s] = Rank[s]
    BY Ranks DEF Rank, Reached
  <1>2. \A g \in Conversations : g.stage \in StageNames
    BY DEF Conversations, StageNames, Prompts
  <1>. QED  BY <1>1, <1>2, StagesOfFixture

LEMMA BegunGrows ==
    ASSUME Keeps(fixture), NEW fy, NEW right, Passes(fixture, fy, right)
    PROVE  Begun(fixture) \subseteq Begun(fy)
  <1>1. SUFFICES ASSUME NEW s \in Begun(fixture)  PROVE s \in Begun(fy)
    OBVIOUS
  <1>2. s \in DOMAIN StageSigns /\ Rank[s] \in 1..6
    BY <1>1, RanksReached DEF Begun
  <1>3. CASE OurCall \in fixture.tombstones \/ OurCall \in fy.tombstones
    BY <1>2, <1>3 DEF Passes, Begun
  <1>4. CASE OurCall \notin fixture.tombstones /\ OurCall \notin fy.tombstones
    <2>. DEFINE g == fixture.active
                h == fy.active
    <2>1. g # None /\ g.call = OurCall /\ Rank[s] <= Reached[g.stage]
      BY <1>1, <1>4 DEF Begun, Led
    <2>2. h # None /\ Leads(g, h, right)
      BY <1>4, <2>1 DEF Passes
    <2>3. h.call = OurCall /\ Sound(g, fixture.scenario) /\ g \in Conversations
      BY <2>1, <2>2 DEF Leads, Keeps, Sound
    <2>4. Reached[g.stage] \in 0..7 /\ Reached["answering"] = 0
      BY <2>3, RanksReached, StagesOfFixture
    <2>5. Rank[s] <= Reached[h.stage]
      <3>. HIDE DEF g, h
      <3>1. \/ h = g \/ Reached[h.stage] = 7 \/ h.stage = g.stage \/ g.stage = "answering"
            \/ Reached[h.stage] = Reached[g.stage] + 1
        BY <2>2 DEF Leads
      <3>. QED  BY <1>2, <2>1, <2>4, <3>1
    <2>. QED  BY <1>2, <2>2, <2>3, <2>5 DEF Begun, Led
  <1>. QED  BY <1>3, <1>4

LEMMA OneStepOfFixture ==
    ASSUME CallKept, NetworkMoves \/ FixtureMoves \/ CallerMoves
    PROVE  \/ fixture' = fixture
           \/ \E right : Passes(fixture, fixture', right)
  BY DEF NetworkMoves, FixtureMoves, CallerMoves

(* What is said on the line are signs of the stages the call was led to.   *)
LEMMA OrdersAreVoiced ==
    ASSUME Keeps(fixture), Led(fixture), fixture.active.pending # None,
           fixture.active.pending.do \in {"gather", "speak"}
    PROVE  fixture.active.pending.says \in Seq(Voice(Begun(fixture)))
  <1>. DEFINE g == fixture.active
              stages == Begun(fixture)
  <1>1. g # None /\ Sound(g, fixture.scenario) /\ g \in Conversations /\ g.stage # "ended"
    BY DEF Led, Keeps, Sound
  <1>2. g.stage \in StageNames
    BY <1>1 DEF Conversations, StageNames, Prompts
  <1>3. ASSUME g.stage \in Prompts \cup {"result"}  PROVE g.stage \in stages
    <2>1. g.stage \in DOMAIN StageSigns
      BY <1>3, StagesOfFixture, Ranks
    <2>2. Rank[g.stage] <= Reached[g.stage]
      BY <2>1, RanksReached
    <2>. QED  BY <2>1, <2>2 DEF Begun
  <1>4. \/ g.stage \in Prompts /\ g.pending.says \in Prompting(g.stage)
        \/ g.stage = "result" /\ g.pending.says = Speech(fixture.scenario)
        \/ g.pending.says \in Apologies
    <2>. HIDE DEF g
    <2>1. g.pending # None /\ g.pending.do \in {"gather", "speak"}
      BY DEF g
    <2>. QED  BY <1>1, <1>2, <2>1 DEF Sound, Waits, Says, StageNames
  <1>. HIDE DEF stages, g
  <1>5. g.pending.says \in Seq(Voice(stages))
    BY <1>3, <1>4, SpeechIsVoiced, Zenon
  <1>. QED  BY <1>5 DEF stages, g

LEMMA LineIsVoiced ==
    ASSUME CallKept, NetworkMoves \/ FixtureMoves \/ CallerMoves,
           Range(line[OurCall].rest) \subseteq Seq(Voice(Begun(fixture)))
    PROVE  Range(line'[OurCall].rest) \subseteq Seq(Voice(Begun(fixture')))
  <1>. DEFINE V == Voice(Begun(fixture))
              W == Voice(Begun(fixture'))
  <1>1. Keeps(fixture)
    BY DEF CallKept
  <1>2. Begun(fixture) \subseteq Begun(fixture')
    BY <1>1, OneStepOfFixture, BegunGrows
  <1>3. V \subseteq W
    BY <1>2 DEF Voice
  <1>4. Seq(V) \subseteq Seq(W)
    <2>. HIDE DEF V, W
    <2>. QED  BY <1>3
  <1>5. Range(line'[OurCall].rest) \subseteq Seq(V)
    <2>1. CASE line' = line
      BY <2>1
    <2>2. ASSUME NEW c \in Calls, Reaction(c), fixture' = fixture
          PROVE  Range(line'[OurCall].rest) \subseteq Seq(V)
      <3>1. CASE c # OurCall
        BY <2>2, <3>1, IvrCallAssumption DEF Reaction
      <3>2. CASE Range(line'[c].rest) \subseteq Range(line[c].rest) /\ c = OurCall
        BY <3>2
      <3>3. CASE /\ c = OurCall
                 /\ TakesOrder(c) /\ fixture.active.pending.do \in {"gather", "speak"}
                 /\ line'[c].rest \in Finals(fixture.active.pending)
        <4>1. fixture.active.pending.says \in Seq(V)
          BY <1>1, <3>3, OrdersAreVoiced DEF TakesOrder, Led
        <4>2. "." \in V
          BY Voices, Zenon DEF PlainWords
        <4>. HIDE DEF V
        <4>3. line'[OurCall].rest \in Seq(Seq(V))
          BY <3>3, <4>1, <4>2, FinalsWithin
        <4>. DEFINE X == Seq(V)
        <4>4. \A r \in Seq(X) : Range(r) \subseteq X
          <5>. HIDE DEF X
          <5>. QED  BY DEF Range
        <4>. QED  BY <4>3, <4>4
      <3>. QED  BY <2>2, <3>1, <3>2, <3>3 DEF Reaction
    <2>. QED  BY <2>1, <2>2 DEF NetworkMoves, FixtureMoves, CallerMoves, Delivering
  <1>. QED  BY <1>4, <1>5


Heeding == Spoken(Seq(Voice(Begun(fixture))))

LEMMA HeedingStays ==
    ASSUME CallKept, NetworkMoves \/ FixtureMoves \/ CallerMoves, Heeding
    PROVE  Heeding' /\ FlowGoesOn
  <1>. DEFINE V == Voice(Begun(fixture))
              W == Voice(Begun(fixture'))
  <1>1. Range(line'[OurCall].rest) \subseteq Seq(W)
    BY LineIsVoiced DEF Heeding, Spoken
  <1>2. Seq(V) \subseteq Seq(W)
    <2>1. Begun(fixture) \subseteq Begun(fixture')
      BY OneStepOfFixture, BegunGrows DEF CallKept
    <2>2. V \subseteq W
      BY <2>1 DEF Voice
    <2>. HIDE DEF V, W
    <2>. QED  BY <2>2
  <1>3. Spoken(Seq(V))
    BY DEF Heeding
  <1>. DEFINE S == Seq(V)
              T == Seq(W)
  <1>. HIDE DEF S, T
  <1>4. /\ Founded(caller', flow', T) /\ Told(toCaller', T) /\ FlowGoesOn
        /\ Range(line'[OurCall].rest) \subseteq T
    <2>1. S \subseteq T /\ Spoken(S) /\ Range(line'[OurCall].rest) \subseteq T
      BY <1>1, <1>2, <1>3 DEF S, T
    <2>. QED  BY <2>1, SpokenOn
  <1>. QED  BY <1>4 DEF Heeding, Spoken, T

(* A callback is about a command the line took, and the line takes only    *)
(* those of a call that is led.                                            *)
Tokened ==
    /\ \A e \in toFixture : e.token <= line[e.call].took
    /\ Led(fixture) => line[OurCall].took <= fixture.active.commands
    /\ ~Led(fixture) /\ OurCall \notin fixture.tombstones => line[OurCall].took = 0

LEMMA TokenedStays ==
    ASSUME CallKept, NetworkMoves \/ FixtureMoves \/ CallerMoves, Tokened
    PROVE  Tokened'
  <1>1. /\ \A c \in Calls : line[c].took \in Nat
        /\ toFixture \subseteq FixtureEvents
        /\ \A e \in FixtureEvents : e.token \in Nat /\ e.call \in Calls
        /\ OurCall \in Calls /\ Keeps(fixture)
    BY IvrCallAssumption DEF CallKept, NetworkType, Lines, LineType, FixtureEvents
  <1>2. Led(fixture) => fixture.active.commands \in Nat
    BY <1>1 DEF Led, Keeps, Sound, Conversations
  <1>3. CASE NetworkMoves
    <2>1. PICK c \in Calls : Reaction(c) /\ Telling(c)
      BY <1>3 DEF NetworkMoves
    <2>2. fixture' = fixture
      BY <1>3 DEF NetworkMoves
    <2>3. line' \in Lines
      BY <2>1 DEF Reaction
    <2>4. \A d \in Calls : line'[d].took \in Nat
      BY <2>3 DEF Lines, LineType
    <2>5. /\ \A d \in Calls \ {c} : line'[d] = line[d]
          /\ \/ line'[c].took = line[c].took
             \/ /\ fixture.active # None /\ fixture.active.call = c
                /\ line[c].took < line'[c].took /\ line'[c].took = fixture.active.commands
      BY <1>1, <2>1 DEF Reaction, TakesOrder, Keeps, Sound, Waits
    <2>6. \A d \in Calls : line[d].took <= line'[d].took
      BY <1>1, <2>4, <2>5
    <2>7. \A e \in toFixture' : e.token <= line'[e.call].took
      <3>. SUFFICES ASSUME NEW e \in toFixture'  PROVE e.token <= line'[e.call].took
        OBVIOUS
      <3>1. CASE e \in toFixture
        BY <1>1, <2>4, <2>6, <3>1 DEF Tokened
      <3>2. CASE e \notin toFixture
        BY <2>1, <2>4, <3>2 DEF Telling
      <3>. QED  BY <3>1, <3>2
    <2>. QED  BY <1>1, <1>2, <2>2, <2>4, <2>5, <2>7 DEF Tokened, Led
  <1>4. CASE FixtureMoves
    <2>1. line' = line /\ toFixture' \subseteq toFixture
      BY <1>4 DEF FixtureMoves, Delivering
    <2>2. PICK right : Passes(fixture, fixture', right)
      BY <1>4 DEF FixtureMoves
    <2>. DEFINE g == fixture.active
                h == fixture'.active
    <2>3. fixture.tombstones \subseteq fixture'.tombstones
      BY <2>2 DEF Passes
    <2>4. CASE g = None
      BY <1>1, <2>1, <2>2, <2>3, <2>4 DEF Passes, Tokened, Led, Keeps, Sound, Conversations
    <2>5. CASE g # None
      <3>1. \/ h = None /\ g.call \in fixture'.tombstones
            \/ /\ h # None /\ h.call = g.call
               /\ h = g \/ h.commands >= g.commands
        BY <2>2, <2>5 DEF Passes, Leads
      <3>2. h # None => h.commands \in Nat
        BY <2>2 DEF Passes, Keeps, Sound, Conversations
      <3>. QED  BY <1>1, <1>2, <2>1, <2>3, <2>5, <3>1, <3>2 DEF Tokened, Led
    <2>. QED  BY <2>4, <2>5
  <1>5. CASE CallerMoves
    BY <1>5 DEF CallerMoves, Delivering, Tokened
  <1>. QED  BY <1>3, <1>4, <1>5

(* The first n tones were keyed, and arrived.                              *)
Toned(n) == n <= keyed /\ (n = 0 \/ (flow # None /\ 1..n \subseteq Tones(flow)))

(* The test IVR is at a stage only after the entries before it, and an     *)
(* entry for the stage it is at is one more.                               *)
Paced ==
    (Led(fixture) /\ Reached[fixture.active.stage] \in 1..6) =>
        /\ Toned(Reached[fixture.active.stage] - 1)
        /\ \A e \in toFixture : Keyed(e) => Toned(Reached[fixture.active.stage])


LEMMA TonedOnMore ==
    ASSUME NEW n \in Nat, Toned(n), keyed \in Nat, keyed' \in Nat, keyed <= keyed', FlowGoesOn
    PROVE  Toned(n)'
  BY DEF Toned, FlowGoesOn

(* Of the caller's commands one is a tone only if all before it are.       *)
LEMMA OneMoreToned ==
    ASSUME NEW n \in Nat, n <= keyed, keyed \in Nat, flow' = flow, KeyedMore,
           flow \in Flows, flow.issued[keyed'].do = "send_dtmf", NEW texts, Grounded(flow, texts)
    PROVE  Toned(n + 1)'
  <1>1. keyed' \in keyed + 1 .. Len(flow.issued) /\ keyed' \in Nat /\ n + 1 <= keyed'
    BY DEF KeyedMore, Flows, FlowType
  <1>2. keyed' \in Tones(flow)
    BY <1>1 DEF Tones, Flows, FlowType
  <1>3. 1..keyed' \subseteq Tones(flow)
    BY <1>2 DEF Grounded
  <1>4. 1..(n + 1) \subseteq Tones(flow) /\ flow # None
    BY <1>1, <1>3, NoneIsNoFlow
  <1>. QED  BY <1>1, <1>4 DEF Toned

LEMMA PacedOnLine ==
    ASSUME CallKept, NetworkMoves, Heeding, Paced
    PROVE  Paced'
  <1>1. PICK c \in Calls : Reaction(c) /\ Telling(c)
    BY DEF NetworkMoves
  <1>2. fixture' = fixture /\ flow' = flow
    BY DEF NetworkMoves, callerVars
  <1>3. /\ keyed \in Nat /\ toFixture \subseteq FixtureEvents /\ Keeps(fixture)
        /\ flow # None => flow \in Flows
    BY DEF CallKept, NetworkType, Holds
  <1>4. keyed' \in Nat /\ keyed <= keyed'
    <2>1. KeyedMore => keyed' \in keyed + 1 .. Len(flow.issued)
      BY DEF KeyedMore
    <2>. QED  BY <1>1, <1>3, <2>1 DEF Reaction
  <1>5. FlowGoesOn
    BY <1>2 DEF FlowGoesOn
  <1>6. SUFFICES ASSUME Led(fixture), NEW n \in 1..6, n = Reached[fixture.active.stage]
                 PROVE  Toned(n - 1)' /\ \A e \in toFixture' : Keyed(e)' => Toned(n)'
    BY <1>2 DEF Paced
  <1>7. /\ n \in Nat /\ n - 1 \in Nat /\ (n - 1) + 1 = n
        /\ Toned(n - 1) /\ \A e \in toFixture : Keyed(e) => Toned(n)
    BY <1>6 DEF Paced
  <1>8. Toned(n - 1)'
    BY <1>3, <1>4, <1>5, <1>7, TonedOnMore
  <1>9. ASSUME NEW e \in toFixture', Keyed(e)'  PROVE Toned(n)'
    <2>1. Keyed(e)
      BY <1>2, <1>9 DEF Keyed
    <2>2. CASE e \in toFixture
      BY <1>3, <1>4, <1>5, <1>7, <2>1, <2>2, TonedOnMore
    <2>3. CASE e \notin toFixture
      <3>1. e.status = "valid"
        BY <2>1 DEF Keyed, Enters
      <3>2. KeyedMore /\ flow.issued[keyed'].do = "send_dtmf"
        BY <1>1, <1>9, <2>3, <3>1 DEF Telling
      <3>3. flow # None /\ flow \in Flows
        BY <1>3, <3>2 DEF KeyedMore
      <3>. DEFINE texts == Seq(Voice(Begun(fixture)))
      <3>4. Grounded(flow, texts)
        BY <3>3 DEF Heeding, Spoken, Founded
      <3>5. n - 1 <= keyed
        BY <1>7 DEF Toned
      <3>. HIDE DEF texts
      <3>6. PICK m : m = n - 1
        OBVIOUS
      <3>7. Toned(m + 1)'
        BY <1>2, <1>3, <1>7, <3>2, <3>3, <3>4, <3>5, <3>6, OneMoreToned
      <3>. QED  BY <1>7, <3>6, <3>7
    <2>. QED  BY <2>2, <2>3
  <1>. QED  BY <1>8, <1>9

LEMMA PacedAtFixture ==
    ASSUME CallKept, FixtureMoves, Tokened, Paced
    PROVE  Paced'
  <1>1. /\ line' = line /\ toFixture' \subseteq toFixture /\ keyed' = keyed /\ flow' = flow
        /\ keyed \in Nat /\ toFixture \subseteq FixtureEvents
        /\ \A e \in toFixture : /\ e.token \in Nat /\ line[e.call].took \in Nat
                                 /\ e.token <= line[e.call].took
        /\ Keeps(fixture)
    BY DEF FixtureMoves, Delivering, CallKept, NetworkType, Lines, LineType, FixtureEvents, Tokened
  <1>. DEFINE g == fixture.active
              h == fixture'.active
  <1>2. SUFFICES ASSUME Led(fixture'), NEW n \in 1..6, n = Reached[h.stage]
                 PROVE  Toned(n - 1)' /\ \A e \in toFixture' : Keyed(e)' => Toned(n)'
    BY DEF Paced
  <1>3. PICK right : Passes(fixture, fixture', right)
                     /\ (right => \E e \in toFixture : Keyed(e))
    <2>1. CASE Passes(fixture, fixture', FALSE)
      BY <2>1
    <2>2. CASE \E e \in toFixture : Passes(fixture, fixture', Keyed(e))
      <3>1. PICK e \in toFixture : Passes(fixture, fixture', Keyed(e))
        BY <2>2
      <3>2. Keyed(e) => \E d \in toFixture : Keyed(d)
        OBVIOUS
      <3>. QED  BY <3>1, <3>2, Zenon
    <2>. QED  BY <2>1, <2>2 DEF FixtureMoves
  <1>4. (Toned(n - 1)' <=> Toned(n - 1)) /\ (Toned(n)' <=> Toned(n))
    BY <1>1 DEF Toned
  <1>5. Reached["answering"] = 0
    BY StagesOfFixture
  <1>6. g # None /\ g.call = OurCall /\ h.call = OurCall /\ Leads(g, h, right)
    BY <1>2, <1>3, <1>5 DEF Passes, Led, Leads
  <1>7. Led(fixture) /\ g \in Conversations /\ g.commands \in Nat /\ Reached[g.stage] \in 0..7
        /\ line[OurCall].took <= g.commands
    <2>1. Led(fixture) /\ g \in Conversations
      BY <1>1, <1>6 DEF Led, Keeps, Sound
    <2>. QED  BY <2>1, RanksReached DEF Conversations, Tokened
  <1>8. CASE h = g
    <2>1. \A e : Keyed(e)' => Keyed(e)
      BY <1>6, <1>8 DEF Keyed
    <2>2. Toned(n - 1) /\ \A e \in toFixture : Keyed(e) => Toned(n)
      BY <1>2, <1>7, <1>8 DEF Paced
    <2>. HIDE DEF g, h
    <2>. QED  BY <1>1, <1>4, <2>1, <2>2
  <1>9. CASE h # g
    <2>1. /\ h.commands > g.commands /\ h.commands \in Nat
          /\ \/ h.stage = g.stage
             \/ g.stage = "answering" /\ h.stage = "welcome"
             \/ right /\ Reached[h.stage] = Reached[g.stage] + 1
      BY <1>2, <1>6, <1>9 DEF Leads, Sound, Conversations
    <2>2. \A e \in toFixture' : ~Keyed(e)'
      <3>. SUFFICES ASSUME NEW e \in toFixture', Keyed(e)'  PROVE FALSE
        OBVIOUS
      <3>1. e.token = h.commands /\ e.call = OurCall
        BY <1>6 DEF Keyed, Enters
      <3>2. e.token \in Nat /\ line[OurCall].took \in Nat /\ e.token <= line[OurCall].took
        BY <1>1, <3>1
      <3>. HIDE DEF g, h
      <3>. QED  BY <1>7, <2>1, <3>1, <3>2
    <2>3. Toned(0)
      BY <1>1 DEF Toned
    <2>4. Toned(n - 1)
      <3>1. CASE h.stage = g.stage
        BY <1>2, <1>7, <3>1 DEF Paced
      <3>2. CASE g.stage = "answering" /\ h.stage = "welcome"
        <4>1. n - 1 = 0
          BY <1>2, <3>2 DEF Reached
        <4>. QED  BY <2>3, <4>1
      <3>3. CASE right /\ Reached[h.stage] = Reached[g.stage] + 1
        <4>1. PICK e \in toFixture : Keyed(e)
          BY <1>3, <3>3
        <4>2. n - 1 = Reached[g.stage]
          <5>. HIDE DEF g, h
          <5>. QED  BY <1>2, <1>7, <3>3
        <4>3. CASE Reached[g.stage] = 0
          BY <2>3, <4>2, <4>3
        <4>4. CASE Reached[g.stage] # 0
          <5>1. Reached[g.stage] \in 1..6
            <6>. HIDE DEF g, h
            <6>. QED  BY <1>2, <1>7, <3>3, <4>4
          <5>2. Toned(Reached[g.stage])
            BY <1>7, <4>1, <5>1 DEF Paced
          <5>. QED  BY <4>2, <5>2
        <4>. QED  BY <4>3, <4>4
      <3>. QED  BY <2>1, <3>1, <3>2, <3>3
    <2>. HIDE DEF g, h
    <2>. QED  BY <1>4, <2>2, <2>4
  <1>. QED  BY <1>8, <1>9

LEMMA PacedAtCaller ==
    ASSUME CallKept, CallerMoves, Paced, FlowGoesOn
    PROVE  Paced'
  <1>1. fixture' = fixture /\ keyed' = keyed /\ keyed \in Nat /\ toFixture' \subseteq toFixture
    BY DEF CallerMoves, Delivering, CallKept, NetworkType
  <1>2. SUFFICES ASSUME Led(fixture), NEW n \in 1..6, n = Reached[fixture.active.stage]
                 PROVE  Toned(n - 1)' /\ \A e \in toFixture' : Keyed(e)' => Toned(n)'
    BY <1>1 DEF Paced
  <1>3. /\ n \in Nat /\ n - 1 \in Nat
        /\ Toned(n - 1) /\ \A e \in toFixture : Keyed(e) => Toned(n)
    BY <1>2 DEF Paced
  <1>4. \A e : Keyed(e)' => Keyed(e)
    BY <1>1 DEF Keyed
  <1>5. Toned(n - 1)' /\ (Toned(n) => Toned(n)')
    BY <1>1, <1>3, TonedOnMore
  <1>. QED  BY <1>1, <1>3, <1>4, <1>5

-----------------------------------------------------------------------------
(* Throughout a call: the caller heard no prompt that was not played, and  *)
(* the test IVR no entry that was not keyed.                               *)
CallPaced == CallKept /\ Heeding /\ Tokened /\ Paced

LEMMA PaceBegins == Init => CallPaced
  <1>. SUFFICES ASSUME Init PROVE CallPaced
    OBVIOUS
  <1>1. CallKept
    BY CallBegins
  <1>2. /\ flow = None /\ caller.buffer = <<>> /\ caller.report = None
        /\ toCaller = {} /\ toFixture = {} /\ fixture.active = None
        /\ line[OurCall].rest = <<>> /\ line[OurCall].took = 0
    BY IvrCallAssumption DEF Init, CallerInit, FixtureInit
  <1>3. Heeding
    <2>. DEFINE texts == Seq(Voice(Begun(fixture)))
    <2>1. Told(Range(caller.buffer), texts) /\ Range(line[OurCall].rest) = {}
      BY <1>2, NothingTold DEF Range
    <2>. HIDE DEF texts
    <2>2. Spoken(texts)
      BY <1>2, <2>1 DEF Spoken, Founded, Told
    <2>. QED  BY <2>2 DEF Heeding, texts
  <1>4. Tokened /\ Paced
    BY <1>2 DEF Tokened, Paced, Led
  <1>. QED  BY <1>1, <1>3, <1>4 DEF CallPaced

LEMMA PaceStays == CallPaced /\ [Next]_vars => CallPaced'
  <1>. SUFFICES ASSUME CallPaced, [Next]_vars PROVE CallPaced'
    OBVIOUS
  <1>1. CallKept /\ Heeding /\ Tokened /\ Paced
    BY DEF CallPaced
  <1>2. NetworkMoves \/ FixtureMoves \/ CallerMoves
    BY <1>1, CallMoves
  <1>3. CallKept' /\ Heeding' /\ Tokened' /\ FlowGoesOn
    BY <1>1, <1>2, CallStays, HeedingStays, TokenedStays
  <1>4. Paced'
    BY <1>1, <1>2, <1>3, PacedOnLine, PacedAtFixture, PacedAtCaller
  <1>. QED  BY <1>3, <1>4 DEF CallPaced

(* What the caller acts on was spoken to it, and what the test IVR acts on *)
(* was keyed for the prompt it answers (Flow.handle, _on_transcript).      *)
THEOREM BothEndsKeepPace == Spec => []CallPaced
  BY PaceBegins, PaceStays, PTL DEF Spec

LEMMA Places ==
    ASSUME NEW stage \in DOMAIN StageSigns
    PROVE  Place(stage) = Reached[stage]
  <1>. DEFINE names == <<"welcome", "challenge", "menu", "identifier", "confirmation", "result">>
  <1>1. stage \in {"welcome", "challenge", "menu", "identifier", "confirmation", "result"}
    BY Ranks
  <1>2. \A i \in 1..6 : stage = names[i] <=> i = Reached[stage]
    BY <1>1, SMTT(30) DEF Reached
  <1>3. Reached[stage] \in 1..6
    BY RanksReached
  <1>. HIDE DEF names
  <1>4. (CHOOSE i \in 1..6 : stage = names[i]) = Reached[stage]
    BY <1>2, <1>3
  <1>. QED  BY <1>4 DEF Place, names

(* The test IVR is never ahead of the tones the caller keyed, nor the      *)
(* caller ahead of the prompts that were played: the tones are one for     *)
(* each stage before this one, or this one's too (_reserve_dtmf, handle).  *)
THEOREM NeitherIsAhead == Spec => []InStep
  <1>1. CallPaced => InStep
    <2>. SUFFICES ASSUME CallPaced, flow # None, Led(fixture),
                         fixture.active.stage \in DOMAIN StageSigns
                  PROVE  Cardinality(Tones(flow)) \in {Place(fixture.active.stage) - 1,
                                                       Place(fixture.active.stage)}
      BY DEF InStep, Led
    <2>1. PICK n \in 1..6 : n = Reached[fixture.active.stage] /\ n = Place(fixture.active.stage)
      BY RanksReached, Places
    <2>. DEFINE stages == Begun(fixture)
                texts == Seq(Voice(stages))
    <2>2. OurCall \notin fixture.tombstones
      BY DEF CallPaced, CallKept, Keeps, Led
    <2>3. \A s \in stages : Rank[s] <= n
      BY <2>1, <2>2 DEF Begun
    <2>4. Grounded(flow, texts)
      BY DEF CallPaced, Heeding, Spoken, Founded
    <2>5. Opens(texts) \subseteq stages
      BY OpensVoiced
    <2>6. 1..(n - 1) \subseteq Tones(flow)
      BY <2>1 DEF CallPaced, Paced, Toned
    <2>. HIDE DEF stages, texts
    <2>7. ASSUME NEW i \in Tones(flow)  PROVE i \in 1..n /\ 1..i \subseteq Tones(flow)
      <3>1. flow.issued[i].stage \in stages /\ Rank[flow.issued[i].stage] = i
            /\ 1..i \subseteq Tones(flow)
        BY <2>4, <2>5, <2>7 DEF Grounded
      <3>2. i \in Nat \ {0}
        <4>1. flow \in Flows
          BY DEF CallPaced, CallKept, Holds
        <4>. QED  BY <2>7, <4>1 DEF Tones, Flows, FlowType
      <3>. QED  BY <2>3, <3>1, <3>2
    <2>8. Tones(flow) = 1..(n - 1) \/ Tones(flow) = 1..n
      <3>1. CASE n \in Tones(flow)
        BY <2>7, <3>1
      <3>2. CASE n \notin Tones(flow)
        <4>1. Tones(flow) \subseteq 1..(n - 1)
          BY <2>7, <3>2
        <4>. QED  BY <2>6, <4>1
      <3>. QED  BY <3>1, <3>2
    <2>9. Cardinality(1..(n - 1)) = n - 1 /\ Cardinality(1..n) = n
      BY FS_Interval
    <2>. QED  BY <2>1, <2>8, <2>9
  <1>. QED  BY <1>1, BothEndsKeepPace, PTL

-----------------------------------------------------------------------------
(* What may be said to the caller before an announcement, and after it.    *)
LEMMA FinalsAreHeard ==
    ASSUME NEW cmd, NEW finals \in Finals(cmd)
    PROVE  HeardAs(cmd.says, finals)
  <1>1. CASE finals = <<cmd.says>>
    BY <1>1 DEF HeardAs
  <1>2. ASSUME NEW cut \in Cuts, NEW stop \in {<<>>, <<".">>}, cut < Len(cmd.says),
               finals = <<SubSeq(cmd.says, 1, cut) \o stop,
                          SubSeq(cmd.says, cut + 1, Len(cmd.says))>>
        PROVE  HeardAs(cmd.says, finals)
    <2>1. cut \in Nat /\ stop \in Silences
      BY IvrCallAssumption DEF Silences
    <2>. QED  BY <1>2, <2>1 DEF HeardAs
  <1>. QED  BY <1>1, <1>2, FinalsOf

LEMMA BeginsForeign ==
    ASSUME NEW t \in Seq(Tokens), NEW word \in Tokens,
           \/ \E i \in DOMAIN Rejections : Rejections[i][1] = word
           \/ \E s \in DOMAIN NextStage : word \in StageSigns[s]
    PROVE  Foreign(<<word>> \o t) /\ <<word>> \o t \in Seq(Tokens)
  <1>1. <<word>> \in Seq(Tokens) /\ <<word>> \o t \in Seq(Tokens)
    BY OfWords
  <1>2. Hears(<<word>>, word)
    BY DEF Hears, Contains
  <1>3. Foreign(<<word>>)
    BY <1>2 DEF Foreign
  <1>. QED  BY <1>1, <1>3, ForeignOn

LEMMA TwoWords ==
    \A a, b : <<a>> \o <<b>> = <<a, b>>
  <1>1. SUFFICES ASSUME NEW a, NEW b  PROVE <<a>> \o <<b>> = <<a, b>>
    OBVIOUS
  <1>2. PICK s : s = <<a>> \o <<b>>
    OBVIOUS
  <1>3. PICK t : t = <<a, b>>
    OBVIOUS
  <1>4. s \in Seq({a, b}) /\ Len(s) = 2 /\ s[1] = a /\ s[2] = b
    BY <1>2
  <1>5. t \in Seq({a, b}) /\ Len(t) = 2 /\ t[1] = a /\ t[2] = b
    BY <1>3
  <1>6. s = t
    BY <1>4, <1>5, SeqEqual
  <1>. QED  BY <1>2, <1>3, <1>6

LEMMA PromptIsForeign ==
    ASSUME NEW stage \in Prompts
    PROVE  Foreign(Prompt(stage, Challenge))
  <1>1. stage \in DOMAIN NextStage
    BY StagesOfFixture, Ranks
  <1>3. \A word \in StageSigns[stage] : Foreign(<<word>>) /\ <<word>> \in Seq(Tokens)
    <2>1. SUFFICES ASSUME NEW word \in StageSigns[stage]
                   PROVE  Foreign(<<word>>) /\ <<word>> \in Seq(Tokens)
      OBVIOUS
    <2>2. word \in Tokens
      BY <1>1, Ranks, Zenon DEF Tokens, Signs
    <2>3. Hears(<<word>>, word)
      BY DEF Hears, Contains
    <2>. QED  BY <1>1, <2>2, <2>3, OfWords DEF Foreign
  <1>4. \A digits \in Seq(0..9) : DigitWords(digits) \in Seq(Tokens)
    <2>1. Numbering \subseteq Tokens
      BY NumberingWords, TokenWords, Zenon
    <2>2. Seq(Numbering) \subseteq Seq(Tokens)
      <3>. QED  BY <2>1
    <2>. QED  BY <2>2, DigitsAreText
  <1>5. Challenge \in Seq(0..9) /\ SyntheticId \in Seq(0..9)
    BY IvrFixtureAssumption, IvrSpeechAssumption, SMT
  <1>6. \A t, u \in Seq(Tokens) : Foreign(t) => Foreign(t \o u) /\ t \o u \in Seq(Tokens)
    BY ForeignOn, OfWords
  <1>7. <<"enter code">> \in Seq(Tokens) /\ <<"1 if correct">> \in Seq(Tokens)
        /\ <<"2 for business">> \in Seq(Tokens)
    BY PhraseTokens, OfWords, Zenon
  <1>8. CASE stage = "welcome"
    <2>1. Foreign(<<"1 to continue">>)
      BY <1>3, <1>8, SignsOfStages, Zenon
    <2>. QED  BY <1>8, <2>1, Zenon DEF Prompt
  <1>9. CASE stage = "challenge"
    <2>. DEFINE D == DigitWords(Challenge)
    <2>1. Foreign(<<"code is">>) /\ <<"code is">> \in Seq(Tokens) /\ D \in Seq(Tokens)
      BY <1>3, <1>4, <1>5, <1>9, SignsOfStages, Zenon
    <2>. HIDE DEF D
    <2>2. Foreign(<<"code is">> \o D) /\ <<"code is">> \o D \in Seq(Tokens)
      BY <1>6, <2>1, Zenon
    <2>3. Foreign(<<"code is">> \o D \o <<"enter code">>)
      BY <1>6, <1>7, <2>2, Zenon
    <2>. QED  BY <1>9, <2>3, Zenon DEF Prompt, D
  <1>10. CASE stage = "menu"
    <2>1. Foreign(<<"1 for personal">>) /\ <<"1 for personal">> \in Seq(Tokens)
      BY <1>3, <1>10, SignsOfStages, Zenon
    <2>2. Foreign(<<"1 for personal">> \o <<"2 for business">>)
      BY <1>6, <1>7, <2>1, Zenon
    <2>. QED  BY <1>10, <2>2, TwoWords, Zenon DEF Prompt
  <1>11. CASE stage = "identifier"
    <2>1. Foreign(<<"9 digit personal id">>)
      BY <1>3, <1>11, SignsOfStages, Zenon
    <2>. QED  BY <1>11, <2>1, Zenon DEF Prompt
  <1>12. CASE stage = "confirmation"
    <2>. DEFINE D == DigitWords(SyntheticId)
    <2>1. Foreign(<<"you entered">>) /\ <<"you entered">> \in Seq(Tokens) /\ D \in Seq(Tokens)
      BY <1>3, <1>4, <1>5, <1>12, SignsOfStages, Zenon
    <2>. HIDE DEF D
    <2>2. Foreign(<<"you entered">> \o D) /\ <<"you entered">> \o D \in Seq(Tokens)
      BY <1>6, <2>1, Zenon
    <2>3. Foreign(<<"you entered">> \o D \o <<"1 if correct">>)
      BY <1>6, <1>7, <2>2, Zenon
    <2>. QED  BY <1>12, <2>3, Zenon DEF Prompt, D
  <1>. QED  BY <1>8, <1>9, <1>10, <1>11, <1>12, StagesOfFixture, Zenon

LEMMA PromptsAreForeign ==
    ASSUME NEW stage \in Prompts, NEW text \in Prompting(stage)
    PROVE  Foreign(text) /\ text \in Seq(Tokens)
  <1>. DEFINE P == Prompt(stage, Challenge)
  <1>1. P \in Seq(Tokens) /\ text \in {P, <<"not accepted">> \o P}
    BY SpeechIsText DEF Prompting
  <1>2. Foreign(P)
    BY PromptIsForeign
  <1>. HIDE DEF P
  <1>3. Rejections[1][1] = "not accepted" /\ 1 \in DOMAIN Rejections
    BY DEF Rejections
  <1>4. "not accepted" \in Tokens
    BY <1>3, Zenon DEF Tokens
  <1>. QED  BY <1>1, <1>2, <1>3, <1>4, BeginsForeign
LEMMA OneWord ==
    ASSUME NEW s \in Seq(Tokens), NEW t \in Seq(Tokens), Len(s) = 1, Len(t) = 1, s[1] = t[1]
    PROVE  s = t
  <1>1. \A i \in 1..Len(s) : s[i] = t[i]
    OBVIOUS
  <1>. QED  BY <1>1, SeqEqual

LEMMA ApologiesAreForeign ==
    ASSUME NEW says \in Apologies, NEW finals, HeardAs(says, finals)
    PROVE  Range(finals) \subseteq Sayable(<<>>)
  <1>1. PICK word, stop : /\ says = <<word, stop>> /\ stop = "."
                          /\ \E i \in DOMAIN Rejections : Rejections[i][1] = word
    <2>1. /\ Rejections[2][1] = "could not verify" /\ Rejections[3][1] = "not supported"
          /\ Rejections[4][1] = "service unavailable" /\ {2, 3, 4} \subseteq DOMAIN Rejections
      BY DEF Rejections
    <2>. QED  BY <2>1, Zenon DEF Apologies, Unavailable, Unverified, Business
  <1>2. word \in Tokens /\ stop \in Tokens
    BY <1>1, TokenWords, Zenon DEF Tokens
  <1>3. <<word>> \in Seq(Tokens) /\ <<stop>> \in Seq(Tokens) /\ says \in Seq(Tokens)
        /\ <<>> \in Seq(Tokens)
    BY <1>1, <1>2, OfWords
  <1>4. \A t \in Seq(Tokens) : Foreign(<<word>> \o t) /\ <<word>> \o t \in Seq(Tokens)
    BY <1>1, <1>2, BeginsForeign
  <1>5. says = <<word>> \o <<stop>> /\ <<word>> \o <<>> = <<word>>
    BY <1>1, TwoWords
  <1>6. says \in Sayable(<<>>)
    BY <1>3, <1>4, <1>5, Zenon DEF Sayable
  <1>7. \A s \in Silences : s \in Sayable(<<>>)
    BY <1>1, <1>3 DEF Sayable, Silences
  <1>8. \A s \in Silences : <<word>> \o s \in Sayable(<<>>)
    BY <1>1, <1>3, <1>4 DEF Sayable, Silences
  <1>9. CASE finals = <<>>
    BY <1>9 DEF Range
  <1>10. CASE finals = <<says>>
    BY <1>6, <1>10 DEF Range
  <1>11. ASSUME NEW cut \in Nat, NEW s \in Silences, cut < Len(says),
                finals = <<SubSeq(says, 1, cut) \o s, SubSeq(says, cut + 1, Len(says))>>
         PROVE  Range(finals) \subseteq Sayable(<<>>)
    <2>1. Range(finals) = {SubSeq(says, 1, cut) \o s, SubSeq(says, cut + 1, Len(says))}
      BY <1>11, RangeOfTwo
    <2>2. Len(says) = 2 /\ (cut = 0 \/ cut = 1) /\ says[1] = word /\ says[2] = stop
      BY <1>1, <1>11
    <2>3. s \in Seq(Tokens)
      BY <1>1, <1>3 DEF Silences
    <2>4. CASE cut = 0
      <3>1. SubSeq(says, 1, 0) = <<>> /\ SubSeq(says, 1, 2) = says
        BY <1>3, <2>2
      <3>2. <<>> \o s = s
        BY <2>3
      <3>3. 0 + 1 = 1
        OBVIOUS
      <3>. QED  BY <1>6, <1>7, <2>1, <2>2, <2>4, <3>1, <3>2, <3>3
    <2>5. CASE cut = 1
      <3>1. SubSeq(says, 1, 1) = <<word>>
        <4>1. SubSeq(says, 1, 1) \in Seq(Tokens) /\ Len(SubSeq(says, 1, 1)) = 1
              /\ SubSeq(says, 1, 1)[1] = word
          BY <1>3, <2>2
        <4>2. <<word>> \in Seq(Tokens) /\ Len(<<word>>) = 1 /\ <<word>>[1] = word
          BY <1>3
        <4>. QED  BY <4>1, <4>2, OneWord
      <3>2. SubSeq(says, 2, 2) = <<stop>>
        <4>1. SubSeq(says, 2, 2) \in Seq(Tokens) /\ Len(SubSeq(says, 2, 2)) = 1
              /\ SubSeq(says, 2, 2)[1] = stop
          BY <1>3, <2>2
        <4>2. <<stop>> \in Seq(Tokens) /\ Len(<<stop>>) = 1 /\ <<stop>>[1] = stop
          BY <1>3
        <4>. QED  BY <4>1, <4>2, OneWord
      <3>3. <<stop>> \in Silences
        BY <1>1 DEF Silences
      <3>4. 1 + 1 = 2
        OBVIOUS
      <3>. QED  BY <1>7, <1>8, <2>1, <2>2, <2>5, <3>1, <3>2, <3>3, <3>4
    <2>. QED  BY <2>2, <2>4, <2>5
  <1>. QED  BY <1>9, <1>10, <1>11 DEF HeardAs

(* What is recognized in what was said is the amount that was announced.   *)
LEMMA HeardIsAnnounced ==
    ASSUME NEW finals, NEW scenario, HeardAs(Speech(scenario), finals),
           NEW amount \in Amounts(Sayable(finals))
    PROVE  finals # <<>> /\ scenario # "unsupported_result" /\ amount = Amount
  <1>. DEFINE A == Speech(scenario)
  <1>1. finals # <<>>
    BY NoneHeard
  <1>2. CASE scenario = "unsupported_result"
    <2>1. A = Unpriced
      BY <1>2, Zenon DEF Speech, Unpriced, Opening
    <2>2. HeardAs(Unpriced, finals)
      BY <2>1
    <2>3. \E i, n \in Nat : Worth(Unpriced, i, n, amount)
      BY <2>2, NoneIsWorth, AmountsAreWorth
    <2>. QED  BY <2>3, NoneIsWorth
  <1>3. CASE scenario # "unsupported_result"
    <2>1. A = ResultPrompt(Amount) /\ A \in Seq(Tokens)
      BY <1>3, SpeechIsText, Zenon DEF Speech
    <2>2. HeardAs(A, finals)
      OBVIOUS
    <2>. HIDE DEF A
    <2>3. Amount \in Nat
      BY IvrFixtureAssumption, SMT
    <2>4. /\ Announces(A) /\ A[Len(A)] = "."
          /\ \A i, n \in Nat : \A other : Worth(A, i, n, other) => other = Amount
      BY <2>1, <2>3, AmountIsSmall, PromptIsWorth
    <2>5. \E i, n \in Nat : Worth(A, i, n, amount)
      BY <2>2, <2>4, AmountsAreWorth
    <2>. QED  BY <1>1, <1>3, <2>4, <2>5
  <1>. QED  BY <1>2, <1>3


(* The announcement was played out to the line: the network took it, and   *)
(* takes nothing more of the call but its hangup.                          *)
Played ==
    \/ OurCall \in fixture.tombstones
    \/ /\ Led(fixture)
       /\ \/ Reached[fixture.active.stage] = 7
          \/ fixture.active.stage = "result" /\ line[OurCall].took >= fixture.active.commands

Overheard(finals) ==
    /\ HeardAs(Speech(fixture.scenario), finals)
    /\ finals # <<>> =>
           Played /\ fixture.scenario \notin {"early_hangup", "silent_stage", "rejected_id"}

LEMMA StaysPlayed ==
    ASSUME CallKept, NetworkMoves \/ FixtureMoves \/ CallerMoves, Played
    PROVE  Played'
  <1>. DEFINE g == fixture.active
              h == fixture'.active
  <1>1. line \in Lines /\ OurCall \in Calls /\ Keeps(fixture)
    BY IvrCallAssumption DEF CallKept, NetworkType
  <1>2. line'[OurCall].took = line[OurCall].took \/ (fixture' = fixture /\ TakesOrder(OurCall))
    <2>1. CASE line' = line
      BY <2>1
    <2>2. ASSUME NEW c \in Calls, Reaction(c), fixture' = fixture
          PROVE  \/ line'[OurCall].took = line[OurCall].took
                 \/ (fixture' = fixture /\ TakesOrder(OurCall))
      BY <1>1, <2>2 DEF Reaction
    <2>. QED  BY <2>1, <2>2 DEF NetworkMoves, FixtureMoves, CallerMoves, Delivering, callerVars
  <1>3. CASE fixture' = fixture
    <2>1. CASE TakesOrder(OurCall)
      <3>1. Led(fixture) /\ g.pending # None /\ Sound(g, fixture.scenario)
            /\ line'[OurCall].took = g.pending.n
        BY <1>1, <2>1 DEF TakesOrder, Led, Keeps
      <3>2. g.pending.n = g.commands /\ g.commands \in Nat
        BY <3>1 DEF Sound, Waits, Conversations
      <3>. QED  BY <1>3, <3>1, <3>2 DEF Played, Led
    <2>2. CASE line'[OurCall].took = line[OurCall].took
      BY <1>3, <2>2 DEF Played, Led
    <2>. QED  BY <1>2, <2>1, <2>2
  <1>4. CASE fixture' # fixture
    <2>1. PICK right : Passes(fixture, fixture', right)
      BY <1>4, OneStepOfFixture
    <2>2. line'[OurCall].took = line[OurCall].took
      BY <1>2, <1>4
    <2>3. CASE OurCall \in fixture'.tombstones
      BY <2>3 DEF Played
    <2>4. CASE OurCall \notin fixture'.tombstones
      <3>1. g # None /\ g.call = OurCall /\ h # None /\ Leads(g, h, right)
        BY <2>1, <2>4 DEF Played, Passes, Led
      <3>2. h.call = OurCall /\ Sound(g, fixture.scenario) /\ g \in Conversations
            /\ g.stage \in StageNames
        BY <1>1, <3>1 DEF Leads, Keeps, Sound, Conversations, StageNames, Prompts
      <3>3. Reached[g.stage] \in 6..7
        BY <2>1, <2>4, StagesOfFixture DEF Played, Passes
      <3>4. h = g \/ Reached[h.stage] = 7
        <4>. HIDE DEF g, h
        <4>1. /\ \A s \in Prompts : Reached[s] \in 1..5
              /\ Reached["answering"] = 0
          BY StagesOfFixture
        <4>2. g.stage \notin Prompts /\ g.stage # "answering"
          BY <3>3, <4>1
        <4>3. h = g \/ Reached[h.stage] = 7 \/ Reached[h.stage] = Reached[g.stage] + 1
          BY <3>1, <4>2 DEF Leads
        <4>4. CASE Reached[h.stage] = Reached[g.stage] + 1
          <5>1. h = g \/ h \in Conversations
            BY <3>1 DEF Leads, Sound
          <5>2. h = g \/ Reached[h.stage] \in 0..7
            BY <5>1, RanksReached
          <5>. QED  BY <3>3, <4>4, <5>2
        <4>. QED  BY <4>3, <4>4
      <3>5. CASE h = g
        BY <2>2, <2>4, <3>1, <3>5, <2>1 DEF Played, Led, Passes
      <3>6. CASE Reached[h.stage] = 7
        BY <3>1, <3>2, <3>6 DEF Played, Led
      <3>. QED  BY <3>4, <3>5, <3>6
    <2>. QED  BY <2>3, <2>4
  <1>. QED  BY <1>3, <1>4


(* What the line has still to say is of the announcement, or says nothing. *)
LEMMA OrdersAreSayable ==
    ASSUME Keeps(fixture), TakesOrder(OurCall), fixture.active.pending.do \in {"gather", "speak"},
           NEW finals \in Finals(fixture.active.pending)
    PROVE  \/ Range(finals) \subseteq Sayable(<<>>)
           \/ /\ fixture.active.stage = "result" /\ finals # <<>>
              /\ HeardAs(Speech(fixture.scenario), finals)
              /\ fixture.scenario \notin {"early_hangup", "silent_stage", "rejected_id"}
  <1>. DEFINE g == fixture.active
              cmd == g.pending
  <1>1. g # None /\ Sound(g, fixture.scenario) /\ g.stage \in StageNames /\ cmd # None
    BY DEF TakesOrder, Keeps, Sound, Conversations, StageNames, Prompts
  <1>2. cmd.do \in {"gather", "speak"}
    OBVIOUS
  <1>3. HeardAs(cmd.says, finals)
    BY FinalsAreHeard
  <1>4. \/ g.stage \in Prompts /\ cmd.do = "gather" /\ cmd.says \in Prompting(g.stage)
        \/ g.stage = "result" /\ cmd.says = Speech(fixture.scenario)
        \/ cmd.says \in Apologies
    <2>. HIDE DEF g
    <2>. QED  BY <1>1, <1>2 DEF Sound, Waits, Says, StageNames
  <1>5. finals = <<cmd.says>> \/ cmd.do = "speak"
    BY FinalsOf
  <1>6. CASE g.stage \in Prompts /\ cmd.do = "gather" /\ cmd.says \in Prompting(g.stage)
    <2>1. finals = <<cmd.says>> /\ Foreign(cmd.says) /\ cmd.says \in Seq(Tokens)
      BY <1>5, <1>6, PromptsAreForeign
    <2>. QED  BY <2>1 DEF Range, Sayable
  <1>7. CASE g.stage = "result" /\ cmd.says = Speech(fixture.scenario)
    <2>1. finals # <<>>
      <3>1. \A a, b : <<a>> # <<>> /\ <<a, b>> # <<>>
        OBVIOUS
      <3>. QED  BY <3>1, FinalsOf
    <2>2. fixture.scenario \notin {"early_hangup", "silent_stage", "rejected_id"}
      <3>1. Reached["result"] = 6
        BY StagesOfFixture
      <3>. QED  BY <1>1, <1>7, <3>1 DEF Sound, Allows
    <2>. QED  BY <1>3, <1>7, <2>1, <2>2
  <1>8. CASE cmd.says \in Apologies
    BY <1>3, <1>8, ApologiesAreForeign
  <1>. QED  BY <1>4, <1>6, <1>7, <1>8

LEMMA LineIsSayable ==
    ASSUME CallKept, NetworkMoves \/ FixtureMoves \/ CallerMoves,
           NEW finals, Overheard(finals), Range(line[OurCall].rest) \subseteq Sayable(finals)
    PROVE  \E more : /\ Overheard(more)' /\ Sayable(finals) \subseteq Sayable(more)
                     /\ Range(line'[OurCall].rest) \subseteq Sayable(more)
  <1>1. Keeps(fixture)
    BY DEF CallKept
  <1>2. fixture'.scenario = fixture.scenario
    <2>1. CASE fixture' = fixture
      BY <2>1
    <2>2. ASSUME NEW right, Passes(fixture, fixture', right)
          PROVE  fixture'.scenario = fixture.scenario
      BY <2>2 DEF Passes
    <2>. QED  BY <2>1, <2>2, OneStepOfFixture
  <1>3. Overheard(finals)'
    BY <1>2, StaysPlayed DEF Overheard
  <1>4. Sayable(<<>>) \subseteq Sayable(finals)
    BY DEF Sayable, Range
  <1>5. CASE Range(line'[OurCall].rest) \subseteq Sayable(finals)
    BY <1>3, <1>5
  <1>6. CASE ~(Range(line'[OurCall].rest) \subseteq Sayable(finals))
    <2>1. /\ fixture' = fixture
          /\ TakesOrder(OurCall) /\ fixture.active.pending.do \in {"gather", "speak"}
          /\ line'[OurCall].rest \in Finals(fixture.active.pending)
      <3>1. CASE line' = line
        BY <1>6, <3>1
      <3>2. ASSUME NEW c \in Calls, Reaction(c), fixture' = fixture
            PROVE  /\ fixture' = fixture
                   /\ TakesOrder(OurCall) /\ fixture.active.pending.do \in {"gather", "speak"}
                   /\ line'[OurCall].rest \in Finals(fixture.active.pending)
        <4>1. c = OurCall
          BY <1>6, <3>2, IvrCallAssumption DEF Reaction
        <4>. QED  BY <1>6, <3>2, <4>1 DEF Reaction
      <3>. QED  BY <3>1, <3>2 DEF NetworkMoves, FixtureMoves, CallerMoves, Delivering, callerVars
    <2>0. PICK more : more = line'[OurCall].rest
      OBVIOUS
    <2>2. /\ fixture.active.stage = "result" /\ more # <<>>
          /\ HeardAs(Speech(fixture.scenario), more)
          /\ fixture.scenario \notin {"early_hangup", "silent_stage", "rejected_id"}
      BY <1>1, <1>4, <1>6, <2>0, <2>1, OrdersAreSayable
    <2>3. Led(fixture) /\ line'[OurCall].took >= fixture.active.commands /\ ~Played
      <3>1. Led(fixture) /\ fixture.active.pending # None /\ Sound(fixture.active, fixture.scenario)
            /\ line'[OurCall].took = fixture.active.pending.n
            /\ line[OurCall].took < fixture.active.pending.n
            /\ OurCall \notin fixture.tombstones
        BY <1>1, <2>1 DEF TakesOrder, Led, Keeps
      <3>2. fixture.active.pending.n = fixture.active.commands /\ fixture.active.commands \in Nat
        BY <3>1 DEF Sound, Waits, Conversations
      <3>3. Reached[fixture.active.stage] = 6
        BY <2>2, StagesOfFixture
      <3>4. line[OurCall].took \in Nat
        BY IvrCallAssumption DEF CallKept, NetworkType, Lines, LineType
      <3>. QED  BY <3>1, <3>2, <3>3, <3>4 DEF Played
    <2>4. finals = <<>>
      BY <2>3 DEF Overheard
    <2>5. Played'
      BY <2>1, <2>2, <2>3 DEF Played, Led
    <2>6. Overheard(more)'
      BY <2>1, <2>2, <2>5 DEF Overheard
    <2>7. Range(more) \subseteq Sayable(more)
      <3>1. more \in Seq(Seq(Tokens))
        BY <2>0, CallStays, IvrCallAssumption DEF CallKept, NetworkType, Lines, LineType
      <3>2. Range(more) \subseteq Seq(Tokens)
        <4>. DEFINE X == Seq(Tokens)
        <4>1. \A r \in Seq(X) : Range(r) \subseteq X
          <5>. HIDE DEF X
          <5>. QED  BY DEF Range
        <4>. QED  BY <3>1, <4>1
      <3>. QED  BY <3>2 DEF Sayable
    <2>8. Sayable(finals) \subseteq Sayable(more)
      BY <2>4 DEF Sayable, Range
    <2>. QED  BY <2>0, <2>6, <2>7, <2>8
  <1>. QED  BY <1>5, <1>6

-----------------------------------------------------------------------------
(* Throughout a call: what the caller heard, or may still hear, are        *)
(* prompts, apologies and the finals of the one announcement, if it was    *)
(* played.                                                                 *)
Informed == \E finals : Overheard(finals) /\ Spoken(Sayable(finals))

LEMMA InformedAtFirst == Init => Informed
  <1>. SUFFICES ASSUME Init PROVE Informed
    OBVIOUS
  <1>1. /\ flow = None /\ caller.buffer = <<>> /\ caller.report = None
        /\ toCaller = {} /\ line[OurCall].rest = <<>>
    BY IvrCallAssumption DEF Init, CallerInit, FixtureInit
  <1>2. Overheard(<<>>)
    BY DEF Overheard, HeardAs
  <1>. DEFINE texts == Sayable(<<>>)
  <1>3. Told(Range(caller.buffer), texts) /\ Range(line[OurCall].rest) = {}
    BY <1>1, NothingTold DEF Range
  <1>. HIDE DEF texts
  <1>4. Spoken(texts)
    BY <1>1, <1>3 DEF Spoken, Founded, Told
  <1>. QED  BY <1>2, <1>4 DEF Informed, texts

LEMMA StaysInformed == CallKept /\ Informed /\ [Next]_vars => Informed'
  <1>. SUFFICES ASSUME CallKept, Informed, [Next]_vars PROVE Informed'
    OBVIOUS
  <1>1. NetworkMoves \/ FixtureMoves \/ CallerMoves
    BY CallMoves
  <1>2. PICK finals : Overheard(finals) /\ Spoken(Sayable(finals))
    BY DEF Informed
  <1>3. PICK more : /\ Overheard(more)' /\ Sayable(finals) \subseteq Sayable(more)
                    /\ Range(line'[OurCall].rest) \subseteq Sayable(more)
    BY <1>1, <1>2, LineIsSayable DEF Spoken
  <1>4. PICK T : T = Sayable(more)
    OBVIOUS
  <1>5. PICK S : S = Sayable(finals)
    OBVIOUS
  <1>6. S \subseteq T /\ Spoken(S) /\ Range(line'[OurCall].rest) \subseteq T
    BY <1>2, <1>3, <1>4, <1>5
  <1>7. /\ Founded(caller', flow', T) /\ Told(toCaller', T)
        /\ Range(line'[OurCall].rest) \subseteq T
    BY <1>1, <1>6, SpokenOn
  <1>8. Spoken(T)'
    BY <1>7 DEF Spoken
  <1>. QED  BY <1>3, <1>4, <1>8 DEF Informed

(* What the caller heard, at whatever time, was spoken to it: nothing but  *)
(* prompts, apologies and one announcement, and that only if it was played *)
(* after every entry had been accepted (Flow.handle, _on_transcript).      *)
THEOREM NothingElseIsHeard == Spec => [](CallKept /\ Informed)
  <1>1. Init => CallKept /\ Informed
    BY CallBegins, InformedAtFirst
  <1>2. CallKept /\ Informed /\ [Next]_vars => (CallKept /\ Informed)'
    BY CallMoves, CallStays, StaysInformed
  <1>. QED  BY <1>1, <1>2, PTL DEF Spec

(* A success is the amount the test IVR announced, of a call in which it   *)
(* accepted every entry, however the finals were cut, late, lost, repeated *)
(* or reordered (parse_amount, recognize, _on_transcript).                 *)
THEOREM SuccessIsHeard == Spec => []SuccessIsTrue
  <1>1. CallKept /\ Informed => SuccessIsTrue
    <2>1. SUFFICES ASSUME CallKept, Informed, caller.report # None,
                          caller.report.status = "success"
                   PROVE  fixture.scenario = "normal" /\ caller.report.value = Amount
      BY DEF SuccessIsTrue
    <2>2. PICK finals : Overheard(finals) /\ Spoken(Sayable(finals))
      BY <2>1 DEF Informed
    <2>3. caller.report.value \in Amounts(Sayable(finals))
      BY <2>1, <2>2 DEF Spoken, Founded
    <2>4. finals # <<>> /\ fixture.scenario # "unsupported_result"
          /\ caller.report.value = Amount
      BY <2>2, <2>3, HeardIsAnnounced DEF Overheard
    <2>5. fixture.scenario \in {"normal", "early_hangup", "silent_stage", "rejected_id",
                                "unsupported_result"}
      <3>1. fixture.scenario \in Scenarios
        BY <2>1 DEF CallKept, Keeps, FixtureType
      <3>2. Scenarios \subseteq {"normal", "early_hangup", "silent_stage", "rejected_id",
                               "unsupported_result"}
        BY IvrFixtureAssumption, SMT
      <3>. QED  BY <3>1, <3>2
    <2>. QED  BY <2>2, <2>4, <2>5 DEF Overheard
  <1>. QED  BY <1>1, NothingElseIsHeard, PTL
=============================================================================

---------------------------- MODULE IvrCallerProofs ----------------------------
(***************************************************************************)
(* The automated caller, whatever it is told: what the grammar makes of a  *)
(* text, what the machine of a flow keeps, and what every step of the run  *)
(* keeps.                                                                  *)
(***************************************************************************)
EXTENDS IvrCaller, SequenceTheorems, FiniteSetTheorems, WellFoundedInduction,
        TLAPS

-----------------------------------------------------------------------------
(* Data.  What a recursive function over positions does is known once it   *)
(* exists, and it is built a position at a time.                           *)
LEMMA Least ==
    ASSUME NEW T \in SUBSET Nat, T # {}
    PROVE  \E x \in T : \A y \in T : x <= y
  <1>1. IsWellFoundedOn(OpToRel(<, Nat), Nat)
    BY NatLessThanWellFounded
  <1>2. \E x \in T : \A y \in T : <<y, x>> \notin OpToRel(<, Nat)
    <2>. HIDE DEF OpToRel
    <2>. QED  BY <1>1, WFMin
  <1>3. PICK x \in T : \A y \in T : <<y, x>> \notin OpToRel(<, Nat)
    BY <1>2
  <1>4. ASSUME NEW y \in T  PROVE x <= y
    <2>1. ~(y < x)
      BY <1>3, <1>4 DEF OpToRel
    <2>. QED  BY <2>1
  <1>. QED  BY <1>4

(* A set of positions that holds 0 and each position's successor.          *)
LEMMA AllPositions ==
    ASSUME NEW n \in Nat, NEW T, 0 \in T, \A i \in 0..(n - 1) : i \in T => i + 1 \in T
    PROVE  0..n \subseteq T
  <1>. DEFINE Missing == {i \in 0..n : i \notin T}
  <1>1. ASSUME Missing # {}  PROVE FALSE
    <2>1. Missing \in SUBSET Nat
      OBVIOUS
    <2>2. PICK i \in Missing : \A j \in Missing : i <= j
      <3>. HIDE DEF Missing
      <3>. QED  BY <1>1, <2>1, Least
    <2>3. i \in 1..n /\ i - 1 \in 0..(n - 1)
      BY <2>2
    <2>4. i - 1 \notin Missing
      BY <2>2, <2>3
    <2>5. i - 1 \in T
      BY <2>3, <2>4
    <2>6. (i - 1) + 1 \in T
      BY <2>3, <2>5
    <2>. QED  BY <2>2, <2>3, <2>6
  <1>. QED  BY <1>1

StaysIn(S, n, step) == \A i \in 1..n : \A x \in S : step[i][x] \in S

Follows(g, base, n, step) == g[0] = base /\ \A i \in 1..n : g[i] = step[i][g[i - 1]]

LEMMA Built ==
    ASSUME NEW S, NEW base \in S, NEW n \in Nat, NEW step, StaysIn(S, n, step)
    PROVE  \E g \in [0..n -> S] : Follows(g, base, n, step)
  <1>. USE DEF StaysIn, Follows
  <1>. DEFINE Made(i, g) == /\ g \in [0..i -> S] /\ g[0] = base
                            /\ \A j \in 1..i : g[j] = step[j][g[j - 1]]
              T == {i \in 0..n : \E g : Made(i, g)}
  <1>1. 0 \in T
    <2>. DEFINE h == [j \in 0..0 |-> base]
    <2>1. Made(0, h)
      OBVIOUS
    <2>2. \E g : Made(0, g)
      <3>. HIDE DEF Made, h
      <3>. QED  BY <2>1
    <2>. QED  BY <2>2
  <1>2. ASSUME NEW i \in 0..(n - 1), i \in T  PROVE i + 1 \in T
    <2>1. PICK g : Made(i, g)
      BY <1>2
    <2>2. i + 1 \in 1..n /\ g[i] \in S /\ step[i + 1][g[i]] \in S
      BY <2>1
    <2>. DEFINE h == [j \in 0..(i + 1) |-> IF j = i + 1 THEN step[i + 1][g[i]] ELSE g[j]]
    <2>3. h \in [0..(i + 1) -> S] /\ h[0] = base
      BY <2>1, <2>2
    <2>4. ASSUME NEW j \in 1..(i + 1)  PROVE h[j] = step[j][h[j - 1]]
      <3>1. CASE j = i + 1
        BY <3>1, <2>2
      <3>2. CASE j # i + 1
        <4>1. j \in 1..i /\ j - 1 \in 0..i
          BY <3>2
        <4>. QED  BY <4>1, <2>1
      <3>. QED  BY <3>1, <3>2
    <2>5. Made(i + 1, h)
      <3>. HIDE DEF h
      <3>. QED  BY <2>3, <2>4
    <2>6. \E f : Made(i + 1, f)
      <3>. HIDE DEF Made, h
      <3>. QED  BY <2>5
    <2>7. i + 1 \in 0..n
      OBVIOUS
    <2>. QED
      <3>. HIDE DEF Made
      <3>. QED  BY <2>6, <2>7
  <1>3. n \in T
    <2>. HIDE DEF T
    <2>1. 0..n \subseteq T
      BY <1>1, <1>2, AllPositions
    <2>. QED  BY <2>1
  <1>. QED  BY <1>3

(* What segments come to, one after the other: P holds of the first and    *)
(* goes on to hold as any of them is appended.                             *)
LEMMA FlattensWithin ==
    ASSUME NEW S, NEW P, <<>> \in P, S \subseteq P, \A t \in P : \A u \in S : t \o u \in P,
           NEW s \in Seq(S)
    PROVE  FlattenSeq(s) \in P
  <1>1. CASE Len(s) = 0
    <2>1. s = <<>>
      BY <1>1
    <2>. QED  BY <1>1, <2>1 DEF FlattenSeq
  <1>2. CASE Len(s) # 0
    <2>. DEFINE n == Len(s) - 1
                step == [i \in 1..n |-> [t \in P |-> t \o s[i + 1]]]
                flatten[i \in 1..Len(s)] == IF i = 1 THEN s[i] ELSE flatten[i - 1] \o s[i]
    <2>1. n \in Nat /\ s[1] \in P /\ \A i \in 1..n : s[i + 1] \in S
      BY <1>2
    <2>2. step \in [1..n -> [P -> P]]
      BY <2>1
    <2>3. PICK g \in [0..n -> P] : g[0] = s[1] /\ \A i \in 1..n : g[i] = step[i][g[i - 1]]
      <3>1. n \in Nat /\ s[1] \in P /\ StaysIn(P, n, step)
        BY <2>1, <2>2 DEF StaysIn
      <3>2. \E g \in [0..n -> P] : Follows(g, s[1], n, step)
        <4>. HIDE DEF n, step
        <4>. QED  BY <3>1, Built
      <3>. QED  BY <3>2 DEF Follows
    <2>. DEFINE h == [i \in 1..Len(s) |-> g[i - 1]]
    <2>4. h = [i \in 1..Len(s) |-> IF i = 1 THEN s[i] ELSE h[i - 1] \o s[i]]
      <3>1. ASSUME NEW i \in 1..Len(s)
            PROVE  h[i] = IF i = 1 THEN s[i] ELSE h[i - 1] \o s[i]
        <4>1. CASE i = 1
          BY <2>3, <4>1, <1>2
        <4>2. CASE i # 1
          <5>1. i - 1 \in 1..n /\ i - 1 \in 1..Len(s) /\ (i - 1) - 1 \in 0..n /\ (i - 1) + 1 = i
            BY <4>2
          <5>2. h[i] = g[i - 1] /\ h[i - 1] = g[(i - 1) - 1]
            BY <5>1
          <5>3. g[i - 1] = step[i - 1][g[(i - 1) - 1]]
            <6>. HIDE DEF step
            <6>1. i - 1 \in 0..n /\ i - 1 # 0
              BY <5>1
            <6>. QED  BY <2>3, <6>1
          <5>4. step[i - 1][g[(i - 1) - 1]] = g[(i - 1) - 1] \o s[i]
            BY <5>1, <2>3
          <5>. QED  BY <4>2, <5>2, <5>3, <5>4
        <4>. QED  BY <4>1, <4>2
      <3>. QED  BY <3>1
    <2>5. flatten = [i \in 1..Len(s) |-> IF i = 1 THEN s[i] ELSE flatten[i - 1] \o s[i]]
      <3>1. \E f : f = [i \in 1..Len(s) |-> IF i = 1 THEN s[i] ELSE f[i - 1] \o s[i]]
        <4>. HIDE DEF h
        <4>. QED  BY <2>4
      <3>. QED  BY <3>1, Zenon
    <2>. HIDE DEF flatten
    <2>. DEFINE T == {i \in 0..n : flatten[i + 1] \in P}
    <2>6. 0 \in T
      BY <2>1, <2>5, <1>2
    <2>7. ASSUME NEW i \in 0..(n - 1), i \in T  PROVE i + 1 \in T
      <3>1. (i + 1) + 1 \in 1..Len(s) /\ (i + 1) + 1 # 1 /\ ((i + 1) + 1) - 1 = i + 1
            /\ s[(i + 1) + 1] \in S
        BY <1>2
      <3>2. flatten[(i + 1) + 1] = flatten[i + 1] \o s[(i + 1) + 1]
        BY <2>5, <3>1
      <3>3. flatten[i + 1] \in P
        BY <2>7
      <3>4. flatten[(i + 1) + 1] \in P
        BY <3>1, <3>2, <3>3
      <3>5. i + 1 \in 0..n
        OBVIOUS
      <3>. QED  BY <3>4, <3>5
    <2>8. n \in T
      <3>. HIDE DEF T
      <3>1. 0..n \subseteq T
        BY <2>1, <2>6, <2>7, AllPositions
      <3>. HIDE DEF n
      <3>. QED  BY <2>1, <3>1
    <2>9. flatten[Len(s)] \in P
      BY <2>8
    <2>10. FlattenSeq(s) = flatten[Len(s)]
      BY <1>2, Zenon DEF FlattenSeq, flatten
    <2>. QED  BY <2>9, <2>10
  <1>. QED  BY <1>1, <1>2

(* The tokens of a flow's segments.                                        *)
LEMMA Flattened ==
    ASSUME NEW S, NEW s \in Seq(Seq(S))
    PROVE  FlattenSeq(s) \in Seq(S)
  <1>. DEFINE Q == Seq(S)
  <1>1. <<>> \in Q /\ \A t \in Q : \A u \in Q : t \o u \in Q
    OBVIOUS
  <1>. HIDE DEF Q
  <1>2. s \in Seq(Q) => FlattenSeq(s) \in Q
    BY <1>1, FlattensWithin
  <1>. QED  BY <1>2 DEF Q

LEMMA MaxIn ==
    ASSUME NEW n \in Nat, NEW T \in SUBSET (1..n), T # {}
    PROVE  Max(T) \in T /\ \A y \in T : y <= Max(T)
  <1>. DEFINE Back == {n - i : i \in T}
  <1>1. Back \in SUBSET Nat /\ Back # {}
    <2>1. \A i \in T : n - i \in Nat
      OBVIOUS
    <2>. QED  BY <2>1
  <1>2. PICK b \in Back : \A y \in Back : b <= y
    <2>. HIDE DEF Back
    <2>. QED  BY <1>1, Least
  <1>3. PICK x \in T : b = n - x
    BY <1>2
  <1>4. \A y \in T : x >= y
    <2>1. ASSUME NEW y \in T  PROVE x >= y
      <3>1. n - y \in Back
        OBVIOUS
      <3>2. n - x <= n - y
        BY <1>2, <1>3, <3>1
      <3>. QED  BY <3>2
    <2>. QED  BY <2>1
  <1>5. Max(T) \in T /\ \A y \in T : Max(T) >= y
    BY <1>4, Zenon DEF Max
  <1>. QED  BY <1>5

-----------------------------------------------------------------------------
(* What recognition comes to: digits to key, or an amount to report.       *)
Found(found, stage) ==
    \/ found = Pending
    \/ \E reason : found = Invalid(reason)
    \/ stage # "result" /\ \E digits \in Seq(0..9) : found = Complete(digits)
    \/ stage = "result" /\ \E amount \in Int : found = Complete(amount)

LEMMA ParsesDigits ==
    ASSUME NEW words, NEW length \in Nat
    PROVE  ParseDigits(words, length) \in Seq(0..9)
  <1>1. CASE Len(words) = length /\ \A i \in 1..length : \E d \in 0..9 : words[i] = Small[d + 1]
    <2>1. \A i \in 1..length : (CHOOSE d \in 0..9 : words[i] = Small[d + 1]) \in 0..9
      <3>. HIDE DEF Small
      <3>. QED  BY <1>1
    <2>. DEFINE digits == [i \in 1..length |-> (CHOOSE d \in 0..9 : words[i] = Small[d + 1])]
    <2>2. digits \in [1..length -> 0..9]
      BY <2>1, Zenon
    <2>3. digits \in Seq(0..9)
      <3>. HIDE DEF digits
      <3>. QED  BY <2>2
    <2>. QED  BY <1>1, <2>3, Zenon DEF ParseDigits
  <1>2. CASE ~(Len(words) = length /\ \A i \in 1..length : \E d \in 0..9 : words[i] = Small[d + 1])
    BY <1>2 DEF ParseDigits
  <1>. QED  BY <1>1, <1>2

LEMMA FindsAny ==
    ASSUME NEW stage
    PROVE  /\ Found(Pending, stage)
           /\ \A reason : Found(Invalid(reason), stage)
           /\ stage # "result" => \A digits \in Seq(0..9) : Found(Complete(digits), stage)
           /\ stage = "result" => \A amount \in Int : Found(Complete(amount), stage)
  BY Zenon DEF Found

LEMMA FindsChoice ==
    ASSUME NEW text, NEW right, NEW wrong, NEW digits \in Seq(0..9),
           NEW stage, stage # "result"
    PROVE  Found(RecognizeChoice(text, right, wrong, digits), stage)
  BY FindsAny DEF RecognizeChoice

LEMMA FindsChallenge ==
    ASSUME NEW text  PROVE Found(RecognizeChallenge(text), "challenge")
  <1>1. ParseDigits(Span(text, "code is", "enter code"), CodeLength) \in Seq(0..9)
    BY ParsesDigits, IvrSpeechAssumption
  <1>. QED  BY <1>1, FindsAny DEF RecognizeChallenge

LEMMA FindsConfirmation ==
    ASSUME NEW text  PROVE Found(RecognizeConfirmation(text), "confirmation")
  <1>1. <<1>> \in Seq(0..9)
    OBVIOUS
  <1>. QED  BY <1>1, FindsAny DEF RecognizeConfirmation

LEMMA ParsesAmount ==
    ASSUME NEW words  PROVE ParseAmount(words) \in Int
  <1>1. \A w, maximum : Integer(w, maximum) \in Int
    BY DEF Integer, AtMost
  <1>2. \A body, i, end : InCents(Parts(body, i, end)) \in Int
    BY <1>1 DEF InCents, Parts
  <1>. QED  BY <1>2 DEF ParseAmount

LEMMA FindsResult ==
    ASSUME NEW text \in Seq(Tokens)
    PROVE  Found(RecognizeResult(text), "result")
  <1>. DEFINE starts == {i \in DOMAIN text : text[i] = "value is"}
              End(i) == Min({j - 1 : j \in {k \in starts : k > i}} \cup {Len(text)})
              said == [i \in starts |-> SubSeq(text, i + 1, End(i))]
              amounts == [i \in starts |-> ParseAmount(said[i])]
  <1>1. CASE starts = {}
    <2>1. RecognizeResult(text) = Pending
      BY <1>1, Zenon DEF RecognizeResult
    <2>. QED  BY <2>1, FindsAny
  <1>2. CASE starts # {} /\ 1 \notin starts
    <2>1. RecognizeResult(text) = Invalid("result_unrecognized")
      BY <1>2, Zenon DEF RecognizeResult
    <2>. QED  BY <2>1, FindsAny
  <1>3. CASE starts # {} /\ 1 \in starts
    <2>1. Len(text) \in Nat /\ starts \in SUBSET (1..Len(text))
      <3>1. DOMAIN text = 1..Len(text) /\ Len(text) \in Nat
        OBVIOUS
      <3>2. starts \in SUBSET DOMAIN text
        OBVIOUS
      <3>. QED  BY <3>1, <3>2
    <2>2. Max(starts) \in starts
      <3>. HIDE DEF starts
      <3>. QED  BY <1>3, <2>1, MaxIn
    <2>3. amounts[Max(starts)] \in Int
      <3>. HIDE DEF starts, said
      <3>. QED  BY <2>2, ParsesAmount
    <2>4. DOMAIN said = starts
      OBVIOUS
    <2>5. Found(Announced(said, amounts), "result")
      <3>. HIDE DEF starts, said, amounts
      <3>. QED  BY <2>3, <2>4, FindsAny DEF Announced
    <2>6. RecognizeResult(text) = Announced(said, amounts)
      BY <1>3, Zenon DEF RecognizeResult
    <2>. QED  BY <2>5, <2>6
  <1>. QED  BY <1>1, <1>2, <1>3

LEMMA Recognizes ==
    ASSUME NEW stage \in DOMAIN StageSigns, NEW text \in Seq(Tokens)
    PROVE  Found(Recognize(stage, text), stage)
  <1>. DEFINE heard == {i \in DOMAIN Rejections : Hears(text, Rejections[i][1])}
  <1>2. CASE heard # {}
    <2>1. Recognize(stage, text) = Invalid(Rejections[Min(heard)][2])
      BY <1>2, Zenon DEF Recognize
    <2>. QED  BY <2>1, FindsAny
  <1>3. CASE heard = {} /\ Cardinality(StagesPresent(text)) > 1
    <2>1. Recognize(stage, text) = Invalid("ambiguous")
      BY <1>3, Zenon DEF Recognize
    <2>. QED  BY <2>1, FindsAny
  <1>4. CASE heard = {} /\ ~(Cardinality(StagesPresent(text)) > 1)
    <2>1. stage \in {"welcome", "challenge", "menu", "identifier", "confirmation", "result"}
      BY DEF StageSigns
    <2>2. <<1>> \in Seq(0..9) /\ SyntheticId \in Seq(0..9)
      BY IvrSpeechAssumption
    <2>. DEFINE found == Recognize(stage, text)
    <2>3. /\ stage = "welcome" =>
                 found = RecognizeChoice(text, {"1 to continue"}, {"other to continue"}, <<1>>)
          /\ stage = "challenge" => found = RecognizeChallenge(text)
          /\ stage = "menu" =>
                 found = RecognizeChoice(text, {"1 for personal", "2 for business"},
                                         {"other for personal", "other for business"}, <<1>>)
          /\ stage = "identifier" =>
                 found = RecognizeChoice(text, {"9 digit personal id"},
                                         {"other digit personal id"}, SyntheticId)
          /\ stage = "confirmation" => found = RecognizeConfirmation(text)
          /\ stage = "result" => found = RecognizeResult(text)
      BY <1>4 DEF Recognize
    <2>. HIDE DEF found
    <2>4. stage \in {"welcome", "menu", "identifier"} => Found(found, stage)
      BY <2>2, <2>3, FindsChoice
    <2>5. stage = "challenge" => Found(found, stage)
      BY <2>3, FindsChallenge
    <2>6. stage = "confirmation" => Found(found, stage)
      BY <2>3, FindsConfirmation
    <2>7. stage = "result" => Found(found, stage)
      BY <2>3, FindsResult
    <2>8. Found(found, stage)
      BY <2>1, <2>4, <2>5, <2>6, <2>7
    <2>. QED  BY <2>8 DEF found
  <1>. QED  BY <1>2, <1>3, <1>4

-----------------------------------------------------------------------------
(* The invariant of a flow.                                                *)
Rank == [dialing |-> 0, welcome |-> 1, challenge |-> 2, menu |-> 3, identifier |-> 4,
         confirmation |-> 5, result |-> 6, hanging_up |-> 7, ended |-> 7]

Hangs(f) == \E i \in DOMAIN f.issued : f.issued[i].do = "hangup"

(* A verdict is taken when the call is let go, not before.                 *)
Decisive(f) == f.result # None <=> f.stage \in {"hanging_up", "ended"}

(* Only the last command can be pending.                                   *)
Pends(f) == f.pending # None => f.pending = Len(f.issued) /\ f.pending # 0

HangsLast(f) ==
    /\ Hangs(f) => f.stage \in {"hanging_up", "ended"}
    /\ f.stage = "hanging_up" => Hangs(f)

LetGo(f) ==
    f.stage = "ended" => Hangs(f) \/ f.remoteHungAt # None \/ f.result.code = "early_hangup"

(* What was heard has a time, and no tone is of a later one than was       *)
(* consumed, nor of a later stage than the one that is on.                 *)
Timed(f) == f.heard # <<>> => f.last # None

TonesBefore(f) ==
    \A i \in Tones(f) :
        /\ Rank[f.issued[i].stage] < Rank[f.stage]
        /\ f.stage # "ended" => f.consumed # None /\ f.issued[i].at <= f.consumed

TonesOrdered(f) ==
    \A i, j \in Tones(f) :
        i < j => /\ f.issued[i].at <= f.issued[j].at
                 /\ Rank[f.issued[i].stage] < Rank[f.issued[j].stage]

Base(f) == Pends(f) /\ HangsLast(f) /\ Timed(f) /\ TonesBefore(f) /\ TonesOrdered(f)

Flows == {f \in FlowType : Base(f) /\ Decisive(f) /\ LetGo(f)}

(* One flow comes after another: its verdict, if it has one, stands.       *)
Moves(f, g) == g \in Flows /\ (f.result # None => g.result = f.result)

LEMMA Ranks ==
    /\ DOMAIN NextStage = {"welcome", "challenge", "menu", "identifier", "confirmation"}
    /\ DOMAIN StageSigns = DOMAIN NextStage \cup {"result"}
    /\ Stages = DOMAIN NextStage \cup {"dialing", "result", "hanging_up", "ended"}
    /\ \A s \in Stages : Rank[s] \in 0..7
    /\ \A s \in DOMAIN NextStage : Rank[s] \in 1..5
    /\ \A s \in DOMAIN NextStage : NextStage[s] \in Stages /\ Rank[NextStage[s]] = Rank[s] + 1
    /\ \A s \in DOMAIN NextStage : NextStage[s] \notin {"hanging_up", "ended"}
    /\ Rank["dialing"] = 0 /\ Rank["ended"] = 7 /\ Rank["hanging_up"] = 7
    /\ Rank["result"] = 6
  BY DEF Rank, NextStage, StageSigns, Stages

LEMMA ErrorsAreResults ==
    ASSUME NEW reason, NEW stage
    PROVE  /\ ErrorResult(reason, stage) \in Results
           /\ ErrorResult(reason, stage).status = "error"
  BY DEF ErrorResult, Results, PublicStages, PublicErrors, Alias

LEMMA Appended ==
    ASSUME NEW s \in Seq(Commands), NEW c \in Commands
    PROVE  /\ Append(s, c) \in Seq(Commands)
           /\ DOMAIN s = 1..Len(s) /\ Len(s) \in Nat
           /\ DOMAIN Append(s, c) = 1..(Len(s) + 1)
           /\ Len(Append(s, c)) = Len(s) + 1
           /\ Append(s, c)[Len(s) + 1] = c
           /\ \A i \in 1..Len(s) : Append(s, c)[i] = s[i]
  OBVIOUS

LEMMA Decides ==
    ASSUME NEW f \in FlowType, NEW r \in Results
    PROVE  /\ Decided(f, r) \in FlowType
           /\ Decided(f, r).result = IF f.result = None THEN r ELSE f.result
           /\ Decided(f, r).result # None
           /\ Decided(f, r).stage = f.stage
           /\ Decided(f, r).remoteHungAt = f.remoteHungAt
           /\ Base(f) => Base(Decided(f, r))
           /\ Hangs(Decided(f, r)) <=> Hangs(f)
  <1>1. r # None
    BY IvrFlowAssumption
  <1>2. CASE f.result # None
    BY <1>2, Zenon DEF Decided
  <1>3. CASE f.result = None
    <2>. DEFINE g == [f EXCEPT !.result = r]
    <2>1. Decided(f, r) = g
      BY <1>3 DEF Decided
    <2>2. g \in FlowType
      BY DEF FlowType, Maybe
    <2>3. /\ g.result = r /\ g.stage = f.stage /\ g.remoteHungAt = f.remoteHungAt
          /\ g.issued = f.issued /\ g.pending = f.pending /\ g.heard = f.heard
          /\ g.last = f.last /\ g.consumed = f.consumed
      BY DEF FlowType
    <2>. HIDE DEF g
    <2>4. Base(f) => Base(g)
      BY <2>3, Zenon DEF Base, Pends, HangsLast, Timed, TonesBefore, TonesOrdered, Tones, Hangs
    <2>5. Hangs(g) <=> Hangs(f)
      BY <2>3, Zenon DEF Hangs
    <2>. QED  BY <1>1, <1>3, <2>1, <2>2, <2>3, <2>4, <2>5
  <1>. QED  BY <1>2, <1>3

(* The end of a flow whose verdict is taken and which was let go.          *)
LEMMA EndsFlow ==
    ASSUME NEW f \in FlowType, Base(f), f.result # None,
           Hangs(f) \/ f.remoteHungAt # None \/ f.result.code = "early_hangup"
    PROVE  /\ Ended(f) \in Flows
           /\ Ended(f).result = f.result
           /\ Ended(f).stage = "ended"
  <1>. DEFINE g == Ended(f)
  <1>1. g \in FlowType
    <2>1. "ended" \in Stages /\ None \in Maybe(Nat) /\ <<>> \in Seq(Seq(Tokens))
      BY DEF Stages, Maybe
    <2>. QED  BY <2>1 DEF Ended, FlowType
  <1>2. /\ g.stage = "ended" /\ g.pending = None /\ g.heard = <<>> /\ g.result = f.result
        /\ g.remoteHungAt = f.remoteHungAt /\ g.issued = f.issued
    BY DEF Ended, FlowType
  <1>. HIDE DEF g
  <1>3. Pends(g) /\ HangsLast(g) /\ Timed(g) /\ Decisive(g) /\ LetGo(g)
    BY <1>2 DEF Pends, HangsLast, Timed, Decisive, LetGo, Hangs
  <1>4. TonesOrdered(g)
    BY <1>2, Zenon DEF Base, TonesOrdered, Tones
  <1>5. TonesBefore(g)
    <2>1. ASSUME NEW i \in Tones(g)  PROVE Rank[g.issued[i].stage] < Rank[g.stage]
      <3>1. f.issued[i] \in Commands /\ f.issued[i].do = "send_dtmf"
        BY <1>2 DEF FlowType, Tones
      <3>2. f.issued[i].stage \in DOMAIN NextStage
        BY <3>1 DEF Commands
      <3>. QED  BY <1>2, <3>2, Ranks
    <2>. QED  BY <1>2, <2>1 DEF TonesBefore
  <1>6. g \in Flows
    BY <1>1, <1>3, <1>4, <1>5 DEF Flows, Base
  <1>. QED  BY <1>2, <1>6 DEF g

LEMMA HangsUp ==
    ASSUME NEW f \in FlowType, Base(f), f.result # None, f.stage # "ended", NEW now \in Int
    PROVE  /\ HangUp(f, now) \in Flows
           /\ HangUp(f, now).result = f.result
           /\ HangUp(f, now).stage = "hanging_up"
  <1>. DEFINE g == HangUp(f, now)
              h == [do |-> "hangup"]
              n == Len(f.issued)
  <1>1. h \in Commands /\ h.do = "hangup"
    BY DEF Commands
  <1>2. f.issued \in Seq(Commands)
    BY DEF FlowType
  <1>3. /\ g.issued = Append(f.issued, h) /\ g.pending = n + 1 /\ g.heard = <<>>
        /\ g.stage = "hanging_up" /\ g.hungAt = now /\ g.result = f.result
        /\ g.consumed = f.consumed
    BY DEF HangUp, Reserve, FlowType
  <1>4. g \in FlowType
    <2>. HIDE DEF h
    <2>1. /\ Append(f.issued, h) \in Seq(Commands) /\ n + 1 \in Maybe(Nat) /\ now \in Maybe(Int)
          /\ "hanging_up" \in Stages /\ <<>> \in Seq(Seq(Tokens))
      BY <1>1, <1>2, Appended DEF Maybe, Stages
    <2>2. g = [[f EXCEPT !.issued = Append(f.issued, h), !.pending = n + 1, !.heard = <<>>]
                  EXCEPT !.stage = "hanging_up", !.hungAt = now]
      BY DEF HangUp, Reserve, h
    <2>. HIDE DEF g, n
    <2>. QED  BY <2>1, <2>2 DEF FlowType
  <1>. HIDE DEF g, h
  <1>5. /\ DOMAIN f.issued = 1..n /\ n \in Nat /\ DOMAIN g.issued = 1..(n + 1)
        /\ Len(g.issued) = n + 1 /\ g.issued[n + 1] = h
        /\ \A i \in 1..n : g.issued[i] = f.issued[i]
    BY <1>1, <1>2, <1>3, Appended
  <1>6. Hangs(g)
    BY <1>1, <1>5 DEF Hangs
  <1>7. Tones(g) = Tones(f)
    BY <1>1, <1>5 DEF Tones
  <1>8. \A i \in Tones(g) : i \in Tones(f) /\ g.issued[i] = f.issued[i]
    BY <1>5, <1>7 DEF Tones
  <1>9. TonesOrdered(g)
    <2>. HIDE DEF n
    <2>. QED  BY <1>8, Zenon DEF Base, TonesOrdered
  <1>10. TonesBefore(g)
    <2>1. ASSUME NEW i \in Tones(g)
          PROVE  /\ Rank[g.issued[i].stage] < Rank[g.stage]
                 /\ g.consumed # None /\ g.issued[i].at <= g.consumed
      <3>1. f.issued[i] \in Commands /\ f.issued[i].do = "send_dtmf"
        BY <1>8, <1>2 DEF Tones
      <3>2. f.issued[i].stage \in DOMAIN NextStage
        BY <3>1 DEF Commands
      <3>3. f.consumed # None /\ f.issued[i].at <= f.consumed
        BY <1>8 DEF Base, TonesBefore
      <3>4. Rank[f.issued[i].stage] \in 1..5 /\ Rank["hanging_up"] = 7
        BY <3>2, Ranks
      <3>5. g.consumed = f.consumed /\ g.issued[i] = f.issued[i] /\ g.stage = "hanging_up"
        BY <1>3, <1>8
      <3>. QED  BY <3>3, <3>4, <3>5
    <2>. QED  BY <2>1 DEF TonesBefore
  <1>11. Pends(g) /\ HangsLast(g) /\ Timed(g) /\ Decisive(g) /\ LetGo(g)
    BY <1>3, <1>5, <1>6 DEF Pends, HangsLast, Timed, Decisive, LetGo
  <1>12. g \in Flows
    BY <1>4, <1>9, <1>10, <1>11 DEF Flows, Base
  <1>. QED  BY <1>3, <1>12 DEF g

LEMMA LeavesFlow ==
    ASSUME NEW f \in FlowType, Base(f), f.result # None, f.stage # "ended", NEW now \in Int
    PROVE  /\ Leave(f, now) \in Flows
           /\ Leave(f, now).result = f.result
           /\ Leave(f, now).stage \in {"hanging_up", "ended"}
  BY EndsFlow, HangsUp DEF Leave

LEMMA Fails ==
    ASSUME NEW f \in Flows, NEW reason, NEW now \in Int
    PROVE  /\ Moves(f, Fail(f, reason, now))
           /\ Fail(f, reason, now).stage \in {"hanging_up", "ended"}
  <1>1. f \in FlowType /\ Base(f)
    BY DEF Flows
  <1>2. CASE f.stage = "ended"
    BY <1>2 DEF Fail, Moves
  <1>3. CASE f.stage # "ended"
    <2>. DEFINE d == Decided(f, ErrorResult(reason, f.stage))
    <2>1. /\ d \in FlowType /\ Base(d) /\ d.result # None /\ d.stage # "ended"
          /\ f.result # None => d.result = f.result
      BY <1>1, <1>3, Decides, ErrorsAreResults
    <2>2. Fail(f, reason, now) = Leave(d, now)
      BY <1>3 DEF Fail
    <2>. HIDE DEF d
    <2>. QED  BY <2>1, <2>2, LeavesFlow DEF Moves
  <1>. QED  BY <1>2, <1>3

LEMMA Stays == ASSUME NEW f \in Flows  PROVE Moves(f, f)
  BY DEF Moves

LEMMA StopsFlow ==
    ASSUME NEW f \in Flows, NEW reason, NEW now \in Int
    PROVE  /\ Moves(f, Stop(f, reason, now))
           /\ Stop(f, reason, now).stage \in {"hanging_up", "ended"}
  BY Fails, Stays DEF Stop

LEMMA RecognizesHeard ==
    ASSUME NEW f \in Flows, f.stage \in DOMAIN StageSigns
    PROVE  Found(Recognized(f), f.stage)
  <1>1. f.heard \in Seq(Seq(Tokens))
    BY DEF Flows, FlowType
  <1>2. FlattenSeq(f.heard) \in Seq(Tokens)
    BY <1>1, Flattened
  <1>. QED  BY <1>2, Recognizes DEF Recognized

LEMMA Overruns ==
    ASSUME NEW f \in Flows, NEW reason, NEW now \in Int, f.stage # "hanging_up"
    PROVE  Moves(f, OnDeadline(f, reason, now))
  <1>1. CASE f.stage = "result" /\ Recognized(f).status = "complete"
    <2>1. Found(Recognized(f), "result")
      BY <1>1, RecognizesHeard, Ranks
    <2>2. PICK amount \in Int : Recognized(f) = Complete(amount)
      BY <1>1, <2>1 DEF Found, Pending, Invalid, Complete
    <2>3. Success(amount) \in Results
      BY DEF Success, Results
    <2>. DEFINE d == Decided(f, Success(amount))
    <2>4. /\ d \in FlowType /\ Base(d) /\ d.result # None /\ d.stage = "result"
          /\ f.result # None => d.result = f.result
      BY <1>1, <2>3, Decides DEF Flows
    <2>5. Recognized(f).value = amount
      BY <2>2 DEF Complete
    <2>6. OnDeadline(f, reason, now) = Leave(d, now)
      BY <1>1, <2>5, Zenon DEF OnDeadline
    <2>. HIDE DEF d
    <2>. QED  BY <2>4, <2>6, LeavesFlow DEF Moves
  <1>2. CASE ~(f.stage = "result" /\ Recognized(f).status = "complete")
    <2>1. OnDeadline(f, reason, now) = Fail(f, reason, now)
      BY <1>2, Zenon DEF OnDeadline
    <2>. QED  BY <2>1, Fails
  <1>. QED  BY <1>1, <1>2

LEMMA EndsHung ==
    ASSUME NEW f \in Flows, Hangs(f)
    PROVE  Moves(f, Ended(f)) /\ Ended(f).stage = "ended"
  <1>1. f \in FlowType /\ Base(f) /\ f.result # None
    BY DEF Flows, Decisive, Base, HangsLast
  <1>. QED  BY <1>1, EndsFlow DEF Moves

LEMMA Expires ==
    ASSUME NEW f \in Flows, NEW now \in Int
    PROVE  Moves(f, Expire(f, now))
  <1>1. CASE HangupUnconfirmed(f, now)
    <2>1. Hangs(f)
      BY <1>1 DEF HangupUnconfirmed, Flows, Base, HangsLast
    <2>. QED  BY <1>1, <2>1, EndsHung DEF Expire
  <1>2. CASE ~HangupUnconfirmed(f, now)
    BY <1>2, Overruns, Stays DEF Expire
  <1>. QED  BY <1>1, <1>2

LEMMA FailsCommand ==
    ASSUME NEW f \in Flows, f.pending # None, NEW now \in Int
    PROVE  Moves(f, CommandFailed(f, now))
  <1>1. CASE f.issued[f.pending].do = "hangup"
    <2>1. f.issued \in Seq(Commands) /\ f.pending \in Nat
      BY DEF Flows, FlowType, Maybe
    <2>2. f.pending \in DOMAIN f.issued
      BY <2>1 DEF Flows, Base, Pends
    <2>3. Hangs(f)
      BY <1>1, <2>2 DEF Hangs
    <2>. QED  BY <1>1, <2>3, EndsHung DEF CommandFailed
  <1>2. CASE f.issued[f.pending].do # "hangup"
    BY <1>2, Fails DEF CommandFailed
  <1>. QED  BY <1>1, <1>2

(* A tone is keyed at a time that is not before the last one's.            *)
NotBefore(f, at) == Tones(f) # {} => f.consumed # None /\ f.consumed <= at

LEMMA Keys ==
    ASSUME NEW f \in Flows, f.stage \in DOMAIN NextStage, NEW digits \in Seq(0..9),
           NEW now \in Int, NEW at \in Int, NotBefore(f, at)
    PROVE  Moves(f, SendDigits(f, digits, now, at))
  <1>. DEFINE h == [do |-> "send_dtmf", stage |-> f.stage, digits |-> digits, at |-> at]
              g == SendDigits(f, digits, now, at)
              n == Len(f.issued)
  <1>1. /\ h \in Commands /\ h.do = "send_dtmf" /\ h.stage = f.stage /\ h.at = at
        /\ f \in FlowType /\ f.issued \in Seq(Commands) /\ f.result = None
    BY Ranks DEF Commands, Flows, FlowType, Decisive
  <1>2. g = [[f EXCEPT !.issued = Append(f.issued, h), !.pending = n + 1, !.heard = <<>>]
                EXCEPT !.last = None, !.consumed = at, !.stage = NextStage[f.stage],
                       !.since = now]
    BY <1>1 DEF SendDigits, Reserve, FlowType
  <1>. HIDE DEF h
  <1>3. /\ g.issued = Append(f.issued, h) /\ g.pending = n + 1 /\ g.heard = <<>>
        /\ g.last = None /\ g.consumed = at /\ g.stage = NextStage[f.stage]
        /\ g.result = None
    <2>. HIDE DEF g, n
    <2>. QED  BY <1>1, <1>2 DEF FlowType
  <1>4. g \in FlowType
    <2>1. /\ Append(f.issued, h) \in Seq(Commands) /\ n + 1 \in Maybe(Nat)
          /\ now \in Int /\ at \in Maybe(Int) /\ None \in Maybe(Int)
          /\ NextStage[f.stage] \in Stages /\ <<>> \in Seq(Seq(Tokens))
      BY <1>1, Appended, Ranks DEF Maybe
    <2>. HIDE DEF g, n
    <2>. QED  BY <1>1, <1>2, <2>1 DEF FlowType
  <1>. HIDE DEF g
  <1>5. /\ DOMAIN f.issued = 1..n /\ n \in Nat /\ DOMAIN g.issued = 1..(n + 1)
        /\ Len(g.issued) = n + 1 /\ g.issued[n + 1] = h
        /\ \A i \in 1..n : g.issued[i] = f.issued[i]
    BY <1>1, <1>3, Appended
  <1>6. Tones(g) = Tones(f) \cup {n + 1}
    BY <1>1, <1>5 DEF Tones
  <1>7. ASSUME NEW i \in Tones(f)
        PROVE  /\ i \in 1..n /\ g.issued[i] = f.issued[i]
               /\ f.issued[i].at \in Int /\ f.issued[i].at <= at
               /\ Rank[f.issued[i].stage] \in Int
               /\ Rank[f.issued[i].stage] < Rank[f.stage]
    <2>1. i \in 1..n /\ f.issued[i] \in Commands /\ f.issued[i].do = "send_dtmf"
      BY <1>1, <1>5 DEF Tones
    <2>2. f.issued[i].stage \in DOMAIN NextStage /\ f.issued[i].at \in Int
      BY <2>1 DEF Commands
    <2>3. f.issued[i].at <= f.consumed /\ f.consumed # None /\ f.consumed <= at
          /\ Rank[f.issued[i].stage] < Rank[f.stage]
      BY Ranks DEF NotBefore, Flows, Base, TonesBefore
    <2>4. f.consumed \in Int
      BY <1>1, <2>3 DEF FlowType, Maybe
    <2>5. Rank[f.issued[i].stage] \in Int
      BY <2>2, Ranks
    <2>. QED  BY <1>5, <2>1, <2>2, <2>3, <2>4, <2>5
  <1>8. Rank[f.stage] \in Int /\ Rank[g.stage] = Rank[f.stage] + 1
        /\ g.stage \notin {"hanging_up", "ended"}
    BY <1>3, Ranks
  <1>9. TonesBefore(g)
    <2>1. ASSUME NEW i \in Tones(g)
          PROVE  /\ Rank[g.issued[i].stage] < Rank[g.stage]
                 /\ g.consumed # None /\ g.issued[i].at <= g.consumed
      <3>1. at # None
        BY IvrFlowAssumption
      <3>2. CASE i = n + 1
        BY <1>1, <1>3, <1>5, <1>8, <3>1, <3>2
      <3>3. CASE i # n + 1
        <4>1. i \in Tones(f)
          BY <1>6, <3>3
        <4>. QED  BY <1>3, <1>7, <1>8, <3>1, <4>1
      <3>. QED  BY <3>2, <3>3
    <2>. QED  BY <2>1 DEF TonesBefore
  <1>10. TonesOrdered(g)
    <2>1. ASSUME NEW i \in Tones(g), NEW j \in Tones(g), i < j
          PROVE  /\ g.issued[i].at <= g.issued[j].at
                 /\ Rank[g.issued[i].stage] < Rank[g.issued[j].stage]
      <3>1. CASE j = n + 1
        <4>1. i \in Tones(f)
          BY <1>6, <2>1, <3>1
        <4>. QED  BY <1>1, <1>5, <1>7, <3>1, <4>1
      <3>2. CASE j # n + 1
        <4>1. j \in Tones(f)
          BY <1>6, <3>2
        <4>2. j \in 1..n
          BY <1>7, <4>1
        <4>3. i \in Tones(f)
          BY <1>5, <1>6, <2>1, <4>2
        <4>4. /\ f.issued[i].at <= f.issued[j].at
              /\ Rank[f.issued[i].stage] < Rank[f.issued[j].stage]
          BY <2>1, <4>1, <4>3 DEF Flows, Base, TonesOrdered
        <4>. QED  BY <1>7, <4>1, <4>3, <4>4
      <3>. QED  BY <3>1, <3>2
    <2>. QED  BY <2>1 DEF TonesOrdered
  <1>11. ~Hangs(g)
    <2>1. ~Hangs(f)
      BY Ranks DEF Flows, Base, HangsLast
    <2>2. ASSUME NEW i \in 1..(n + 1)  PROVE g.issued[i].do # "hangup"
      <3>1. CASE i = n + 1
        BY <1>1, <1>5, <3>1
      <3>2. CASE i # n + 1
        <4>1. i \in 1..n
          BY <1>5, <3>2
        <4>2. f.issued[i].do # "hangup"
          BY <1>5, <2>1, <4>1, Zenon DEF Hangs
        <4>. QED  BY <1>5, <4>1, <4>2, Zenon
      <3>. QED  BY <3>1, <3>2
    <2>. QED  BY <1>5, <2>2 DEF Hangs
  <1>12. Pends(g) /\ HangsLast(g) /\ Timed(g) /\ Decisive(g) /\ LetGo(g)
    BY <1>3, <1>5, <1>8, <1>11 DEF Pends, HangsLast, Timed, Decisive, LetGo
  <1>13. g \in Flows
    BY <1>4, <1>9, <1>10, <1>12 DEF Flows, Base
  <1>. QED  BY <1>1, <1>13 DEF Moves, g

LEMMA Evaluates ==
    ASSUME NEW f \in Flows, f.stage \in DOMAIN StageSigns, NEW now \in Int,
           NEW at \in Int, NotBefore(f, at)
    PROVE  Moves(f, Evaluate(f, now, at))
  <1>. DEFINE found == Recognized(f)
  <1>1. Found(found, f.stage)
    BY RecognizesHeard
  <1>2. CASE found = Pending
    <2>1. found.status = "pending"
      BY <1>2 DEF Pending
    <2>2. Evaluate(f, now, at) = f
      BY <2>1 DEF Evaluate
    <2>. QED  BY <2>2, Stays
  <1>3. CASE \E reason : found = Invalid(reason)
    <2>1. found.status = "invalid"
      BY <1>3 DEF Invalid
    <2>2. Evaluate(f, now, at) = Fail(f, found.reason, now)
      BY <2>1 DEF Evaluate
    <2>. QED  BY <2>2, Fails
  <1>4. CASE f.stage = "result" /\ \E amount \in Int : found = Complete(amount)
    <2>1. found.status = "complete"
      BY <1>4 DEF Complete
    <2>2. Evaluate(f, now, at) = f
      BY <1>4, <2>1 DEF Evaluate
    <2>. QED  BY <2>2, Stays
  <1>5. CASE f.stage # "result" /\ \E digits \in Seq(0..9) : found = Complete(digits)
    <2>1. PICK digits \in Seq(0..9) : found = Complete(digits)
      BY <1>5
    <2>2. found.status = "complete" /\ found.value = digits
      BY <2>1 DEF Complete
    <2>3. Evaluate(f, now, at) = SendDigits(f, digits, now, at)
      BY <1>5, <2>2 DEF Evaluate
    <2>4. f.stage \in DOMAIN NextStage
      BY <1>5, Ranks
    <2>. QED  BY <2>3, <2>4, Keys
  <1>. QED
    <2>. HIDE DEF found
    <2>. QED  BY <1>1, <1>2, <1>3, <1>4, <1>5 DEF Found

LEMMA AnswersFlow ==
    ASSUME NEW f \in Flows, NEW now \in Int
    PROVE  Moves(f, Answered(f, now))
  <1>1. CASE f.stage # "dialing"
    BY <1>1, Stays DEF Answered
  <1>2. CASE f.stage = "dialing"
    <2>. DEFINE g == [f EXCEPT !.stage = "welcome", !.since = now]
    <2>1. f \in FlowType /\ f.result = None /\ ~Hangs(f)
      BY <1>2 DEF Flows, Decisive, Base, HangsLast
    <2>2. Tones(f) = {}
      <3>1. ASSUME NEW i \in Tones(f)  PROVE FALSE
        <4>1. f.issued \in Seq(Commands) /\ i \in DOMAIN f.issued /\ f.issued[i].do = "send_dtmf"
          BY <2>1 DEF FlowType, Tones
        <4>2. f.issued[i].stage \in DOMAIN NextStage
          BY <4>1 DEF Commands
        <4>3. Rank[f.issued[i].stage] < 0
          BY <1>2, Ranks DEF Flows, Base, TonesBefore
        <4>. QED  BY <4>2, <4>3, Ranks
      <3>. QED  BY <3>1
    <2>3. /\ g \in FlowType /\ g.stage = "welcome" /\ g.heard = f.heard /\ g.last = f.last
          /\ g.result = f.result /\ g.issued = f.issued /\ g.pending = f.pending
      BY <2>1, Ranks DEF FlowType
    <2>. HIDE DEF g
    <2>4. Tones(g) = {} /\ ~Hangs(g)
      BY <2>1, <2>2, <2>3 DEF Tones, Hangs
    <2>5. g \in Flows
      BY <2>1, <2>3, <2>4
         DEF Flows, Base, Pends, HangsLast, Timed, TonesBefore, TonesOrdered, Decisive, LetGo
    <2>6. CASE f.heard = <<>>
      BY <1>2, <2>1, <2>5, <2>6 DEF Answered, Moves, g
    <2>7. CASE f.heard # <<>>
      <3>1. f.last \in Int
        BY <2>1, <2>7 DEF Flows, FlowType, Maybe, Base, Timed
      <3>2. Moves(g, Evaluate(g, now, f.last))
        BY <2>3, <2>4, <2>5, <3>1, Evaluates, Ranks DEF NotBefore
      <3>3. Answered(f, now) = Evaluate(g, now, f.last)
        BY <1>2, <2>7 DEF Answered, g
      <3>. QED  BY <2>1, <3>2, <3>3 DEF Moves
    <2>. QED  BY <2>6, <2>7
  <1>. QED  BY <1>1, <1>2

EventType ==
    [id : Nat, call : Calls, kind : {"initiated", "answered", "hangup", "other"},
     at : Maybe(Int), text : {<<>>}]
    \cup [id : Nat, call : Calls, kind : {"transcript"}, at : Int, text : Seq(Tokens)]

(* A flow that has heard one more transcript, or of one more event.        *)
Listening(f, e) == [f EXCEPT !.heard = Append(f.heard, e.text), !.last = e.at]
Noticing(f, id) == [f EXCEPT !.seen = f.seen \cup {id}]

LEMMA Listens ==
    ASSUME NEW f \in Flows, NEW e, e.at \in Int, e.text \in Seq(Tokens)
    PROVE  LET g == Listening(f, e)
           IN  /\ g \in Flows /\ g.stage = f.stage /\ g.last = e.at /\ g.result = f.result
               /\ g.issued = f.issued /\ g.consumed = f.consumed
               /\ g.heard = Append(f.heard, e.text)
  <1>. DEFINE g == Listening(f, e)
  <1>1. f \in FlowType
    BY DEF Flows
  <1>2. g \in FlowType
    <2>1. Append(f.heard, e.text) \in Seq(Seq(Tokens)) /\ e.at \in Maybe(Int)
      BY <1>1 DEF FlowType, Maybe
    <2>. QED  BY <1>1, <2>1 DEF FlowType, Listening
  <1>3. /\ g.stage = f.stage /\ g.last = e.at /\ g.result = f.result /\ g.issued = f.issued
        /\ g.pending = f.pending /\ g.consumed = f.consumed
        /\ g.remoteHungAt = f.remoteHungAt /\ g.heard = Append(f.heard, e.text)
    BY <1>1 DEF FlowType, Listening
  <1>. HIDE DEF g
  <1>4. e.at # None
    BY IvrFlowAssumption
  <1>5. Tones(g) = Tones(f) /\ (Hangs(g) <=> Hangs(f))
    BY <1>3 DEF Tones, Hangs
  <1>6. Pends(g) /\ HangsLast(g) /\ Decisive(g) /\ LetGo(g)
    BY <1>3, <1>5 DEF Flows, Base, Pends, HangsLast, Decisive, LetGo
  <1>7. TonesBefore(g) /\ TonesOrdered(g)
    BY <1>3, <1>5 DEF Flows, Base, TonesBefore, TonesOrdered
  <1>8. g \in Flows
    BY <1>2, <1>3, <1>4, <1>6, <1>7 DEF Flows, Base, Timed
  <1>. QED  BY <1>3, <1>8 DEF g

LEMMA Notices ==
    ASSUME NEW f \in Flows, NEW id \in Nat
    PROVE  LET g == Noticing(f, id)
           IN  /\ g \in Flows /\ g.stage = f.stage /\ g.result = f.result
               /\ g.issued = f.issued /\ g.heard = f.heard
  <1>. DEFINE g == Noticing(f, id)
  <1>1. f \in FlowType
    BY DEF Flows
  <1>2. g \in FlowType
    BY <1>1 DEF FlowType, Noticing
  <1>3. /\ g.stage = f.stage /\ g.last = f.last /\ g.result = f.result /\ g.issued = f.issued
        /\ g.pending = f.pending /\ g.consumed = f.consumed /\ g.heard = f.heard
        /\ g.remoteHungAt = f.remoteHungAt
    BY <1>1 DEF FlowType, Noticing
  <1>. HIDE DEF g
  <1>4. Tones(g) = Tones(f) /\ (Hangs(g) <=> Hangs(f))
    BY <1>3 DEF Tones, Hangs
  <1>5. Pends(g) /\ HangsLast(g) /\ Decisive(g) /\ LetGo(g) /\ Timed(g)
    BY <1>3, <1>4 DEF Flows, Base, Pends, HangsLast, Decisive, LetGo, Timed
  <1>6. TonesBefore(g) /\ TonesOrdered(g)
    BY <1>3, <1>4 DEF Flows, Base, TonesBefore, TonesOrdered
  <1>7. g \in Flows
    BY <1>2, <1>5, <1>6 DEF Flows, Base
  <1>. QED  BY <1>3, <1>7 DEF g

LEMMA TranscribesFlow ==
    ASSUME NEW f \in Flows, f.stage \notin {"hanging_up", "ended"}, NEW e,
           e.at \in Int, e.text \in Seq(Tokens), NEW now \in Int
    PROVE  Moves(f, Transcribed(f, e, now))
  <1>. DEFINE g == Listening(f, e)
  <1>1. CASE f.last # None /\ e.at < f.last
    BY <1>1, Fails DEF Transcribed
  <1>2. CASE ~(f.last # None /\ e.at < f.last) /\ Consumed(f, e.at)
    BY <1>2, Stays DEF Transcribed
  <1>3. CASE /\ ~(f.last # None /\ e.at < f.last) /\ ~Consumed(f, e.at)
             /\ Len(f.heard) >= MaxSegments
    BY <1>3, Fails DEF Transcribed
  <1>4. CASE /\ ~(f.last # None /\ e.at < f.last) /\ ~Consumed(f, e.at)
             /\ ~(Len(f.heard) >= MaxSegments)
    <2>1. f \in FlowType
      BY DEF Flows
    <2>2. /\ g \in Flows /\ g.stage = f.stage /\ g.last = e.at /\ g.result = f.result
          /\ g.issued = f.issued /\ g.consumed = f.consumed
      BY Listens
    <2>3. Transcribed(f, e, now) = IF f.stage = "dialing" THEN g ELSE Evaluate(g, now, e.at)
      BY <1>4 DEF Transcribed, Listening
    <2>. HIDE DEF g
    <2>4. Tones(g) = Tones(f)
      BY <2>2 DEF Tones
    <2>5. CASE f.stage = "dialing"
      BY <2>2, <2>3, <2>5 DEF Moves
    <2>6. CASE f.stage # "dialing"
      <3>1. f.stage \in DOMAIN StageSigns
        BY <2>1, <2>6, Ranks DEF FlowType
      <3>2. NotBefore(g, e.at)
        <4>1. SUFFICES ASSUME Tones(f) # {}  PROVE f.consumed # None /\ f.consumed <= e.at
          BY <2>2, <2>4 DEF NotBefore
        <4>2. f.consumed # None
          BY <4>1 DEF Flows, Base, TonesBefore
        <4>3. f.consumed \in Int
          BY <2>1, <4>2 DEF FlowType, Maybe
        <4>. QED  BY <1>4, <4>2, <4>3 DEF Consumed
      <3>3. Moves(g, Evaluate(g, now, e.at))
        BY <2>2, <3>1, <3>2, Evaluates
      <3>. QED  BY <2>2, <2>3, <2>6, <3>3 DEF Moves
    <2>. QED  BY <2>5, <2>6
  <1>. QED  BY <1>1, <1>2, <1>3, <1>4

LEMMA HangsUpRemotely ==
    ASSUME NEW f \in Flows, f.stage # "ended", NEW now \in Int
    PROVE  Moves(f, RemoteHangup(f, now))
  <1>1. f \in FlowType /\ Base(f)
    BY DEF Flows
  <1>2. CASE f.stage = "result"
    <2>. DEFINE at == IF f.remoteHungAt = None THEN now ELSE f.remoteHungAt
                g == [f EXCEPT !.remoteHungAt = at, !.pending = None]
    <2>1. RemoteHangup(f, now) = g
      BY <1>1, <1>2 DEF RemoteHangup, FlowType
    <2>2. at \in Maybe(Int) /\ None \in Maybe(Nat)
      BY <1>1 DEF FlowType, Maybe
    <2>. HIDE DEF at
    <2>3. /\ g \in FlowType /\ g.stage = "result" /\ g.pending = None /\ g.result = f.result
          /\ g.issued = f.issued /\ g.heard = f.heard /\ g.last = f.last
          /\ g.consumed = f.consumed
      BY <1>1, <1>2, <2>2 DEF FlowType
    <2>. HIDE DEF g
    <2>4. Tones(g) = Tones(f) /\ (Hangs(g) <=> Hangs(f))
      BY <2>3 DEF Tones, Hangs
    <2>5. Pends(g) /\ HangsLast(g) /\ Decisive(g) /\ LetGo(g) /\ Timed(g)
      BY <1>2, <2>3, <2>4 DEF Flows, Base, Pends, HangsLast, Decisive, LetGo, Timed
    <2>6. TonesBefore(g) /\ TonesOrdered(g)
      BY <1>2, <2>3, <2>4 DEF Flows, Base, TonesBefore, TonesOrdered
    <2>7. g \in Flows
      BY <2>3, <2>5, <2>6 DEF Flows, Base
    <2>. QED  BY <2>1, <2>3, <2>7 DEF Moves
  <1>3. CASE f.stage # "result"
    <2>. DEFINE r == ErrorResult("early_hangup", f.stage)
                d == Decided(f, r)
    <2>1. r \in Results /\ r.code = "early_hangup"
      BY ErrorsAreResults DEF ErrorResult, Alias, PublicErrors
    <2>2. RemoteHangup(f, now) = Ended(d)
      BY <1>3 DEF RemoteHangup
    <2>. HIDE DEF r
    <2>3. /\ d \in FlowType /\ Base(d) /\ d.result # None
          /\ d.result = IF f.result = None THEN r ELSE f.result
          /\ Hangs(d) <=> Hangs(f)
      BY <1>1, <2>1, Decides
    <2>. HIDE DEF d
    <2>4. Hangs(d) \/ d.result.code = "early_hangup"
      BY <2>1, <2>3 DEF Flows, Base, HangsLast, Decisive
    <2>. QED  BY <2>2, <2>3, <2>4, EndsFlow DEF Moves
  <1>. QED  BY <1>2, <1>3

LEMMA Handles ==
    ASSUME NEW f \in Flows, NEW e \in EventType, NEW now \in Int
    PROVE  Moves(f, Handle(f, e, now))
  <1>. DEFINE g == Noticing(f, e.id)
              Through == f.stage = "ended" \/ (f.stage = "hanging_up" /\ e.kind # "hangup")
              Late == f.stage # "hanging_up" /\ Expired(f, now) # None
              Full == Cardinality(f.seen) >= MaxEventIds
  <1>1. CASE Through
    BY <1>1, Stays DEF Handle
  <1>2. CASE ~Through /\ Late
    BY <1>2, Overruns DEF Handle
  <1>3. CASE ~Through /\ ~Late /\ ~Admit(f, e)
    BY <1>3, Stays DEF Handle
  <1>4. CASE ~Through /\ ~Late /\ Admit(f, e) /\ Full
    BY <1>4, Fails DEF Handle
  <1>5. CASE ~Through /\ ~Late /\ Admit(f, e) /\ ~Full
    <2>1. e.id \in Nat
      BY DEF EventType
    <2>2. g \in Flows /\ g.stage = f.stage /\ g.result = f.result
      BY <2>1, Notices
    <2>3. Handle(f, e, now) = CASE e.kind = "answered"   -> Answered(g, now)
                                [] e.kind = "transcript" -> Transcribed(g, e, now)
                                [] e.kind = "hangup"     -> RemoteHangup(g, now)
                                [] OTHER                 -> g
      BY <1>5 DEF Handle, Noticing
    <2>. HIDE DEF g
    <2>4. Moves(g, Handle(f, e, now))
      <3>1. CASE e.kind = "answered"
        BY <2>2, <2>3, <3>1, AnswersFlow
      <3>2. CASE e.kind = "transcript"
        <4>1. e.at \in Int /\ e.text \in Seq(Tokens)
          BY <3>2 DEF EventType
        <4>2. g.stage \notin {"hanging_up", "ended"}
          BY <1>5, <2>2, <3>2
        <4>. QED  BY <2>2, <2>3, <3>2, <4>1, <4>2, TranscribesFlow
      <3>3. CASE e.kind = "hangup"
        BY <1>5, <2>2, <2>3, <3>3, HangsUpRemotely
      <3>4. CASE e.kind \in {"initiated", "other"}
        BY <2>2, <2>3, <3>4, Stays
      <3>5. e.kind \in {"initiated", "answered", "transcript", "hangup", "other"}
        BY DEF EventType
      <3>. QED  BY <3>1, <3>2, <3>3, <3>4, <3>5
    <2>. QED  BY <2>2, <2>4 DEF Moves
  <1>. QED  BY <1>1, <1>2, <1>3, <1>4, <1>5

-----------------------------------------------------------------------------
(* The flow a run binds: new, and then what the buffer held replayed.      *)
LEMMA Fresh ==
    ASSUME NEW now \in Int
    PROVE  NewFlow(now) \in Flows
  <1>. DEFINE f == NewFlow(now)
  <1>1. f \in FlowType
    <2>1. "dialing" \in Stages /\ <<>> \in Seq(Seq(Tokens)) /\ <<>> \in Seq(Commands)
      BY DEF Stages
    <2>2. None \in Maybe(Nat) /\ None \in Maybe(Results) /\ None \in Maybe(Int)
      BY DEF Maybe
    <2>. QED  BY <2>1, <2>2 DEF NewFlow, FlowType
  <1>2. /\ f.issued = <<>> /\ f.stage = "dialing" /\ f.result = None /\ f.pending = None
        /\ f.heard = <<>>
    BY DEF NewFlow
  <1>. HIDE DEF f
  <1>3. Tones(f) = {} /\ ~Hangs(f)
    BY <1>2 DEF Tones, Hangs
  <1>4. f \in Flows
    BY <1>1, <1>2, <1>3
       DEF Flows, Base, Pends, HangsLast, Timed, TonesBefore, TonesOrdered, Decisive, LetGo
  <1>. QED  BY <1>4 DEF f

Excuses == {"internal_error", "buffer_overflow", "event_overflow", "dial_uncertain",
            "overall_timeout", "stage_timeout"}

CallerType ==
    [phase : {"idle", "running", "finishing", "done"},
     dial : {"none", "asked", "settled", "canceled"},
     bound : Maybe(Calls), uncertain : BOOLEAN, excuse : Maybe(Excuses),
     cleanupAt : Maybe(Int), buffer : Seq(EventType), seen : SUBSET Nat,
     closing : Maybe(Int), report : Maybe(Results)]

LEMMA ReplaysWithin ==
    ASSUME NEW S, NEW E, NEW c, c.buffer \in Seq(E), NEW call, NewFlow(clock) \in S,
           \A f \in S : \A e \in E : Handle(f, e, clock) \in S
    PROVE  Replayed(c, call) \in S
  <1>. DEFINE n == Len(c.buffer)
              Place(i) == IF i <= n THEN i ELSE i - n
              Due(e, i) == e.call = call /\ (i <= n <=> e.kind = "hangup")
              Replay(f, e, i) == IF Due(e, i) THEN Handle(f, e, clock) ELSE f
              after[i \in 0..(2 * n)] ==
                  IF i = 0 THEN NewFlow(clock)
                  ELSE Replay(after[i - 1], c.buffer[Place(i)], i)
              step == [i \in 1..(2 * n) |-> [f \in S |-> Replay(f, c.buffer[Place(i)], i)]]
  <1>1. n \in Nat /\ 2 * n \in Nat /\ \A i \in 1..(2 * n) : c.buffer[Place(i)] \in E
    <2>2. n \in Nat /\ \A j \in 1..n : c.buffer[j] \in E
      OBVIOUS
    <2>3. \A i \in 1..(2 * n) : Place(i) \in 1..n
      <3>. HIDE DEF n
      <3>. QED  BY <2>2
    <2>4. 2 * n \in Nat
      BY <2>2
    <2>. QED
      <3>. HIDE DEF n, Place
      <3>. QED  BY <2>2, <2>3, <2>4
  <1>2. \A i \in 1..(2 * n) : \A f \in S : Replay(f, c.buffer[Place(i)], i) \in S
    <2>1. ASSUME NEW i \in 1..(2 * n), NEW f \in S
          PROVE  Replay(f, c.buffer[Place(i)], i) \in S
      <3>. DEFINE e == c.buffer[Place(i)]
      <3>1. e \in E
        BY <1>1
      <3>. HIDE DEF e
      <3>2. Handle(f, e, clock) \in S
        BY <3>1
      <3>3. Replay(f, e, i) \in S
        BY <3>2
      <3>. QED  BY <3>3 DEF e
    <2>. QED  BY <2>1
  <1>3. StaysIn(S, 2 * n, step)
    <2>. HIDE DEF Replay, Place, n
    <2>. QED  BY <1>2 DEF StaysIn
  <1>4. NewFlow(clock) \in S
    OBVIOUS
  <1>. DEFINE N == 2 * n  base == NewFlow(clock)
  <1>5. PICK g \in [0..N -> S] : Follows(g, base, N, step)
    <2>1. N \in Nat /\ base \in S /\ StaysIn(S, N, step)
      BY <1>1, <1>3, <1>4
    <2>. HIDE DEF N, base, step
    <2>. QED  BY <2>1, Built
  <1>6. g = [i \in 0..(2 * n) |-> IF i = 0 THEN NewFlow(clock)
                                   ELSE Replay(g[i - 1], c.buffer[Place(i)], i)]
    <2>1. ASSUME NEW i \in 0..(2 * n)
          PROVE  g[i] = IF i = 0 THEN NewFlow(clock)
                        ELSE Replay(g[i - 1], c.buffer[Place(i)], i)
      <3>1. CASE i = 0
        BY <1>5, <3>1 DEF Follows
      <3>2. CASE i # 0
        <4>1. i \in 1..N /\ i - 1 \in 0..N
          <5>. HIDE DEF n
          <5>. QED  BY <1>1, <3>2
        <4>2. g[i] = step[i][g[i - 1]]
          <5>. HIDE DEF step, N
          <5>. QED  BY <1>5, <4>1 DEF Follows
        <4>3. g[i - 1] \in S
          <5>. HIDE DEF N, step
          <5>. QED  BY <1>5, <4>1
        <4>4. step[i][g[i - 1]] = Replay(g[i - 1], c.buffer[Place(i)], i)
          <5>. HIDE DEF Replay, Place, n
          <5>. QED  BY <4>1, <4>3
        <4>. HIDE DEF step, Replay
        <4>. QED  BY <3>2, <4>2, <4>4
      <3>. HIDE DEF Replay
      <3>. QED  BY <3>1, <3>2
    <2>. HIDE DEF Replay, n, step
    <2>. QED  BY <2>1
  <1>7. after = [i \in 0..(2 * n) |-> IF i = 0 THEN NewFlow(clock)
                                      ELSE Replay(after[i - 1], c.buffer[Place(i)], i)]
    <2>1. \E h : h = [i \in 0..(2 * n) |-> IF i = 0 THEN NewFlow(clock)
                                           ELSE Replay(h[i - 1], c.buffer[Place(i)], i)]
      <3>. HIDE DEF Replay, Place, n
      <3>. QED  BY <1>6
    <2>. HIDE DEF Replay, Place, n
    <2>. QED  BY <2>1, Zenon
  <1>. HIDE DEF after
  <1>. DEFINE T == {i \in 0..N : after[i] \in S}
  <1>8. 0 \in T
    <2>. HIDE DEF Replay, Place
    <2>. QED  BY <1>1, <1>4, <1>7
  <1>9. ASSUME NEW i \in 0..(N - 1), i \in T  PROVE i + 1 \in T
    <2>1. i + 1 \in 1..N /\ i + 1 # 0 /\ (i + 1) - 1 = i /\ i + 1 \in 0..N
      BY <1>1
    <2>2. after[i + 1] = Replay(after[i], c.buffer[Place(i + 1)], i + 1)
      <3>. HIDE DEF Replay, Place, n
      <3>. QED  BY <1>7, <2>1
    <2>3. after[i] \in S
      BY <1>9
    <2>4. Replay(after[i], c.buffer[Place(i + 1)], i + 1) \in S
      <3>. HIDE DEF Replay, Place, n
      <3>. QED  BY <1>2, <2>1, <2>3
    <2>. HIDE DEF Replay, Place, n
    <2>. QED  BY <2>1, <2>2, <2>4
  <1>10. after[2 * n] \in S
    <2>1. N \in Nat
      BY <1>1
    <2>2. 0..N \subseteq T
      <3>. HIDE DEF T, N
      <3>. QED  BY <2>1, <1>8, <1>9, AllPositions
    <2>3. N \in T
      <3>. HIDE DEF T, N
      <3>. QED  BY <2>1, <2>2
    <2>. QED  BY <2>3
  <1>11. Replayed(c, call) = after[2 * n]
    BY Zenon DEF Replayed, after
  <1>. QED  BY <1>10, <1>11

LEMMA Replays ==
    ASSUME NEW c \in CallerType, NEW call, clock \in Int
    PROVE  Replayed(c, call) \in Flows
  <1>1. \A f \in Flows : \A e \in EventType : Handle(f, e, clock) \in Flows
    BY Handles DEF Moves
  <1>2. c.buffer \in Seq(EventType) /\ NewFlow(clock) \in Flows
    BY Fresh DEF CallerType
  <1>. QED  BY <1>1, <1>2, ReplaysWithin

LEMMA Forgets ==
    ASSUME NEW f \in Flows, f.stage = "ended"
    PROVE  /\ Forgotten(f) \in Flows
           /\ Forgotten(f).stage = "ended"
           /\ Forgotten(f).result = f.result
  <1>. DEFINE g == Forgotten(f)
  <1>1. f \in FlowType
    BY DEF Flows
  <1>2. g \in FlowType
    <2>1. {} \in SUBSET Nat /\ <<>> \in Seq(Seq(Tokens)) /\ None \in Maybe(Int)
      BY DEF Maybe
    <2>. QED  BY <1>1, <2>1 DEF Forgotten, FlowType
  <1>3. /\ g.stage = "ended" /\ g.result = f.result /\ g.issued = f.issued /\ g.heard = <<>>
        /\ g.pending = f.pending /\ g.remoteHungAt = f.remoteHungAt
    BY <1>1 DEF Forgotten, FlowType
  <1>. HIDE DEF g
  <1>4. Tones(g) = Tones(f) /\ (Hangs(g) <=> Hangs(f))
    BY <1>3 DEF Tones, Hangs
  <1>5. Pends(g) /\ HangsLast(g) /\ Decisive(g) /\ LetGo(g) /\ Timed(g)
    BY <1>3, <1>4 DEF Flows, Base, Pends, HangsLast, Decisive, LetGo, Timed
  <1>6. TonesBefore(g) /\ TonesOrdered(g)
    BY <1>3, <1>4 DEF Flows, Base, TonesBefore, TonesOrdered
  <1>7. g \in Flows
    BY <1>2, <1>5, <1>6 DEF Flows, Base
  <1>. QED  BY <1>3, <1>7 DEF g

-----------------------------------------------------------------------------
(* The invariant of a run: the caller and the flow it owns.                *)
RunOver(c) == c.phase \in {"finishing", "done"}

(* The report is taken when the run is over, from a flow that ended.       *)
Reports(c, f) ==
    /\ c.report # None <=> RunOver(c)
    /\ (RunOver(c) /\ f # None) => f.stage = "ended" /\ c.report = f.result

Unstarted(c, f) == c.phase = "idle" => f = None /\ c.dial = "none"

(* An ended flow is finalized at once; a caller that closes has let go of  *)
(* the flow it had, and lets go of the one it binds.                       *)
Lives(c, f) ==
    c.phase = "running" =>
        /\ f # None => f.stage # "ended"
        /\ (f # None /\ c.closing # None) => f.stage = "hanging_up"

Closes(c, f) == (f = None /\ c.closing # None) => c.uncertain

Asks(c) == c.dial = "asked" => c.phase = "running"

Holds(c, f) ==
    /\ c \in CallerType /\ (f = None \/ f \in Flows)
    /\ Reports(c, f) /\ Unstarted(c, f) /\ Lives(c, f) /\ Closes(c, f) /\ Asks(c)

Decision(c, f) ==
    IF c.report # None THEN c.report ELSE IF f # None THEN f.result ELSE None

(* A step of the caller: a decision that was taken stands.                 *)
Onward ==
    /\ Holds(caller', flow')
    /\ caller.phase = "idle" <=> caller'.phase = "idle"
    /\ \/ Decision(caller', flow') = Decision(caller, flow)
       \/ Decision(caller, flow) = None /\ caller.phase # "idle"

LEMMA NoneIsNoFlow == None \notin Flows /\ None \notin Results /\ None \notin Int
  BY IvrFlowAssumption DEF Flows

LEMMA Finalizes ==
    ASSUME NEW c \in CallerType, NEW r \in Results
    PROVE  LET d == Finishing(c, r)
           IN  /\ d \in CallerType /\ d.phase = "finishing" /\ d.report = r
               /\ d.dial # "asked" /\ d.closing = c.closing /\ d.uncertain = c.uncertain
  <1>. DEFINE d == Finishing(c, r)
  <1>1. Canceled(c.dial) \in {"none", "asked", "settled", "canceled"} \ {"asked"}
    BY DEF Canceled, CallerType
  <1>2. r \in Maybe(Results) /\ <<>> \in Seq(EventType) /\ {} \in SUBSET Nat
    BY DEF Maybe
  <1>3. d = [c EXCEPT !.phase = "finishing", !.report = r, !.dial = Canceled(c.dial),
                      !.buffer = <<>>, !.seen = {}]
    BY DEF Finishing, CallerType
  <1>. QED
    <2>. HIDE DEF d
    <2>1. d \in CallerType /\ d.phase = "finishing" /\ d.report = r /\ d.dial = Canceled(c.dial)
          /\ d.closing = c.closing /\ d.uncertain = c.uncertain
      BY <1>1, <1>2, <1>3 DEF CallerType
    <2>. QED  BY <1>1, <2>1 DEF d

(* The caller goes on with a flow, and its verdict is the decision.        *)
LEMMA FollowsFlow ==
    ASSUME NEW c \in CallerType, c.phase = "running", c.report = None, NEW f \in Flows,
           c.closing # None => f.stage \in {"hanging_up", "ended"},
           GoOn(c, f)
    PROVE  /\ Holds(caller', flow') /\ caller'.phase # "idle"
           /\ Decision(caller', flow') = f.result
  <1>1. CASE f.stage = "ended"
    <2>. DEFINE d == Finishing(c, f.result)
    <2>1. f.result \in Results /\ f.result # None
      BY <1>1 DEF Flows, FlowType, Decisive, Maybe
    <2>2. /\ d \in CallerType /\ d.phase = "finishing" /\ d.report = f.result
          /\ d.dial # "asked"
      BY <2>1, Finalizes
    <2>3. Forgotten(f) \in Flows /\ Forgotten(f).stage = "ended"
          /\ Forgotten(f).result = f.result
      BY <1>1, Forgets
    <2>4. caller' = d /\ flow' = Forgotten(f)
      BY <1>1 DEF GoOn
    <2>. HIDE DEF d
    <2>. QED  BY <2>1, <2>2, <2>3, <2>4, NoneIsNoFlow
              DEF Holds, Reports, RunOver, Unstarted, Lives, Closes, Asks, Decision
  <1>2. CASE f.stage # "ended"
    <2>1. caller' = c /\ flow' = f
      BY <1>2 DEF GoOn
    <2>. QED  BY <1>2, <2>1, NoneIsNoFlow
              DEF Holds, Reports, RunOver, Unstarted, Lives, Closes, Asks, Decision
  <1>. QED  BY <1>1, <1>2

(* ... when that flow comes after the one it had.                          *)
LEMMA MovesOn ==
    ASSUME Holds(caller, flow), caller.phase = "running", flow # None,
           NEW c \in CallerType, c.phase = "running", c.report = None,
           NEW f, Moves(flow, f),
           c.closing = caller.closing \/ f.stage \in {"hanging_up", "ended"},
           GoOn(c, f)
    PROVE  Onward
  <1>1. flow \in Flows /\ f \in Flows /\ (flow.result # None => f.result = flow.result)
    BY DEF Holds, Moves
  <1>2. Decision(caller, flow) = flow.result
    BY DEF Holds, Reports, RunOver, Decision
  <1>3. c.closing # None => f.stage \in {"hanging_up", "ended"}
    <2>1. SUFFICES ASSUME caller.closing # None  PROVE f.stage \in {"hanging_up", "ended"}
      OBVIOUS
    <2>2. flow.stage = "hanging_up"
      BY <2>1 DEF Holds, Lives
    <2>3. flow.result # None
      BY <1>1, <2>2 DEF Flows, Decisive
    <2>. QED  BY <1>1, <2>3 DEF Flows, Decisive
  <1>4. /\ Holds(caller', flow') /\ caller'.phase # "idle"
        /\ Decision(caller', flow') = f.result
    BY <1>1, <1>3, FollowsFlow
  <1>. QED  BY <1>1, <1>2, <1>4 DEF Onward

LEMMA Finishes ==
    ASSUME Holds(caller, flow), caller.phase = "running", flow = None,
           NEW c \in CallerType, c.phase = "running", c.closing # None => c.uncertain,
           NEW reason, Finish(c, reason)
    PROVE  Onward
  <1>. DEFINE r == ErrorResult(reason, "dialing")
              d == Finishing(c, r)
  <1>1. r \in Results /\ r # None
    BY ErrorsAreResults, NoneIsNoFlow
  <1>2. caller' = d /\ flow' = None
    BY DEF Finish
  <1>. HIDE DEF r
  <1>3. /\ d \in CallerType /\ d.phase = "finishing" /\ d.report = r
        /\ d.dial # "asked" /\ d.closing = c.closing /\ d.uncertain = c.uncertain
    BY <1>1, Finalizes
  <1>. HIDE DEF d
  <1>4. Decision(caller, flow) = None
    BY DEF Holds, Reports, RunOver, Decision
  <1>. QED  BY <1>1, <1>2, <1>3, <1>4
            DEF Onward, Holds, Reports, RunOver, Unstarted, Lives, Closes, Asks

(* The caller goes on without a flow.                                      *)
LEMMA WaitsOn ==
    ASSUME Holds(caller, flow), caller.phase = "running", flow = None,
           NEW c \in CallerType, c.phase = "running", c.report = None,
           c.closing # None => c.uncertain,
           caller' = c, flow' = flow
    PROVE  Onward
  <1>1. Decision(caller, flow) = None /\ Decision(c, None) = None
    BY DEF Holds, Reports, RunOver, Decision
  <1>. QED  BY <1>1 DEF Onward, Holds, Reports, RunOver, Unstarted, Lives, Closes, Asks

LEMMA HeldOpen ==
    ASSUME NEW c \in CallerType, NEW reason \in Maybe(Excuses), clock \in Int
    PROVE  /\ Uncertain(c, reason) \in CallerType
           /\ Uncertain(c, reason).phase = c.phase
           /\ Uncertain(c, reason).report = c.report
           /\ Uncertain(c, reason).uncertain = TRUE
  <1>. DEFINE excuse == IF c.excuse = None THEN reason ELSE c.excuse
              at == IF c.cleanupAt = None THEN clock + CleanupBudget ELSE c.cleanupAt
              d == Uncertain(c, reason)
  <1>1. excuse \in Maybe(Excuses)
    BY DEF CallerType
  <1>2. CleanupBudget \in Nat
    BY IvrFlowAssumption
  <1>3. at \in Maybe(Int)
    BY <1>2 DEF CallerType, Maybe
  <1>4. d = [c EXCEPT !.excuse = excuse, !.uncertain = TRUE, !.cleanupAt = at]
    BY DEF Uncertain, CallerType
  <1>. HIDE DEF excuse, at, d
  <1>5. d \in CallerType /\ d.phase = c.phase /\ d.report = c.report /\ d.uncertain = TRUE
    BY <1>1, <1>3, <1>4 DEF CallerType
  <1>. QED  BY <1>5 DEF d

LEMMA Binds ==
    ASSUME Holds(caller, flow), caller.phase = "running", flow = None,
           NEW c \in CallerType, c.phase = "running", c.report = None,
           c.closing # None => c.uncertain,
           NEW call \in Calls, clock \in Int, Bind(c, call)
    PROVE  Onward
  <1>. DEFINE excuse == IF c.excuse = None THEN "dial_uncertain" ELSE c.excuse
              d == [c EXCEPT !.bound = call, !.buffer = <<>>]
              f == Replayed(c, call)
              g == IF c.uncertain THEN Stop(f, excuse, clock) ELSE f
  <1>1. f \in Flows
    BY Replays
  <1>2. GoOn(d, g)
    BY Zenon DEF Bind
  <1>. HIDE DEF f, excuse
  <1>3. g \in Flows /\ (c.uncertain => g.stage \in {"hanging_up", "ended"})
    BY <1>1, StopsFlow DEF Moves
  <1>4. /\ d \in CallerType /\ d.phase = "running" /\ d.report = None
        /\ d.closing = c.closing
    <2>1. call \in Maybe(Calls) /\ <<>> \in Seq(EventType)
      BY DEF Maybe
    <2>. QED  BY <2>1 DEF CallerType
  <1>. HIDE DEF d, g
  <1>5. Holds(caller', flow') /\ caller'.phase # "idle"
    BY <1>2, <1>3, <1>4, FollowsFlow
  <1>6. Decision(caller, flow) = None
    BY DEF Holds, Reports, RunOver, Decision
  <1>. QED  BY <1>5, <1>6 DEF Onward

LEMMA RunsOut ==
    ASSUME Holds(caller, flow), caller.phase = "running", flow = None, clock \in Int,
           UnboundExpires(caller)
    PROVE  Onward
  <1>1. /\ caller \in CallerType /\ caller.report = None
        /\ caller.closing # None => caller.uncertain
    BY DEF Holds, Reports, RunOver, Closes
  <1>2. CASE \E reason : Finish(caller, reason)
    BY <1>1, <1>2, Finishes
  <1>. DEFINE reason == Waiting(caller, IF clock >= CallTimeout THEN "overall_timeout"
                                                                ELSE "stage_timeout")
  <1>3. CASE caller' = Uncertain(caller, reason) /\ UNCHANGED flow
    <2>1. reason \in Maybe(Excuses)
      BY DEF Waiting, Maybe, Excuses
    <2>. DEFINE d == Uncertain(caller, reason)
    <2>. HIDE DEF reason
    <2>2. d \in CallerType /\ d.phase = "running" /\ d.report = None /\ d.uncertain
      BY <1>1, <2>1, HeldOpen
    <2>3. caller' = d /\ flow' = flow
      BY <1>3 DEF reason
    <2>. HIDE DEF d
    <2>. QED  BY <2>2, <2>3, WaitsOn
  <1>. QED  BY <1>2, <1>3 DEF UnboundExpires

LEMMA Prefaces ==
    ASSUME Holds(caller, flow), caller.phase = "running", flow = None, clock \in Int,
           NEW e \in EventType, NEW ours \in BOOLEAN, Preface(caller, e, ours)
    PROVE  Onward
  <1>1. /\ caller \in CallerType /\ caller.report = None
        /\ caller.closing # None => caller.uncertain
    BY DEF Holds, Reports, RunOver, Closes
  <1>2. e.id \in Nat /\ e.call \in Calls
    BY DEF EventType
  <1>3. CASE ours
    <2>. DEFINE seen == IF Cardinality(caller.seen) < MaxEventIds
                        THEN caller.seen \cup {e.id} ELSE caller.seen
                d == [caller EXCEPT !.seen = seen]
    <2>1. seen \in SUBSET Nat
      BY <1>1, <1>2 DEF CallerType
    <2>2. Bind(d, e.call)
      BY <1>1, <1>3 DEF Preface, CallerType
    <2>. HIDE DEF seen
    <2>3. /\ d \in CallerType /\ d.phase = "running" /\ d.report = None
          /\ d.closing = caller.closing /\ d.uncertain = caller.uncertain
      BY <1>1, <2>1 DEF CallerType
    <2>. HIDE DEF d
    <2>. QED  BY <1>1, <1>2, <2>2, <2>3, Binds
  <1>4. CASE ~ours
    <2>. DEFINE kept == [caller EXCEPT !.seen = caller.seen \cup {e.id},
                                       !.buffer = Append(caller.buffer, e)]
    <2>1. /\ kept \in CallerType /\ kept.phase = "running" /\ kept.report = None
          /\ kept.closing = caller.closing /\ kept.uncertain = caller.uncertain
      <3>1. Append(caller.buffer, e) \in Seq(EventType) /\ caller.seen \cup {e.id} \in SUBSET Nat
        BY <1>1, <1>2 DEF CallerType
      <3>. QED  BY <1>1, <3>1 DEF CallerType
    <2>2. \/ \E reason \in Excuses : caller' = Uncertain(caller, reason)
          \/ caller' = kept
      BY <1>1, <1>4 DEF Preface, Excuses, CallerType
    <2>3. flow' = flow
      BY <1>4 DEF Preface
    <2>. HIDE DEF kept
    <2>4. CASE caller' = kept
      BY <1>1, <2>1, <2>3, <2>4, WaitsOn
    <2>5. ASSUME NEW reason \in Excuses, caller' = Uncertain(caller, reason)  PROVE Onward
      <3>. DEFINE d == Uncertain(caller, reason)
      <3>1. reason \in Maybe(Excuses)
        BY DEF Maybe
      <3>2. d \in CallerType /\ d.phase = "running" /\ d.report = None /\ d.uncertain
        BY <1>1, <3>1, HeldOpen
      <3>3. caller' = d
        BY <2>5
      <3>. HIDE DEF d
      <3>. QED  BY <2>3, <3>2, <3>3, WaitsOn
    <2>. QED  BY <2>2, <2>4, <2>5
  <1>. QED  BY <1>3, <1>4

LEMMA BeginsToClose ==
    ASSUME Holds(caller, flow), caller.phase = "running", clock \in Int, BeginClose(caller)
    PROVE  Onward
  <1>1. caller \in CallerType /\ caller.report = None
    BY DEF Holds, Reports, RunOver
  <1>2. clock + CleanupBudget \in Maybe(Int)
    BY IvrFlowAssumption DEF Maybe
  <1>3. CASE flow # None
    <2>. DEFINE d == [caller EXCEPT !.closing = clock + CleanupBudget]
                f == Stop(flow, "shutdown", clock)
    <2>1. d \in CallerType /\ d.phase = "running" /\ d.report = None
      BY <1>1, <1>2 DEF CallerType
    <2>2. Moves(flow, f) /\ f.stage \in {"hanging_up", "ended"}
      BY <1>3, StopsFlow DEF Holds
    <2>3. GoOn(d, f)
      BY <1>3 DEF BeginClose
    <2>. HIDE DEF d, f
    <2>. QED  BY <1>3, <2>1, <2>2, <2>3, MovesOn
  <1>4. CASE flow = None
    <2>. DEFINE d == [caller EXCEPT !.closing = clock + CleanupBudget,
                                    !.dial = Canceled(caller.dial), !.uncertain = TRUE]
    <2>1. Canceled(caller.dial) \in {"none", "asked", "settled", "canceled"}
      BY <1>1 DEF Canceled, CallerType
    <2>2. d \in CallerType /\ d.phase = "running" /\ d.report = None /\ d.uncertain
      BY <1>1, <1>2, <2>1 DEF CallerType
    <2>3. caller' = d /\ flow' = flow
      BY <1>1, <1>4 DEF BeginClose, CallerType
    <2>. HIDE DEF d
    <2>. QED  BY <1>4, <2>2, <2>3, WaitsOn
  <1>. QED  BY <1>3, <1>4

-----------------------------------------------------------------------------
(* The steps of the caller, one by one.                                    *)
LEMMA RestsOn ==
    ASSUME Holds(caller, flow), UNCHANGED <<caller, flow>>
    PROVE  Onward
  BY DEF Onward

LEMMA Starts ==
    ASSUME Holds(caller, flow), Start
    PROVE  /\ Holds(caller', flow')
           /\ caller.phase = "idle" /\ caller'.phase = "running"
           /\ Decision(caller', flow') = Decision(caller, flow)
  <1>. DEFINE d == [caller EXCEPT !.phase = "running", !.dial = "asked"]
  <1>1. caller \in CallerType /\ caller.phase = "idle" /\ flow = None /\ caller.report = None
        /\ (caller.closing # None => caller.uncertain)
    BY DEF Start, MayStart, Holds, Unstarted, Reports, RunOver, Closes
  <1>2. /\ d \in CallerType /\ d.phase = "running" /\ d.report = None
        /\ d.closing = caller.closing /\ d.uncertain = caller.uncertain
    BY <1>1 DEF CallerType
  <1>3. caller' = d /\ flow' = None
    BY <1>1 DEF Start
  <1>. HIDE DEF d
  <1>. QED  BY <1>1, <1>2, <1>3
            DEF Holds, Reports, RunOver, Unstarted, Lives, Closes, Asks, Decision

LEMMA DialReplies ==
    ASSUME Holds(caller, flow), clock \in Int, NEW reply, DialReply(reply)
    PROVE  Onward
  <1>. DEFINE d == [caller EXCEPT !.dial = "settled"]
  <1>1. /\ caller \in CallerType /\ caller.phase = "running" /\ caller.report = None
        /\ flow = None => (caller.closing # None => caller.uncertain)
    BY DEF DialReply, Holds, Asks, Reports, RunOver, Closes
  <1>2. /\ d \in CallerType /\ d.phase = "running" /\ d.report = None
        /\ d.closing = caller.closing /\ d.uncertain = caller.uncertain
        /\ d.excuse = caller.excuse /\ d.bound = caller.bound /\ d.cleanupAt = caller.cleanupAt
        /\ d.dial = "settled"
    BY <1>1 DEF CallerType
  <1>3. \/ reply \in Calls /\ flow = None /\ Bind(d, reply)
        \/ reply \in Calls /\ flow # None
           /\ GoOn(d, IF reply = d.bound THEN flow ELSE Stop(flow, "identity_conflict", clock))
        \/ flow # None /\ caller' = d /\ flow' = flow
        \/ flow = None /\ Finish(d, "dial_rejected")
        \/ flow = None /\ caller' = Uncertain(d, "internal_error") /\ flow' = flow
        \/ flow = None /\ caller' = [Uncertain(d, None) EXCEPT !.excuse = d.excuse]
           /\ flow' = flow
    BY DEF DialReply
  <1>. HIDE DEF d
  <1>4. CASE reply \in Calls /\ flow = None /\ Bind(d, reply)
    BY <1>1, <1>2, <1>4, Binds
  <1>5. CASE /\ reply \in Calls /\ flow # None
             /\ GoOn(d, IF reply = d.bound THEN flow
                        ELSE Stop(flow, "identity_conflict", clock))
    <2>. DEFINE g == IF reply = d.bound THEN flow ELSE Stop(flow, "identity_conflict", clock)
    <2>1. Moves(flow, g)
      BY <1>5, Stays, StopsFlow DEF Holds
    <2>2. GoOn(d, g)
      BY <1>5
    <2>. HIDE DEF g
    <2>. QED  BY <1>1, <1>2, <1>5, <2>1, <2>2, MovesOn
  <1>6. CASE flow # None /\ caller' = d /\ flow' = flow
    <2>1. flow.stage # "ended"
      BY <1>1, <1>6 DEF Holds, Lives
    <2>2. GoOn(d, flow)
      BY <1>6, <2>1 DEF GoOn
    <2>3. Moves(flow, flow)
      BY <1>6, Stays DEF Holds
    <2>. QED  BY <1>1, <1>2, <1>6, <2>2, <2>3, MovesOn
  <1>7. CASE flow = None /\ Finish(d, "dial_rejected")
    BY <1>1, <1>2, <1>7, Finishes
  <1>8. CASE flow = None /\ caller' = Uncertain(d, "internal_error") /\ flow' = flow
    <2>. DEFINE u == Uncertain(d, "internal_error")
    <2>1. "internal_error" \in Maybe(Excuses)
      BY DEF Maybe, Excuses
    <2>2. u \in CallerType /\ u.phase = "running" /\ u.report = None /\ u.uncertain
      BY <1>2, <2>1, HeldOpen
    <2>3. caller' = u
      BY <1>8
    <2>. HIDE DEF u
    <2>. QED  BY <1>1, <1>8, <2>2, <2>3, WaitsOn
  <1>9. CASE /\ flow = None /\ caller' = [Uncertain(d, None) EXCEPT !.excuse = d.excuse]
             /\ flow' = flow
    <2>. DEFINE u == Uncertain(d, None)
                v == [u EXCEPT !.excuse = d.excuse]
    <2>1. None \in Maybe(Excuses)
      BY DEF Maybe
    <2>2. u \in CallerType /\ u.phase = "running" /\ u.report = None /\ u.uncertain
      BY <1>2, <2>1, HeldOpen
    <2>3. caller' = v
      BY <1>9
    <2>. HIDE DEF u
    <2>4. v \in CallerType /\ v.phase = "running" /\ v.report = None /\ v.uncertain
      BY <1>2, <2>2 DEF CallerType
    <2>. HIDE DEF v
    <2>. QED  BY <1>1, <1>9, <2>3, <2>4, WaitsOn
  <1>. QED  BY <1>3, <1>4, <1>5, <1>6, <1>7, <1>8, <1>9

LEMMA Accepts ==
    ASSUME Holds(caller, flow), clock \in Int, NEW e \in EventType, NEW ours \in BOOLEAN,
           Accept(e, ours)
    PROVE  Onward
  <1>1. caller \in CallerType /\ caller.phase = "running" /\ caller.report = None
    BY DEF Accept, Running, Holds, Reports, RunOver
  <1>2. CASE flow = None /\ UnboundExpires(caller)
    BY <1>1, <1>2, RunsOut
  <1>3. CASE flow = None /\ Preface(caller, e, ours)
    BY <1>1, <1>3, Prefaces
  <1>4. CASE flow # None /\ GoOn(caller, Handle(flow, e, clock))
    <2>1. Moves(flow, Handle(flow, e, clock))
      BY <1>4, Handles DEF Holds
    <2>. QED  BY <1>1, <1>4, <2>1, MovesOn
  <1>. QED  BY <1>2, <1>3, <1>4 DEF Accept

LEMMA CommandsFail ==
    ASSUME Holds(caller, flow), clock \in Int, CommandFails
    PROVE  Onward
  <1>1. caller \in CallerType /\ caller.phase = "running" /\ caller.report = None
    BY DEF CommandFails, Running, Holds, Reports, RunOver
  <1>2. flow # None /\ GoOn(caller, CommandFailed(flow, clock))
    BY DEF CommandFails
  <1>3. Moves(flow, CommandFailed(flow, clock))
    BY FailsCommand DEF CommandFails, Holds
  <1>. QED  BY <1>1, <1>2, <1>3, MovesOn

LEMMA Watches ==
    ASSUME Holds(caller, flow), clock \in Int, Watchdog
    PROVE  Onward
  <1>1. caller \in CallerType /\ (Running => caller.phase = "running" /\ caller.report = None)
    BY DEF Running, Holds, Reports, RunOver
  <1>2. CASE UNCHANGED <<caller, flow>>
    BY <1>2, RestsOn
  <1>3. CASE Running /\ flow # None /\ GoOn(caller, Expire(flow, clock))
    <2>1. Moves(flow, Expire(flow, clock))
      BY <1>3, Expires DEF Holds
    <2>. QED  BY <1>1, <1>3, <2>1, MovesOn
  <1>4. CASE Running /\ flow = None /\ UnboundExpires(caller)
    BY <1>1, <1>4, RunsOut
  <1>. QED  BY <1>2, <1>3, <1>4 DEF Watchdog

LEMMA Joins ==
    ASSUME Holds(caller, flow), Join
    PROVE  Onward
  <1>. DEFINE d == [caller EXCEPT !.phase = "done"]
  <1>1. caller \in CallerType /\ caller.phase = "finishing" /\ caller' = d /\ flow' = flow
    BY DEF Join, Holds
  <1>2. /\ d \in CallerType /\ d.phase = "done" /\ d.report = caller.report
        /\ d.closing = caller.closing /\ d.uncertain = caller.uncertain
        /\ d.dial = caller.dial
    BY <1>1 DEF CallerType
  <1>. HIDE DEF d
  <1>. QED  BY <1>1, <1>2
            DEF Onward, Holds, Reports, RunOver, Unstarted, Lives, Closes, Asks, Decision

LEMMA ClosesAtLast ==
    ASSUME Holds(caller, flow), EndClose
    PROVE  Onward
  <1>1. /\ caller \in CallerType /\ caller.phase = "running" /\ caller.report = None
        /\ caller.closing # None
    BY DEF EndClose, Running, Holds, Reports, RunOver
  <1>2. CASE flow = None
    <2>1. caller.uncertain /\ Finish(caller, "hangup_unconfirmed")
      BY <1>1, <1>2 DEF EndClose, Holds, Closes
    <2>. QED  BY <1>1, <1>2, <2>1, Finishes
  <1>3. CASE flow # None
    <2>. DEFINE r == ErrorResult("shutdown", flow.stage)
                d == Decided(flow, r)
                g == Ended(d)
    <2>1. /\ flow \in FlowType /\ Base(flow) /\ flow.stage = "hanging_up"
          /\ Hangs(flow) /\ flow.result # None
      BY <1>1, <1>3 DEF Holds, Lives, Flows, Base, HangsLast, Decisive
    <2>2. r \in Results
      BY ErrorsAreResults
    <2>3. GoOn(caller, g)
      BY <1>3 DEF EndClose
    <2>. HIDE DEF r
    <2>4. d \in FlowType /\ Base(d) /\ Hangs(d) /\ d.result # None /\ d.result = flow.result
      BY <2>1, <2>2, Decides
    <2>. HIDE DEF d
    <2>5. Moves(flow, g)
      BY <2>4, EndsFlow DEF Moves
    <2>. HIDE DEF g
    <2>. QED  BY <1>1, <1>3, <2>3, <2>5, MovesOn
  <1>. QED  BY <1>2, <1>3

(* A run begins with a caller that has nothing to answer for.              *)
LEMMA CallerBegins == CallerInit => Holds(caller, flow)
  <1>. DEFINE c == [phase |-> "idle", dial |-> "none", bound |-> None, uncertain |-> FALSE,
                    excuse |-> None, cleanupAt |-> None, buffer |-> <<>>, seen |-> {},
                    closing |-> None, report |-> None]
  <1>1. c \in CallerType
    <2>1. None \in Maybe(Calls) /\ None \in Maybe(Excuses) /\ None \in Maybe(Int)
          /\ None \in Maybe(Results) /\ <<>> \in Seq(EventType)
      BY DEF Maybe
    <2>. QED  BY <2>1 DEF CallerType
  <1>2. /\ c.phase = "idle" /\ c.dial = "none" /\ c.closing = None /\ c.report = None
    OBVIOUS
  <1>3. CallerInit => caller = c /\ flow = None
    BY DEF CallerInit
  <1>. HIDE DEF c
  <1>. QED  BY <1>1, <1>2, <1>3 DEF Holds, Reports, RunOver, Unstarted, Lives, Closes, Asks

-----------------------------------------------------------------------------
(* What a flow did follows from what was said: `texts' are the transcripts *)
(* it may have heard, in any order and any number of times.                *)
Heard(texts) == {FlattenSeq(heard) : heard \in Seq(texts)}

Opens(texts) ==
    {s \in DOMAIN NextStage : \E text \in Heard(texts) : Recognize(s, text).status = "complete"}

Amounts(texts) ==
    {amount \in Int : \E text \in Heard(texts) : Recognize("result", text) = Complete(amount)}

(* Tones are keyed one for each stage, in their order, and answer a prompt *)
(* that was spoken; a success is of an amount that was.                    *)
Grounded(f, texts) ==
    /\ f.heard \in Seq(texts)
    /\ \A i \in Tones(f) : /\ f.issued[i].stage \in Opens(texts)
                           /\ Rank[f.issued[i].stage] = i /\ 1..i \subseteq Tones(f)
    /\ f.stage \notin {"hanging_up", "ended"} =>
           /\ Tones(f) = 1..Len(f.issued)
           /\ Len(f.issued) = IF f.stage = "dialing" THEN 0 ELSE Rank[f.stage] - 1
    /\ f.result # None /\ f.result.status = "success" => f.result.value \in Amounts(texts)

Grows(f, g, texts) == Grounded(g, texts) /\ Tones(f) \subseteq Tones(g)

LEMMA GroundedStill ==
    ASSUME NEW texts, NEW f, Grounded(f, texts), NEW g, g.issued = f.issued,
           g.heard \in Seq(texts), g.stage \in {f.stage, "hanging_up", "ended"},
           g.result = f.result \/ g.result.status = "error"
           \/ (g.result.status = "success" /\ g.result.value \in Amounts(texts))
    PROVE  Grows(f, g, texts)
  <1>1. Tones(g) = Tones(f)
    BY DEF Tones
  <1>. QED  BY <1>1 DEF Grounded, Grows

LEMMA GroundedDecides ==
    ASSUME NEW texts, NEW f \in FlowType, Grounded(f, texts), NEW r \in Results,
           r.status = "error" \/ (r.status = "success" /\ r.value \in Amounts(texts))
    PROVE  Grows(f, Decided(f, r), texts)
  <1>1. CASE f.result # None
    BY <1>1 DEF Decided, Grows
  <1>2. CASE f.result = None
    <2>. DEFINE g == [f EXCEPT !.result = r]
    <2>1. g.result = r /\ g.stage = f.stage /\ g.issued = f.issued /\ g.heard = f.heard
      BY DEF FlowType
    <2>2. Decided(f, r) = g
      BY <1>2 DEF Decided
    <2>. HIDE DEF g
    <2>3. g.heard \in Seq(texts)
      BY <2>1 DEF Grounded
    <2>. QED  BY <2>1, <2>2, <2>3, GroundedStill
  <1>. QED  BY <1>1, <1>2

LEMMA GroundedEnds ==
    ASSUME NEW texts, NEW f \in FlowType, Grounded(f, texts)
    PROVE  Grows(f, Ended(f), texts)
  <1>. DEFINE g == Ended(f)
  <1>1. g.result = f.result /\ g.stage = "ended" /\ g.issued = f.issued /\ g.heard = <<>>
    BY DEF FlowType, Ended
  <1>2. <<>> \in Seq(texts)
    OBVIOUS
  <1>. HIDE DEF g
  <1>3. Grows(f, g, texts)
    BY <1>1, <1>2, GroundedStill
  <1>. QED  BY <1>3 DEF g

LEMMA GroundedHangsUp ==
    ASSUME NEW texts, NEW f \in FlowType, Grounded(f, texts), NEW now
    PROVE  Grows(f, HangUp(f, now), texts)
  <1>. DEFINE g == HangUp(f, now)
              h == [do |-> "hangup"]
              n == Len(f.issued)
  <1>1. h \in Commands /\ h.do = "hangup" /\ f.issued \in Seq(Commands)
    BY DEF Commands, FlowType
  <1>2. /\ g.issued = Append(f.issued, h) /\ g.heard = <<>> /\ g.stage = "hanging_up"
        /\ g.result = f.result
    BY DEF HangUp, Reserve, FlowType
  <1>3. <<>> \in Seq(texts)
    OBVIOUS
  <1>. HIDE DEF g, h
  <1>4. /\ DOMAIN f.issued = 1..n /\ n \in Nat /\ DOMAIN g.issued = 1..(n + 1)
        /\ g.issued[n + 1] = h /\ \A i \in 1..n : g.issued[i] = f.issued[i]
    BY <1>1, <1>2, Appended
  <1>5. Tones(g) = Tones(f) /\ \A i \in Tones(g) : g.issued[i] = f.issued[i]
    BY <1>1, <1>4 DEF Tones
  <1>6. Grows(f, g, texts)
    <2>. HIDE DEF n
    <2>. QED  BY <1>2, <1>3, <1>5, Zenon DEF Grounded, Grows
  <1>. QED  BY <1>6 DEF g

LEMMA GroundedTwice ==
    ASSUME NEW texts, NEW f, NEW g, NEW h, Grows(f, g, texts), Grows(g, h, texts)
    PROVE  Grows(f, h, texts)
  BY DEF Grows

LEMMA GroundedFails ==
    ASSUME NEW texts, NEW f \in FlowType, Grounded(f, texts), NEW now, NEW reason
    PROVE  Grows(f, Fail(f, reason, now), texts) /\ Grows(f, Stop(f, reason, now), texts)
  <1>. DEFINE r == ErrorResult(reason, f.stage)
              d == Decided(f, r)
  <1>1. Grows(f, f, texts)
    BY DEF Grows
  <1>2. r \in Results /\ r.status = "error"
    BY ErrorsAreResults
  <1>3. d \in FlowType /\ Grows(f, d, texts) /\ Grounded(d, texts)
    <2>. HIDE DEF r
    <2>. QED  BY <1>2, GroundedDecides, Decides DEF Grows
  <1>4. Fail(f, reason, now) \in {f, Ended(d), HangUp(d, now)}
    BY DEF Fail, Leave
  <1>. HIDE DEF d
  <1>5. Grows(f, Ended(d), texts) /\ Grows(f, HangUp(d, now), texts)
    BY <1>3, GroundedEnds, GroundedHangsUp, GroundedTwice
  <1>6. Grows(f, Fail(f, reason, now), texts)
    BY <1>1, <1>4, <1>5
  <1>. QED  BY <1>1, <1>6 DEF Stop

LEMMA GroundedSucceeds ==
    ASSUME NEW texts, NEW f \in FlowType, Grounded(f, texts), NEW now,
           NEW amount \in Amounts(texts)
    PROVE  Grows(f, Leave(Decided(f, Success(amount)), now), texts)
  <1>. DEFINE d == Decided(f, Success(amount))
  <1>1. Success(amount) \in Results /\ Success(amount).status = "success"
        /\ Success(amount).value = amount
    BY DEF Success, Results, Amounts
  <1>2. d \in FlowType /\ Grows(f, d, texts) /\ Grounded(d, texts)
    BY <1>1, GroundedDecides, Decides DEF Grows
  <1>3. Leave(d, now) \in {Ended(d), HangUp(d, now)}
    BY DEF Leave
  <1>. HIDE DEF d
  <1>4. Grows(f, Leave(d, now), texts)
    BY <1>2, <1>3, GroundedEnds, GroundedHangsUp, GroundedTwice
  <1>. QED  BY <1>4 DEF d

LEMMA GroundedOverruns ==
    ASSUME NEW texts, NEW f \in Flows, Grounded(f, texts), NEW now, NEW reason
    PROVE  Grows(f, OnDeadline(f, reason, now), texts)
  <1>1. f \in FlowType
    BY DEF Flows
  <1>2. CASE f.stage = "result" /\ Recognized(f).status = "complete"
    <2>1. Found(Recognized(f), "result")
      BY <1>2, RecognizesHeard, Ranks
    <2>2. PICK amount \in Int : Recognized(f) = Complete(amount)
      BY <1>2, <2>1 DEF Found, Pending, Invalid, Complete
    <2>3. FlattenSeq(f.heard) \in Heard(texts)
      BY DEF Heard, Grounded
    <2>4. amount \in Amounts(texts)
      BY <1>2, <2>2, <2>3 DEF Amounts, Recognized
    <2>5. Recognized(f).value = amount
      BY <2>2 DEF Complete
    <2>6. OnDeadline(f, reason, now) = Leave(Decided(f, Success(amount)), now)
      BY <1>2, <2>5, Zenon DEF OnDeadline
    <2>. QED  BY <1>1, <2>4, <2>6, GroundedSucceeds
  <1>3. CASE ~(f.stage = "result" /\ Recognized(f).status = "complete")
    <2>1. OnDeadline(f, reason, now) = Fail(f, reason, now)
      BY <1>3, Zenon DEF OnDeadline
    <2>. QED  BY <1>1, <2>1, GroundedFails
  <1>. QED  BY <1>2, <1>3

LEMMA GroundedExpires ==
    ASSUME NEW texts, NEW f \in Flows, Grounded(f, texts), NEW now
    PROVE  Grows(f, Expire(f, now), texts) /\ Grows(f, CommandFailed(f, now), texts)
  <1>1. f \in FlowType /\ Grows(f, f, texts)
    BY DEF Flows, Grows
  <1>2. Grows(f, Expire(f, now), texts)
    BY <1>1, GroundedEnds, GroundedOverruns DEF Expire
  <1>3. Grows(f, CommandFailed(f, now), texts)
    BY <1>1, GroundedEnds, GroundedFails DEF CommandFailed
  <1>. QED  BY <1>2, <1>3

(* A tone for the stage that is on, after one for each stage before it.    *)
LEMMA GroundedKeys ==
    ASSUME NEW texts, NEW f \in Flows, Grounded(f, texts), f.stage \in Opens(texts),
           NEW digits \in Seq(0..9), NEW now \in Int, NEW at \in Int
    PROVE  Grows(f, SendDigits(f, digits, now, at), texts)
  <1>. DEFINE h == [do |-> "send_dtmf", stage |-> f.stage, digits |-> digits, at |-> at]
              g == SendDigits(f, digits, now, at)
              n == Len(f.issued)
  <1>1. f.stage \in DOMAIN NextStage
    BY DEF Opens
  <1>2. /\ h \in Commands /\ h.do = "send_dtmf" /\ h.stage = f.stage
        /\ f \in FlowType /\ f.issued \in Seq(Commands) /\ f.result = None
    BY <1>1, Ranks DEF Commands, Flows, FlowType, Decisive
  <1>3. /\ g.issued = Append(f.issued, h) /\ g.heard = <<>> /\ g.stage = NextStage[f.stage]
        /\ g.result = None
    BY <1>2 DEF SendDigits, Reserve, FlowType
  <1>4. <<>> \in Seq(texts)
    OBVIOUS
  <1>. HIDE DEF g, h
  <1>5. /\ DOMAIN f.issued = 1..n /\ n \in Nat /\ DOMAIN g.issued = 1..(n + 1)
        /\ Len(g.issued) = n + 1 /\ g.issued[n + 1] = h
        /\ \A i \in 1..n : g.issued[i] = f.issued[i]
    BY <1>2, <1>3, Appended
  <1>6. Tones(f) = 1..n /\ n = Rank[f.stage] - 1
    BY <1>1, Ranks DEF Grounded
  <1>7. Tones(g) = 1..(n + 1)
    <2>1. Tones(g) = Tones(f) \cup {n + 1}
      BY <1>2, <1>5 DEF Tones
    <2>. QED  BY <1>5, <1>6, <2>1
  <1>8. g.stage \notin {"dialing", "hanging_up", "ended"} /\ Rank[g.stage] = n + 2
    <2>1. g.stage \notin {"hanging_up", "ended"} /\ Rank[g.stage] = Rank[f.stage] + 1
          /\ Rank[f.stage] \in 1..5
      BY <1>1, <1>3, Ranks
    <2>. QED  BY <1>6, <2>1, Ranks
  <1>9. ASSUME NEW i \in Tones(g)
        PROVE  /\ g.issued[i].stage \in Opens(texts)
               /\ Rank[g.issued[i].stage] = i /\ 1..i \subseteq Tones(g)
    <2>1. 1..i \subseteq Tones(g)
      BY <1>5, <1>7
    <2>2. CASE i = n + 1
      <3>1. g.issued[i].stage = f.stage
        BY <1>2, <1>5, <2>2
      <3>2. Rank[f.stage] \in 1..5
        BY <1>1, Ranks
      <3>3. Rank[f.stage] = i
        BY <1>6, <2>2, <3>2
      <3>. QED  BY <2>1, <3>1, <3>3
    <2>3. CASE i # n + 1
      <3>1. i \in Tones(f) /\ g.issued[i] = f.issued[i]
        BY <1>5, <1>6, <1>7, <2>3
      <3>2. f.issued[i].stage \in Opens(texts) /\ Rank[f.issued[i].stage] = i
        BY <3>1 DEF Grounded
      <3>. QED  BY <2>1, <3>1, <3>2
    <2>. QED  BY <2>2, <2>3
  <1>10. Tones(f) \subseteq Tones(g)
    BY <1>5, <1>6, <1>7
  <1>11. /\ Tones(g) = 1..Len(g.issued)
         /\ Len(g.issued) = IF g.stage = "dialing" THEN 0 ELSE Rank[g.stage] - 1
    BY <1>5, <1>7, <1>8
  <1>12. Grows(f, g, texts)
    <2>. HIDE DEF n
    <2>. QED  BY <1>3, <1>4, <1>9, <1>10, <1>11, Zenon DEF Grounded, Grows
  <1>. QED  BY <1>12 DEF g

LEMMA GroundedEvaluates ==
    ASSUME NEW texts, NEW f \in Flows, Grounded(f, texts), f.stage \in DOMAIN StageSigns,
           NEW now \in Int, NEW at \in Int
    PROVE  Grows(f, Evaluate(f, now, at), texts)
  <1>. DEFINE found == Recognized(f)
  <1>1. Found(found, f.stage)
    BY RecognizesHeard
  <1>2. f \in FlowType /\ Grows(f, f, texts)
    BY DEF Flows, Grows
  <1>3. CASE found.status = "pending"
    <2>1. Evaluate(f, now, at) = f
      BY <1>3 DEF Evaluate
    <2>. QED  BY <1>2, <2>1
  <1>4. CASE found.status = "invalid"
    <2>1. Evaluate(f, now, at) = Fail(f, found.reason, now)
      BY <1>4 DEF Evaluate
    <2>. QED  BY <1>2, <2>1, GroundedFails
  <1>5. CASE found.status = "complete" /\ f.stage = "result"
    <2>1. Evaluate(f, now, at) = f
      BY <1>5 DEF Evaluate
    <2>. QED  BY <1>2, <2>1
  <1>6. CASE found.status = "complete" /\ f.stage # "result"
    <2>1. f.stage \in DOMAIN NextStage
      BY <1>6, Ranks
    <2>2. found.value \in Seq(0..9)
      <3>. HIDE DEF found
      <3>. QED  BY <1>1, <1>6 DEF Found, Pending, Invalid, Complete
    <2>3. FlattenSeq(f.heard) \in Heard(texts)
      BY DEF Heard, Grounded
    <2>4. f.stage \in Opens(texts)
      BY <1>6, <2>1, <2>3 DEF Opens, Recognized
    <2>5. Evaluate(f, now, at) = SendDigits(f, found.value, now, at)
      BY <1>6 DEF Evaluate
    <2>. HIDE DEF found
    <2>. QED  BY <2>2, <2>4, <2>5, GroundedKeys
  <1>7. found.status \in {"pending", "invalid", "complete"}
    <2>. HIDE DEF found
    <2>. QED  BY <1>1 DEF Found, Pending, Invalid, Complete
  <1>. HIDE DEF found
  <1>. QED  BY <1>3, <1>4, <1>5, <1>6, <1>7

LEMMA GroundedAnswers ==
    ASSUME NEW texts, NEW f \in Flows, Grounded(f, texts), NEW now \in Int
    PROVE  Grows(f, Answered(f, now), texts)
  <1>1. CASE f.stage # "dialing"
    BY <1>1 DEF Answered, Grows
  <1>2. CASE f.stage = "dialing"
    <2>. DEFINE g == [f EXCEPT !.stage = "welcome", !.since = now]
    <2>1. f \in FlowType /\ f.result = None /\ ~Hangs(f)
      BY <1>2 DEF Flows, Decisive, Base, HangsLast
    <2>2. Tones(f) = {} /\ Len(f.issued) = 0
      BY <1>2 DEF Grounded
    <2>3. /\ g \in FlowType /\ g.stage = "welcome" /\ g.heard = f.heard /\ g.last = f.last
          /\ g.result = f.result /\ g.issued = f.issued /\ g.pending = f.pending
      BY <2>1, Ranks DEF FlowType
    <2>. HIDE DEF g
    <2>4. Tones(g) = {} /\ ~Hangs(g)
      BY <2>1, <2>2, <2>3 DEF Tones, Hangs
    <2>5. g \in Flows
      BY <2>1, <2>3, <2>4
         DEF Flows, Base, Pends, HangsLast, Timed, TonesBefore, TonesOrdered, Decisive, LetGo
    <2>6. Grows(f, g, texts) /\ Grounded(g, texts)
      <3>1. Rank["welcome"] - 1 = 0 /\ Tones(g) = 1..Len(g.issued) /\ Len(g.issued) = 0
        BY <2>2, <2>3, <2>4 DEF Rank
      <3>. QED  BY <2>1, <2>2, <2>3, <2>4, <3>1 DEF Grows, Grounded
    <2>7. CASE f.heard = <<>>
      BY <1>2, <2>6, <2>7 DEF Answered, g
    <2>8. CASE f.heard # <<>>
      <3>1. f.last \in Int
        BY <2>1, <2>8 DEF Flows, FlowType, Maybe, Base, Timed
      <3>2. Grows(g, Evaluate(g, now, f.last), texts)
        BY <2>3, <2>5, <2>6, <3>1, GroundedEvaluates, Ranks
      <3>3. Answered(f, now) = Evaluate(g, now, f.last)
        BY <1>2, <2>8 DEF Answered, g
      <3>. QED  BY <2>6, <3>2, <3>3, GroundedTwice
    <2>. QED  BY <2>7, <2>8
  <1>. QED  BY <1>1, <1>2

LEMMA GroundedTranscribes ==
    ASSUME NEW texts, NEW f \in Flows, Grounded(f, texts), f.stage \notin {"hanging_up", "ended"},
           NEW e, e.at \in Int, e.text \in Seq(Tokens), e.text \in texts, NEW now \in Int
    PROVE  Grows(f, Transcribed(f, e, now), texts)
  <1>. DEFINE g == Listening(f, e)
  <1>1. f \in FlowType /\ Grows(f, f, texts)
    BY DEF Flows, Grows
  <1>2. /\ g \in Flows /\ g.stage = f.stage /\ g.result = f.result /\ g.issued = f.issued
        /\ g.heard = Append(f.heard, e.text)
    BY Listens
  <1>3. Transcribed(f, e, now) \in {f, Fail(f, "transcript_order", now),
                                    Fail(f, "buffer_overflow", now)}
        \/ Transcribed(f, e, now) = IF f.stage = "dialing" THEN g ELSE Evaluate(g, now, e.at)
    BY DEF Transcribed, Listening
  <1>. HIDE DEF g
  <1>4. g.heard \in Seq(texts)
    BY <1>2 DEF Grounded
  <1>5. Grows(f, g, texts) /\ Grounded(g, texts)
    BY <1>2, <1>4, GroundedStill DEF Grows
  <1>6. f.stage # "dialing" => Grows(f, Evaluate(g, now, e.at), texts)
    <2>1. f.stage # "dialing" => g.stage \in DOMAIN StageSigns
      BY <1>1, <1>2, Ranks DEF FlowType
    <2>. QED  BY <1>2, <1>5, <2>1, GroundedEvaluates, GroundedTwice
  <1>. QED  BY <1>1, <1>3, <1>5, <1>6, GroundedFails

LEMMA GroundedHangsUpRemotely ==
    ASSUME NEW texts, NEW f \in Flows, Grounded(f, texts), NEW now \in Int
    PROVE  Grows(f, RemoteHangup(f, now), texts)
  <1>1. f \in FlowType
    BY DEF Flows
  <1>2. CASE f.stage = "result"
    <2>. DEFINE g == RemoteHangup(f, now)
    <2>1. /\ g.stage = f.stage /\ g.result = f.result /\ g.issued = f.issued
          /\ g.heard = f.heard
      BY <1>1, <1>2 DEF RemoteHangup, FlowType
    <2>2. f.heard \in Seq(texts)
      BY DEF Grounded
    <2>. HIDE DEF g
    <2>3. Grows(f, g, texts)
      BY <2>1, <2>2, GroundedStill
    <2>. QED  BY <2>3 DEF g
  <1>3. CASE f.stage # "result"
    <2>. DEFINE r == ErrorResult("early_hangup", f.stage)
                d == Decided(f, r)
    <2>1. r \in Results /\ r.status = "error"
      BY ErrorsAreResults
    <2>. HIDE DEF r
    <2>2. d \in FlowType /\ Grows(f, d, texts) /\ Grounded(d, texts)
      BY <1>1, <2>1, GroundedDecides, Decides DEF Grows
    <2>. HIDE DEF d
    <2>3. Grows(f, Ended(d), texts)
      BY <2>2, GroundedEnds, GroundedTwice
    <2>4. RemoteHangup(f, now) = Ended(d)
      BY <1>3 DEF RemoteHangup, d, r
    <2>. QED  BY <2>3, <2>4
  <1>. QED  BY <1>2, <1>3

(* Of the transcripts that are delivered, each was spoken.                 *)
Told(events, texts) == \A e \in events : e.kind = "transcript" => e.text \in texts

LEMMA GroundedHandles ==
    ASSUME NEW texts, NEW f \in Flows, Grounded(f, texts), NEW e \in EventType,
           Told({e}, texts), NEW now \in Int
    PROVE  Grows(f, Handle(f, e, now), texts)
  <1>. DEFINE g == Noticing(f, e.id)
  <1>1. f \in FlowType /\ Grows(f, f, texts) /\ e.id \in Nat
    BY DEF Flows, Grows, EventType
  <1>2. /\ g \in Flows /\ g.stage = f.stage /\ g.result = f.result /\ g.issued = f.issued
        /\ g.heard = f.heard
    BY <1>1, Notices
  <1>3. \/ Handle(f, e, now) \in {f, OnDeadline(f, Expired(f, now), now),
                                  Fail(f, "event_overflow", now), g}
        \/ e.kind = "answered" /\ Handle(f, e, now) = Answered(g, now)
        \/ e.kind = "transcript" /\ f.stage \notin {"hanging_up", "ended"}
           /\ Handle(f, e, now) = Transcribed(g, e, now)
        \/ e.kind = "hangup" /\ Handle(f, e, now) = RemoteHangup(g, now)
    BY DEF Handle, Noticing
  <1>. HIDE DEF g
  <1>4. g.heard \in Seq(texts)
    BY <1>2 DEF Grounded
  <1>5. Grows(f, g, texts) /\ Grounded(g, texts)
    BY <1>2, <1>4, GroundedStill DEF Grows
  <1>6. Grows(f, Answered(g, now), texts) /\ Grows(f, RemoteHangup(g, now), texts)
    BY <1>2, <1>5, GroundedAnswers, GroundedHangsUpRemotely, GroundedTwice
  <1>7. e.kind = "transcript" /\ f.stage \notin {"hanging_up", "ended"}
        => Grows(f, Transcribed(g, e, now), texts)
    <2>1. e.kind = "transcript" => e.at \in Int /\ e.text \in Seq(Tokens) /\ e.text \in texts
      BY DEF EventType, Told
    <2>. QED  BY <1>2, <1>5, <2>1, GroundedTranscribes, GroundedTwice
  <1>. QED  BY <1>1, <1>3, <1>5, <1>6, <1>7, GroundedOverruns, GroundedFails

LEMMA GroundedAfresh ==
    ASSUME NEW texts, NEW now \in Int
    PROVE  Grounded(NewFlow(now), texts)
  <1>. DEFINE f == NewFlow(now)
  <1>1. f.issued = <<>> /\ f.stage = "dialing" /\ f.result = None /\ f.heard = <<>>
    BY DEF NewFlow
  <1>. HIDE DEF f
  <1>2. Tones(f) = {} /\ <<>> \in Seq(texts)
    BY <1>1 DEF Tones
  <1>3. Grounded(f, texts)
    BY <1>1, <1>2 DEF Grounded
  <1>. QED  BY <1>3 DEF f

LEMMA GroundedForgets ==
    ASSUME NEW texts, NEW f \in Flows, Grounded(f, texts)
    PROVE  Grows(f, Forgotten(f), texts)
  <1>. DEFINE g == Forgotten(f)
  <1>1. /\ g.stage = f.stage /\ g.result = f.result /\ g.issued = f.issued /\ g.heard = <<>>
    BY DEF Forgotten, Flows, FlowType
  <1>2. <<>> \in Seq(texts)
    OBVIOUS
  <1>. HIDE DEF g
  <1>3. Grows(f, g, texts)
    BY <1>1, <1>2, GroundedStill
  <1>. QED  BY <1>3 DEF g

LEMMA GroundedReplays ==
    ASSUME NEW texts, NEW c \in CallerType, NEW call, clock \in Int,
           Told(Range(c.buffer), texts)
    PROVE  Grounded(Replayed(c, call), texts)
  <1>. DEFINE S == {f \in Flows : Grounded(f, texts)}
              E == {e \in EventType : Told({e}, texts)}
  <1>1. c.buffer \in Seq(E)
    <2>1. c.buffer \in Seq(EventType)
      BY DEF CallerType
    <2>2. \A i \in 1..Len(c.buffer) : c.buffer[i] \in E
      BY <2>1 DEF Told, Range
    <2>. HIDE DEF E
    <2>. QED  BY <2>1, <2>2
  <1>2. NewFlow(clock) \in S
    BY Fresh, GroundedAfresh
  <1>3. \A f \in S : \A e \in E : Handle(f, e, clock) \in S
    BY Handles, GroundedHandles DEF Moves, Grows
  <1>. HIDE DEF S, E
  <1>4. Replayed(c, call) \in S
    BY <1>1, <1>2, <1>3, ReplaysWithin
  <1>. QED  BY <1>4 DEF S

-----------------------------------------------------------------------------
(* A run whose flow follows from what was said, as does what it reports.   *)
Founded(c, f, texts) ==
    /\ Told(Range(c.buffer), texts)
    /\ f # None => Grounded(f, texts)
    /\ c.report # None /\ c.report.status = "success" => c.report.value \in Amounts(texts)

Stems(texts) ==
    /\ Founded(caller', flow', texts)
    /\ flow # None => flow' # None /\ Tones(flow) \subseteq Tones(flow')

LEMMA NothingTold == \A texts : Told(Range(<<>>), texts)
  BY DEF Told, Range

LEMMA StemsStill ==
    ASSUME NEW texts, Founded(caller, flow, texts), flow' = flow,
           caller'.buffer \in {caller.buffer, <<>>},
           caller'.report = caller.report \/ caller'.report.status = "error"
    PROVE  Stems(texts)
  BY NothingTold DEF Founded, Stems

LEMMA StemsFromFlow ==
    ASSUME NEW texts, NEW c \in CallerType, Told(Range(c.buffer), texts), c.report = None,
           NEW g \in Flows, Grounded(g, texts), flow # None => Tones(flow) \subseteq Tones(g),
           GoOn(c, g)
    PROVE  Stems(texts)
  <1>1. CASE g.stage = "ended"
    <2>. DEFINE d == Finishing(c, g.result)
    <2>1. d.buffer = <<>> /\ d.report = g.result
      BY DEF Finishing, CallerType
    <2>2. Forgotten(g) \in Flows /\ Grows(g, Forgotten(g), texts)
      BY <1>1, Forgets, GroundedForgets
    <2>3. caller' = d /\ flow' = Forgotten(g)
      BY <1>1 DEF GoOn
    <2>. HIDE DEF d
    <2>4. Told(Range(caller'.buffer), texts)
      BY <2>1, <2>3, NothingTold
    <2>5. caller'.report # None /\ caller'.report.status = "success"
          => caller'.report.value \in Amounts(texts)
      BY <2>1, <2>3 DEF Grounded
    <2>. QED  BY <2>2, <2>3, <2>4, <2>5, NoneIsNoFlow DEF Stems, Founded, Grows
  <1>2. CASE g.stage # "ended"
    <2>1. caller' = c /\ flow' = g
      BY <1>2 DEF GoOn
    <2>. QED  BY <2>1, NoneIsNoFlow DEF Stems, Founded
  <1>. QED  BY <1>1, <1>2

LEMMA StemsWhenItGoesOn ==
    ASSUME NEW texts, Founded(caller, flow, texts), Holds(caller, flow), flow # None,
           NEW c \in CallerType, c.buffer = caller.buffer, c.report = None,
           NEW g, Moves(flow, g), Grows(flow, g, texts), GoOn(c, g)
    PROVE  Stems(texts)
  BY StemsFromFlow DEF Founded, Moves, Grows

LEMMA StemsWhenItFinishes ==
    ASSUME NEW texts, Founded(caller, flow, texts), NEW c \in CallerType, NEW reason,
           Finish(c, reason)
    PROVE  Stems(texts)
  <1>. DEFINE r == ErrorResult(reason, "dialing")
  <1>1. r.status = "error"
    BY ErrorsAreResults
  <1>. HIDE DEF r
  <1>2. Finishing(c, r).buffer = <<>> /\ Finishing(c, r).report = r
    BY DEF Finishing, CallerType
  <1>3. caller' = Finishing(c, r) /\ flow' = flow
    BY DEF Finish, r
  <1>. QED  BY <1>1, <1>2, <1>3, StemsStill

LEMMA StemsWhenItBinds ==
    ASSUME NEW texts, Founded(caller, flow, texts), flow = None, clock \in Int,
           NEW c \in CallerType, c.buffer = caller.buffer, c.report = None,
           NEW call \in Calls, Bind(c, call)
    PROVE  Stems(texts)
  <1>. DEFINE excuse == IF c.excuse = None THEN "dial_uncertain" ELSE c.excuse
              d == [c EXCEPT !.bound = call, !.buffer = <<>>]
              f == Replayed(c, call)
              g == IF c.uncertain THEN Stop(f, excuse, clock) ELSE f
  <1>1. f \in Flows /\ Grounded(f, texts)
    BY Replays, GroundedReplays DEF Founded
  <1>2. GoOn(d, g)
    BY Zenon DEF Bind
  <1>. HIDE DEF f, excuse
  <1>3. g \in Flows /\ Grounded(g, texts)
    BY <1>1, StopsFlow, GroundedFails DEF Moves, Grows, Flows
  <1>4. d \in CallerType /\ d.buffer = <<>> /\ d.report = None
    <2>1. call \in Maybe(Calls) /\ <<>> \in Seq(EventType)
      BY DEF Maybe
    <2>. QED  BY <2>1 DEF CallerType
  <1>. HIDE DEF d, g
  <1>5. Told(Range(d.buffer), texts)
    BY <1>4, NothingTold
  <1>. QED  BY <1>2, <1>3, <1>4, <1>5, StemsFromFlow

LEMMA StemsWhenHeldOpen ==
    ASSUME NEW texts, Founded(caller, flow, texts), flow' = flow, NEW c \in CallerType,
           c.buffer = caller.buffer, c.report = caller.report, NEW reason,
           caller' = Uncertain(c, reason) \/ caller' = [Uncertain(c, reason) EXCEPT !.excuse = c.excuse]
    PROVE  Stems(texts)
  <1>1. caller'.buffer = caller.buffer /\ caller'.report = caller.report
    BY DEF Uncertain, CallerType
  <1>. QED  BY <1>1, StemsStill

LEMMA StemsWhenItRunsOut ==
    ASSUME NEW texts, Founded(caller, flow, texts), Holds(caller, flow), UnboundExpires(caller)
    PROVE  Stems(texts)
  <1>1. caller \in CallerType
    BY DEF Holds
  <1>. QED  BY <1>1, StemsWhenItFinishes, StemsWhenHeldOpen DEF UnboundExpires

(* An early callback is kept, or names the call.                           *)
LEMMA StemsFromPreface ==
    ASSUME NEW texts, Founded(caller, flow, texts), Holds(caller, flow), Running, flow = None,
           clock \in Int, NEW e \in EventType, Told({e}, texts), NEW ours \in BOOLEAN,
           Preface(caller, e, ours)
    PROVE  Stems(texts)
  <1>1. caller \in CallerType /\ caller.report = None
    BY DEF Holds, Reports, RunOver, Running
  <1>2. e.id \in Nat /\ e.call \in Calls
    BY DEF EventType
  <1>3. CASE ours
    <2>. DEFINE seen == IF Cardinality(caller.seen) < MaxEventIds
                        THEN caller.seen \cup {e.id} ELSE caller.seen
                d == [caller EXCEPT !.seen = seen]
    <2>1. seen \in SUBSET Nat
      BY <1>1, <1>2 DEF CallerType
    <2>2. Bind(d, e.call)
      BY <1>1, <1>3 DEF Preface, CallerType
    <2>. HIDE DEF seen
    <2>3. d \in CallerType /\ d.report = None /\ d.buffer = caller.buffer
      BY <1>1, <2>1 DEF CallerType
    <2>. HIDE DEF d
    <2>. QED  BY <1>2, <2>2, <2>3, StemsWhenItBinds
  <1>4. CASE ~ours
    <2>. DEFINE kept == [caller EXCEPT !.seen = caller.seen \cup {e.id},
                                       !.buffer = Append(caller.buffer, e)]
    <2>1. kept.buffer = Append(caller.buffer, e) /\ kept.report = None
      BY <1>1 DEF CallerType
    <2>2. \/ \E reason : caller' = Uncertain(caller, reason)
          \/ caller' = kept
      BY <1>1, <1>4 DEF Preface, CallerType
    <2>3. flow' = flow
      BY <1>4 DEF Preface
    <2>. HIDE DEF kept
    <2>4. CASE caller' = kept
      <3>1. caller.buffer \in Seq(EventType)
        BY <1>1 DEF CallerType
      <3>2. Range(kept.buffer) = Range(caller.buffer) \cup {e}
        BY <2>1, <3>1 DEF Range
      <3>3. Told(Range(kept.buffer), texts)
        BY <3>2 DEF Told, Founded
      <3>. QED  BY <2>1, <2>3, <2>4, <3>3 DEF Stems, Founded
    <2>. QED  BY <1>1, <2>2, <2>3, <2>4, StemsWhenHeldOpen
  <1>. QED  BY <1>3, <1>4

LEMMA StemsFromClose ==
    ASSUME NEW texts, Founded(caller, flow, texts), Holds(caller, flow), Running,
           clock \in Int, BeginClose(caller)
    PROVE  Stems(texts)
  <1>. DEFINE c == [caller EXCEPT !.closing = clock + CleanupBudget]
  <1>1. caller \in CallerType /\ caller.report = None
    BY DEF Holds, Reports, RunOver, Running
  <1>2. CASE flow # None
    <2>1. flow \in Flows /\ flow \in FlowType
      BY <1>2 DEF Holds, Flows
    <2>2. Moves(flow, Stop(flow, "shutdown", clock))
          /\ Grows(flow, Stop(flow, "shutdown", clock), texts)
      BY <1>2, <2>1, StopsFlow, GroundedFails DEF Founded
    <2>3. c \in CallerType /\ c.buffer = caller.buffer /\ c.report = None
      <3>1. clock + CleanupBudget \in Maybe(Int)
        BY IvrFlowAssumption DEF Maybe
      <3>. QED  BY <1>1, <3>1 DEF CallerType
    <2>4. GoOn(c, Stop(flow, "shutdown", clock))
      BY <1>2 DEF BeginClose
    <2>. HIDE DEF c
    <2>. QED  BY <1>2, <2>2, <2>3, <2>4, StemsWhenItGoesOn
  <1>3. CASE flow = None
    <2>1. caller'.buffer = caller.buffer /\ caller'.report = caller.report /\ flow' = flow
      BY <1>1, <1>3 DEF BeginClose, CallerType
    <2>. QED  BY <2>1, StemsStill
  <1>. QED  BY <1>2, <1>3

LEMMA StemsFromReply ==
    ASSUME NEW texts, Founded(caller, flow, texts), Holds(caller, flow), clock \in Int,
           NEW reply, DialReply(reply)
    PROVE  Stems(texts)
  <1>. DEFINE c == [caller EXCEPT !.dial = "settled"]
  <1>1. caller \in CallerType /\ caller.report = None
    BY DEF Holds, Reports, RunOver, Asks, DialReply
  <1>2. c \in CallerType /\ c.report = None /\ c.buffer = caller.buffer
        /\ c.bound = caller.bound /\ c.excuse = caller.excuse
    BY <1>1 DEF CallerType
  <1>3. \/ reply \in Calls /\ flow = None /\ Bind(c, reply)
        \/ reply \in Calls /\ flow # None
           /\ GoOn(c, IF reply = c.bound THEN flow ELSE Stop(flow, "identity_conflict", clock))
        \/ caller' = c /\ flow' = flow
        \/ Finish(c, "dial_rejected")
        \/ flow' = flow /\ (\/ caller' = Uncertain(c, "internal_error")
                            \/ caller' = [Uncertain(c, None) EXCEPT !.excuse = c.excuse])
    BY DEF DialReply
  <1>. HIDE DEF c
  <1>4. CASE reply \in Calls /\ flow = None /\ Bind(c, reply)
    BY <1>2, <1>4, StemsWhenItBinds
  <1>5. CASE /\ reply \in Calls /\ flow # None
             /\ GoOn(c, IF reply = c.bound THEN flow
                        ELSE Stop(flow, "identity_conflict", clock))
    <2>. DEFINE g == IF reply = c.bound THEN flow ELSE Stop(flow, "identity_conflict", clock)
    <2>1. flow \in Flows /\ flow \in FlowType /\ Grounded(flow, texts)
      BY <1>5 DEF Holds, Flows, Founded
    <2>2. Moves(flow, g) /\ Grows(flow, g, texts)
      BY <2>1, Stays, StopsFlow, GroundedFails DEF Grows
    <2>3. GoOn(c, g)
      BY <1>5
    <2>. HIDE DEF g
    <2>. QED  BY <1>2, <1>5, <2>2, <2>3, StemsWhenItGoesOn
  <1>6. CASE caller' = c /\ flow' = flow
    BY <1>1, <1>2, <1>6, StemsStill
  <1>. QED  BY <1>1, <1>2, <1>3, <1>4, <1>5, <1>6, StemsWhenItFinishes, StemsWhenHeldOpen

LEMMA StemsFromEvent ==
    ASSUME NEW texts, Founded(caller, flow, texts), Holds(caller, flow), clock \in Int,
           NEW e \in EventType, Told({e}, texts), NEW ours \in BOOLEAN, Accept(e, ours)
    PROVE  Stems(texts)
  <1>1. caller \in CallerType /\ Running /\ caller.report = None
    BY DEF Accept, Running, Holds, Reports, RunOver
  <1>2. CASE flow = None /\ UnboundExpires(caller)
    BY <1>2, StemsWhenItRunsOut
  <1>3. CASE flow = None /\ Preface(caller, e, ours)
    BY <1>1, <1>3, StemsFromPreface
  <1>4. CASE flow # None /\ GoOn(caller, Handle(flow, e, clock))
    <2>1. Moves(flow, Handle(flow, e, clock)) /\ Grows(flow, Handle(flow, e, clock), texts)
      BY <1>4, Handles, GroundedHandles DEF Holds, Founded
    <2>. QED  BY <1>1, <1>4, <2>1, StemsWhenItGoesOn
  <1>. QED  BY <1>2, <1>3, <1>4 DEF Accept

LEMMA StemsFromTime ==
    ASSUME NEW texts, Founded(caller, flow, texts), Holds(caller, flow), clock \in Int,
           Watchdog \/ CommandFails
    PROVE  Stems(texts)
  <1>1. caller \in CallerType /\ (Running => caller.report = None)
    BY DEF Running, Holds, Reports, RunOver
  <1>2. CASE UNCHANGED <<caller, flow>>
    BY <1>2, StemsStill
  <1>3. CASE Running /\ flow # None /\ GoOn(caller, Expire(flow, clock))
    <2>1. Moves(flow, Expire(flow, clock)) /\ Grows(flow, Expire(flow, clock), texts)
      BY <1>3, Expires, GroundedExpires DEF Holds, Founded
    <2>. QED  BY <1>1, <1>3, <2>1, StemsWhenItGoesOn
  <1>4. CASE flow = None /\ UnboundExpires(caller)
    BY <1>4, StemsWhenItRunsOut
  <1>5. CASE CommandFails
    <2>1. Running /\ flow # None /\ GoOn(caller, CommandFailed(flow, clock))
      BY <1>5 DEF CommandFails
    <2>2. Moves(flow, CommandFailed(flow, clock))
          /\ Grows(flow, CommandFailed(flow, clock), texts)
      BY <1>5, FailsCommand, GroundedExpires DEF CommandFails, Holds, Founded
    <2>. QED  BY <1>1, <2>1, <2>2, StemsWhenItGoesOn
  <1>. QED  BY <1>2, <1>3, <1>4, <1>5 DEF Watchdog

LEMMA StemsFromEnd ==
    ASSUME NEW texts, Founded(caller, flow, texts), Holds(caller, flow), EndClose
    PROVE  Stems(texts)
  <1>1. /\ caller \in CallerType /\ caller.report = None /\ caller.phase = "running"
        /\ caller.closing # None
    BY DEF EndClose, Running, Holds, Reports, RunOver
  <1>2. CASE flow = None
    <2>1. Finish(caller, "hangup_unconfirmed")
      BY <1>2 DEF EndClose
    <2>. QED  BY <1>1, <2>1, StemsWhenItFinishes
  <1>3. CASE flow # None
    <2>. DEFINE r == ErrorResult("shutdown", flow.stage)
                d == Decided(flow, r)
                g == Ended(d)
    <2>1. /\ flow \in FlowType /\ Base(flow) /\ Hangs(flow) /\ flow.result # None
      BY <1>1, <1>3 DEF Holds, Lives, Flows, Base, HangsLast, Decisive
    <2>2. r \in Results /\ r.status = "error"
      BY ErrorsAreResults
    <2>3. GoOn(caller, g)
      BY <1>3 DEF EndClose
    <2>. HIDE DEF r
    <2>4. /\ d \in FlowType /\ Base(d) /\ Hangs(d) /\ d.result # None
          /\ d.result = flow.result
      BY <2>1, <2>2, Decides
    <2>5. Grows(flow, d, texts) /\ Grounded(d, texts)
      BY <1>3, <2>1, <2>2, GroundedDecides DEF Founded, Grows
    <2>. HIDE DEF d
    <2>6. Moves(flow, g) /\ Grows(flow, g, texts)
      BY <2>4, <2>5, EndsFlow, GroundedEnds, GroundedTwice DEF Moves
    <2>. HIDE DEF g
    <2>. QED  BY <1>1, <1>3, <2>3, <2>6, StemsWhenItGoesOn
  <1>. QED  BY <1>2, <1>3

LEMMA StemsFromBounds ==
    ASSUME NEW texts, Founded(caller, flow, texts), Holds(caller, flow), Start \/ Join
    PROVE  Stems(texts)
  <1>1. caller \in CallerType
    BY DEF Holds
  <1>2. flow' = flow /\ caller'.buffer = caller.buffer /\ caller'.report = caller.report
    BY <1>1 DEF Start, Join, CallerType
  <1>. QED  BY <1>2, StemsStill

(* What more is said takes nothing back.                                   *)
LEMMA FoundedOnMore ==
    ASSUME NEW texts, NEW more, texts \subseteq more, NEW c, NEW f, Founded(c, f, texts)
    PROVE  Founded(c, f, more)
  <1>1. Seq(texts) \subseteq Seq(more)
    OBVIOUS
  <1>2. Heard(texts) \subseteq Heard(more)
    BY <1>1 DEF Heard
  <1>3. Opens(texts) \subseteq Opens(more) /\ Amounts(texts) \subseteq Amounts(more)
    BY <1>2 DEF Opens, Amounts
  <1>. QED  BY <1>1, <1>3 DEF Founded, Grounded, Told

-----------------------------------------------------------------------------
(* A text is read for a stage only when nothing in it is a rejection or    *)
(* belongs to two stages.                                                  *)
Unmistaken(text) ==
    /\ \A i \in DOMAIN Rejections : ~Hears(text, Rejections[i][1])
    /\ ~(Cardinality(StagesPresent(text)) > 1)

LEMMA Dispatches ==
    ASSUME NEW stage \in DOMAIN StageSigns, NEW text,
           Recognize(stage, text).status = "complete"
    PROVE  LET found == Recognize(stage, text)
           IN  /\ Unmistaken(text)
               /\ stage = "welcome" =>
                      found = RecognizeChoice(text, {"1 to continue"}, {"other to continue"}, <<1>>)
               /\ stage = "challenge" => found = RecognizeChallenge(text)
               /\ stage = "menu" =>
                      found = RecognizeChoice(text, {"1 for personal", "2 for business"},
                                              {"other for personal", "other for business"}, <<1>>)
               /\ stage = "identifier" =>
                      found = RecognizeChoice(text, {"9 digit personal id"},
                                              {"other digit personal id"}, SyntheticId)
               /\ stage = "confirmation" => found = RecognizeConfirmation(text)
               /\ stage = "result" => found = RecognizeResult(text)
  <1>. DEFINE heard == {i \in DOMAIN Rejections : Hears(text, Rejections[i][1])}
              found == Recognize(stage, text)
  <1>1. heard = {}
    <2>1. CASE heard # {}
      <3>1. found = Invalid(Rejections[Min(heard)][2])
        BY <2>1, Zenon DEF Recognize
      <3>. QED  BY <3>1 DEF Invalid
    <2>. QED  BY <2>1
  <1>2. ~(Cardinality(StagesPresent(text)) > 1)
    <2>1. CASE Cardinality(StagesPresent(text)) > 1
      <3>1. found = Invalid("ambiguous")
        BY <1>1, <2>1, Zenon DEF Recognize
      <3>. QED  BY <3>1 DEF Invalid
    <2>. QED  BY <2>1
  <1>3. Unmistaken(text)
    BY <1>1, <1>2, Zenon DEF Unmistaken
  <1>4. /\ stage = "welcome" =>
               found = RecognizeChoice(text, {"1 to continue"}, {"other to continue"}, <<1>>)
        /\ stage = "challenge" => found = RecognizeChallenge(text)
        /\ stage = "menu" =>
               found = RecognizeChoice(text, {"1 for personal", "2 for business"},
                                       {"other for personal", "other for business"}, <<1>>)
        /\ stage = "identifier" =>
               found = RecognizeChoice(text, {"9 digit personal id"},
                                       {"other digit personal id"}, SyntheticId)
        /\ stage = "confirmation" => found = RecognizeConfirmation(text)
        /\ stage = "result" => found = RecognizeResult(text)
    BY <1>1, <1>2 DEF Recognize
  <1>. HIDE DEF found
  <1>. QED  BY <1>3, <1>4, Zenon DEF found

(* A stage is completed only by a text with one of its own signs.          *)
LEMMA CompletedBySign ==
    ASSUME NEW stage \in DOMAIN NextStage, NEW text, Recognize(stage, text).status = "complete"
    PROVE  \E t \in StageSigns[stage] : Hears(text, t)
  <1>. DEFINE found == Recognize(stage, text)
  <1>1. stage \in {"welcome", "challenge", "menu", "identifier", "confirmation"}
        /\ stage \in DOMAIN StageSigns
    BY Ranks
  <1>2. /\ stage = "welcome" =>
               found = RecognizeChoice(text, {"1 to continue"}, {"other to continue"}, <<1>>)
        /\ stage = "challenge" => found = RecognizeChallenge(text)
        /\ stage = "menu" =>
               found = RecognizeChoice(text, {"1 for personal", "2 for business"},
                                       {"other for personal", "other for business"}, <<1>>)
        /\ stage = "identifier" =>
               found = RecognizeChoice(text, {"9 digit personal id"},
                                       {"other digit personal id"}, SyntheticId)
        /\ stage = "confirmation" => found = RecognizeConfirmation(text)
    BY <1>1, Dispatches, Zenon
  <1>3. found.status = "complete"
    OBVIOUS
  <1>. HIDE DEF found
  <1>4. ASSUME NEW right, NEW wrong, NEW digits,
               found = RecognizeChoice(text, right, wrong, digits)
        PROVE  \A r \in right : Hears(text, r)
    BY <1>3, <1>4 DEF RecognizeChoice, Pending, Invalid
  <1>5. CASE stage = "welcome"
    <2>1. Hears(text, "1 to continue")
      BY <1>2, <1>4, <1>5, Zenon
    <2>. QED  BY <1>5, <2>1, Zenon DEF StageSigns
  <1>6. CASE stage = "menu"
    <2>1. Hears(text, "1 for personal")
      BY <1>2, <1>4, <1>6, Zenon
    <2>. QED  BY <1>6, <2>1, Zenon DEF StageSigns
  <1>7. CASE stage = "identifier"
    <2>1. Hears(text, "9 digit personal id")
      BY <1>2, <1>4, <1>7, Zenon
    <2>. QED  BY <1>7, <2>1, Zenon DEF StageSigns
  <1>8. CASE stage = "challenge"
    <2>1. Hears(text, "code is")
      <3>1. ASSUME ~Hears(text, "code is")
            PROVE  RecognizeChallenge(text) = Pending
                   \/ RecognizeChallenge(text) = Invalid("challenge_unrecognized")
        BY <3>1, Zenon DEF RecognizeChallenge
      <3>2. found # Pending /\ found # Invalid("challenge_unrecognized")
        BY <1>3 DEF Pending, Invalid
      <3>. QED  BY <1>2, <1>8, <3>1, <3>2, Zenon
    <2>. QED  BY <1>8, <2>1, Zenon DEF StageSigns
  <1>9. CASE stage = "confirmation"
    <2>1. Hears(text, "you entered")
      <3>1. ASSUME ~Hears(text, "you entered")
            PROVE  RecognizeConfirmation(text) = Pending
                   \/ RecognizeConfirmation(text) = Invalid("confirmation_unrecognized")
        BY <3>1, Zenon DEF RecognizeConfirmation
      <3>2. found # Pending /\ found # Invalid("confirmation_unrecognized")
        BY <1>3 DEF Pending, Invalid
      <3>. QED  BY <1>2, <1>9, <3>1, <3>2, Zenon
    <2>. QED  BY <1>9, <2>1, Zenon DEF StageSigns
  <1>. QED  BY <1>1, <1>5, <1>6, <1>7, <1>8, <1>9

(* What can be said before the prompts of other stages are.                *)
Voice(stages) ==
    {t \in Tokens : \A s \in DOMAIN StageSigns : t \in StageSigns[s] => s \in stages}

LEMMA OpensVoiced ==
    ASSUME NEW stages, NEW texts, texts \subseteq Seq(Voice(stages))
    PROVE  Opens(texts) \subseteq stages
  <1>. SUFFICES ASSUME NEW s \in Opens(texts) PROVE s \in stages
    OBVIOUS
  <1>1. PICK text \in Heard(texts) : Recognize(s, text).status = "complete"
    BY DEF Opens
  <1>2. PICK heard \in Seq(texts) : text = FlattenSeq(heard)
    BY DEF Heard
  <1>. DEFINE V == Voice(stages)
  <1>3. heard \in Seq(Seq(V))
    <2>1. Seq(texts) \subseteq Seq(Seq(V))
      <3>. HIDE DEF V
      <3>. DEFINE W == Seq(V)
      <3>1. texts \subseteq W
        BY DEF V
      <3>. HIDE DEF W
      <3>. QED  BY <3>1 DEF W
    <2>. QED  BY <2>1
  <1>4. text \in Seq(V)
    <2>. HIDE DEF V
    <2>. QED  BY <1>2, <1>3, Flattened
  <1>5. s \in DOMAIN NextStage /\ s \in DOMAIN StageSigns
    BY Ranks DEF Opens
  <1>6. PICK t \in StageSigns[s] : Hears(text, t)
    BY <1>1, <1>5, CompletedBySign
  <1>7. t \in V
    <2>1. PICK i \in 1..Len(text) : text[i] = t
      BY <1>6 DEF Hears, Contains
    <2>. HIDE DEF V
    <2>. QED  BY <1>4, <2>1
  <1>. QED  BY <1>5, <1>6, <1>7 DEF Voice

(* Numbers, as they are spelt.                                             *)
Onwards(m, words)   == IF m = 0 THEN <<>> ELSE words[m]
Decades(n, words)   == <<Tens[n \div 10]>> \o Onwards(n % 10, words)
Hundreds(n, words)  == words[n \div 100] \o <<"hundred">> \o Onwards(n % 100, words)
Thousands(n, words) == words[n \div 1000] \o <<"thousand">> \o Onwards(n % 1000, words)

Spelling(n, words) ==
    IF n < 20 THEN <<Small[n + 1]>>
    ELSE IF n < 100 THEN Decades(n, words)
    ELSE IF n < 1000 THEN Hundreds(n, words) ELSE Thousands(n, words)

UpTo(n) == 0..n

LEMMA Bounded == ASSUME NEW k \in Nat  PROVE \A n : n \in UpTo(k) <=> n \in Nat /\ n <= k
  BY DEF UpTo

Numbers == UpTo(9999)

LEMMA InNumbers == \A n : n \in Numbers <=> n \in Nat /\ n <= 9999
  BY Bounded DEF Numbers

LEMMA Divides ==
    ASSUME NEW n \in Nat
    PROVE  /\ n \div 10 \in Nat /\ n % 10 \in Nat /\ n % 10 < 10
           /\ n = 10 * (n \div 10) + (n % 10)
           /\ n \div 100 \in Nat /\ n % 100 \in Nat /\ n % 100 < 100
           /\ n = 100 * (n \div 100) + (n % 100)
           /\ n \div 1000 \in Nat /\ n % 1000 \in Nat /\ n % 1000 < 1000
           /\ n = 1000 * (n \div 1000) + (n % 1000)
  OBVIOUS

(* A number is spelt by the spellings of smaller ones.                     *)
Agree(v, w, n) == \A m \in Nat : m < n => v[m] = w[m]

LEMMA SpelledBySmaller ==
    ASSUME NEW n \in Nat, n <= 9999, NEW v, NEW w,
           n >= 20 => Agree(v, w, IF n < 100 THEN 10 ELSE IF n < 1000 THEN 100 ELSE 1000)
    PROVE  Spelling(n, v) = Spelling(n, w)
  <1>1. CASE n < 20
    BY <1>1 DEF Spelling
  <1>2. CASE n >= 20 /\ n < 100
    <2>1. v[n % 10] = w[n % 10]
      BY <1>2, Divides DEF Agree
    <2>. QED  BY <1>2, <2>1 DEF Spelling, Decades, Onwards
  <1>3. CASE n >= 100 /\ n < 1000
    <2>1. v[n % 100] = w[n % 100]
      BY <1>3, Divides DEF Agree
    <2>2. v[n \div 100] = w[n \div 100]
      BY <1>3, Divides DEF Agree
    <2>. QED  BY <1>3, <2>1, <2>2 DEF Spelling, Hundreds, Onwards
  <1>4. CASE n >= 1000
    <2>1. v[n % 1000] = w[n % 1000]
      BY <1>4, Divides DEF Agree
    <2>2. v[n \div 1000] = w[n \div 1000]
      BY <1>4, Divides DEF Agree
    <2>. QED  BY <1>4, <2>1, <2>2 DEF Spelling, Thousands, Onwards
  <1>. QED  BY <1>1, <1>2, <1>3, <1>4

LEMMA Spelt ==
    \A n \in Nat : n <= 9999 => IntegerWords[n] = Spelling(n, IntegerWords)
  <1>0. PICK w0 : w0 = [n \in UpTo(19) |-> Spelling(n, <<>>)]
    OBVIOUS
  <1>1. PICK w1 : w1 = [n \in UpTo(99) |-> Spelling(n, w0)]
    OBVIOUS
  <1>2. PICK w2 : w2 = [n \in UpTo(999) |-> Spelling(n, w1)]
    OBVIOUS
  <1>3. PICK w3 : w3 = [n \in Numbers |-> Spelling(n, w2)]
    BY Zenon
  <1>4. /\ \A n \in UpTo(19) : w0[n] = Spelling(n, <<>>)
        /\ \A n \in UpTo(99) : w1[n] = Spelling(n, w0)
        /\ \A n \in UpTo(999) : w2[n] = Spelling(n, w1)
        /\ \A n \in Numbers : w3[n] = Spelling(n, w2)
    BY <1>0, <1>1, <1>2, <1>3
  <1>5. /\ \A n \in Nat : n <= 19 => w0[n] = Spelling(n, <<>>)
        /\ \A n \in Nat : n <= 99 => w1[n] = Spelling(n, w0)
        /\ \A n \in Nat : n <= 999 => w2[n] = Spelling(n, w1)
        /\ \A n \in Nat : n <= 9999 => w3[n] = Spelling(n, w2)
    BY <1>4, Bounded, InNumbers
  <1>6. Agree(w0, w1, 20) /\ Agree(w1, w2, 20) /\ Agree(w2, w3, 20)
    BY <1>5, SpelledBySmaller DEF Agree
  <1>7. Agree(w1, w2, 100) /\ Agree(w2, w3, 100)
    <2>1. ASSUME NEW n \in Nat, n < 100  PROVE w1[n] = w2[n] /\ w2[n] = w3[n]
      <3>1. Agree(w0, w1, 10) /\ Agree(w1, w2, 10)
        BY <1>6 DEF Agree
      <3>. QED  BY <1>5, <2>1, <3>1, SpelledBySmaller
    <2>. QED  BY <2>1 DEF Agree
  <1>8. Agree(w2, w3, 1000)
    <2>1. ASSUME NEW n \in Nat, n < 1000  PROVE w2[n] = w3[n]
      <3>1. Agree(w1, w2, 10) /\ Agree(w1, w2, 100)
        BY <1>6, <1>7 DEF Agree
      <3>. QED  BY <1>5, <2>1, <3>1, SpelledBySmaller
    <2>. QED  BY <2>1 DEF Agree
  <1>9. ASSUME NEW n \in Nat, n <= 9999  PROVE w3[n] = Spelling(n, w3)
    <2>1. Agree(w2, w3, 10) /\ Agree(w2, w3, 100)
      BY <1>8 DEF Agree
    <2>. QED  BY <1>5, <1>8, <1>9, <2>1, SpelledBySmaller
  <1>10. w3 = [n \in Numbers |-> Spelling(n, w3)]
    <2>1. \A n \in Numbers : w3[n] = Spelling(n, w3)
      BY <1>9, InNumbers
    <2>2. w3 = [n \in Numbers |-> w3[n]]
      BY <1>3
    <2>. QED  BY <2>1, <2>2
  <1>11. \E w : w = [n \in Numbers |-> Spelling(n, w)]
    BY <1>10, Zenon
  <1>12. IntegerWords = CHOOSE w : w = [n \in Numbers |-> Spelling(n, w)]
    BY SMT DEF Numbers, UpTo, IntegerWords, Spelling, Decades, Hundreds, Thousands, Onwards
  <1>13. IntegerWords = [n \in Numbers |-> Spelling(n, IntegerWords)]
    BY <1>11, <1>12, Zenon
  <1>. QED  BY <1>13, InNumbers


(* The words that numbers are spelt with.                                  *)
Numbering ==
    {"zero", "one", "two", "three", "four", "five", "six", "seven", "eight", "nine", "ten",
     "eleven", "twelve", "thirteen", "fourteen", "fifteen", "sixteen", "seventeen", "eighteen",
     "nineteen", "twenty", "thirty", "forty", "fifty", "sixty", "seventy", "eighty", "ninety",
     "hundred", "thousand"}

LEMMA NumberingWords ==
    /\ \A i \in 1..20 : Small[i] \in Numbering
    /\ \A i \in 2..9 : Tens[i] \in Numbering
    /\ \A w \in Numbering : \/ \E i \in 1..20 : w = Small[i]
                            \/ \E i \in 2..9 : w = Tens[i]
                            \/ w \in {"hundred", "thousand"}
  <1>1. \A i \in 1..20 : Small[i] \in Numbering
    BY SMT DEF Small, Numbering
  <1>2. ASSUME NEW i \in 2..9  PROVE Tens[i] \in Numbering
    <2>1. i \in {2, 3, 4, 5, 6, 7, 8, 9}
      OBVIOUS
    <2>2. /\ Tens[2] = "twenty" /\ Tens[3] = "thirty" /\ Tens[4] = "forty" /\ Tens[5] = "fifty"
          /\ Tens[6] = "sixty" /\ Tens[7] = "seventy" /\ Tens[8] = "eighty" /\ Tens[9] = "ninety"
      BY DEF Tens
    <2>3. {Tens[2], Tens[3], Tens[4], Tens[5], Tens[6], Tens[7], Tens[8], Tens[9]}
              \subseteq Numbering
      BY <2>2 DEF Numbering
    <2>. QED  BY <2>1, <2>3
  <1>3. ASSUME NEW w \in Numbering
        PROVE  \/ \E i \in 1..20 : w = Small[i]
               \/ \E i \in 2..9 : w = Tens[i]
               \/ w \in {"hundred", "thousand"}
    BY SMT DEF Small, Tens, Numbering
  <1>. QED  BY <1>1, <1>2, <1>3

LEMMA TokenWords ==
    /\ \A i \in 1..20 : Small[i] \in Tokens
    /\ \A i \in 2..9 : Tens[i] \in Tokens
    /\ {"unavailable", "hundred", "thousand", "and", "dollar", "dollars", "cent", "cents", "."}
       \subseteq Tokens
  <1>1. \A i \in 1..20 : Small[i] \in Tokens
    BY Zenon DEF Tokens, NumberWords
  <1>2. \A i \in 2..9 : Tens[i] \in Tokens
    BY Zenon DEF Tokens, NumberWords
  <1>3. {"unavailable", "hundred", "thousand", "and", "dollar", "dollars", "cent", "cents", "."}
       \subseteq Tokens
    BY Zenon DEF Tokens
  <1>. QED BY <1>1, <1>2, <1>3

LEMMA PhraseTokens ==
    /\ {"not accepted", "could not verify", "not supported", "service unavailable"} \subseteq Tokens
    /\ {"1 to continue", "code is", "enter code", "1 for personal", "2 for business",
        "9 digit personal id", "you entered", "1 if correct", "value is"} \subseteq Tokens
  <1>1. {"not accepted", "could not verify", "not supported", "service unavailable"}
            \subseteq Tokens
    <2>1. \A i \in DOMAIN Rejections : Rejections[i][1] \in Tokens
      BY Zenon DEF Tokens
    <2>2. /\ Rejections[1][1] = "not accepted" /\ Rejections[2][1] = "could not verify"
          /\ Rejections[3][1] = "not supported" /\ Rejections[4][1] = "service unavailable"
          /\ {1, 2, 3, 4} \subseteq DOMAIN Rejections
      BY DEF Rejections
    <2>. QED BY <2>1, <2>2, Zenon
  <1>2. {"1 to continue", "code is", "enter code", "1 for personal", "2 for business",
        "9 digit personal id", "you entered", "value is"} \subseteq Tokens
    <2>1. \A s \in DOMAIN StageSigns : StageSigns[s] \subseteq Tokens
      BY Zenon DEF Tokens, Signs
    <2>2. {"welcome", "challenge", "menu", "identifier", "confirmation", "result"}
              \subseteq DOMAIN StageSigns
      BY DEF StageSigns
    <2>3. {"1 to continue", "code is", "enter code", "1 for personal", "2 for business",
        "9 digit personal id", "you entered", "value is"} \subseteq
        UNION {StageSigns["welcome"], StageSigns["challenge"], StageSigns["menu"],
               StageSigns["identifier"], StageSigns["confirmation"], StageSigns["result"]}
      BY DEF StageSigns
    <2>. QED BY <2>1, <2>2, <2>3, Zenon
  <1>3. "1 if correct" \in Tokens
    BY Zenon DEF Tokens
  <1>. QED BY <1>1, <1>2, <1>3, Zenon

LEMMA OfWords ==
    ASSUME NEW S
    PROVE  /\ <<>> \in Seq(S)
           /\ \A t \in S : <<t>> \in Seq(S)
           /\ \A t, u \in S : <<t, u>> \in Seq(S)
           /\ \A a, b \in Seq(S) : a \o b \in Seq(S)
  OBVIOUS

LEMMA DigitsAreText ==
    ASSUME NEW digits \in Seq(0..9)
    PROVE  DigitWords(digits) \in Seq(Numbering)
  <1>1. ASSUME NEW i \in 1..Len(digits)  PROVE Small[digits[i] + 1] \in Numbering
    <2>1. PICK d \in 0..9 : digits[i] = d
      OBVIOUS
    <2>2. d + 1 \in 1..20
      OBVIOUS
    <2>. QED  BY <2>1, <2>2, NumberingWords
  <1>3. DOMAIN digits = 1..Len(digits) /\ Len(digits) \in Nat
    OBVIOUS
  <1>. QED  BY <1>1, <1>3 DEF DigitWords

LEMMA SpellsInText ==
    ASSUME NEW words, \A n \in Nat : n <= 9999 => words[n] = Spelling(n, words)
    PROVE  \A n \in Nat : n <= 9999 => words[n] \in Seq(Numbering)
  <1>. DEFINE Text(n) == words[n] \in Seq(Numbering)
  <1>1. \A n \in Nat : n <= 9999 => words[n] = Spelling(n, words)
    OBVIOUS
  <1>2. ASSUME NEW n \in Nat, n < 20  PROVE Text(n)
    <2>1. Spelling(n, words) = <<Small[n + 1]>> /\ n + 1 \in 1..20
      BY <1>2 DEF Spelling
    <2>2. <<Small[n + 1]>> \in Seq(Numbering)
      BY <2>1, NumberingWords
    <2>3. words[n] = Spelling(n, words)
      BY <1>1, <1>2
    <2>. QED  BY <2>1, <2>2, <2>3
  <1>3. ASSUME NEW n \in Nat, 20 <= n, n < 100  PROVE Text(n)
    <2>1. n % 10 \in Nat /\ Text(n % 10) /\ n \div 10 \in 2..9
      BY <1>2, <1>3, Divides
    <2>2. Spelling(n, words) = Decades(n, words)
      BY <1>3 DEF Spelling
    <2>3. words[n] = Spelling(n, words)
      BY <1>1, <1>3
    <2>4. <<>> \in Seq(Numbering) /\ <<Tens[n \div 10]>> \in Seq(Numbering)
      <3>1. PICK k \in 2..9 : k = n \div 10
        BY <2>1
      <3>2. <<>> \in Seq(Numbering) /\ <<Tens[k]>> \in Seq(Numbering)
        BY NumberingWords
      <3>. QED  BY <3>1, <3>2
    <2>5. Onwards(n % 10, words) \in Seq(Numbering)
      BY <2>1, <2>4 DEF Onwards
    <2>6. Decades(n, words) \in Seq(Numbering)
      BY <2>4, <2>5, OfWords DEF Decades
    <2>. QED  BY <2>2, <2>3, <2>6
  <1>4. ASSUME NEW n \in Nat, 100 <= n, n < 1000  PROVE Text(n)
    <2>1. n % 100 \in Nat /\ Text(n % 100) /\ Text(n \div 100)
      BY <1>2, <1>3, <1>4, Divides
    <2>2. Spelling(n, words) = Hundreds(n, words)
      BY <1>4 DEF Spelling
    <2>3. words[n] = Spelling(n, words)
      BY <1>1, <1>4
    <2>4. <<>> \in Seq(Numbering) /\ <<"hundred">> \in Seq(Numbering)
      BY DEF Numbering
    <2>5. Onwards(n % 100, words) \in Seq(Numbering)
      BY <2>1, <2>4 DEF Onwards
    <2>6. Hundreds(n, words) \in Seq(Numbering)
      BY <2>1, <2>4, <2>5, OfWords DEF Hundreds
    <2>. QED  BY <2>2, <2>3, <2>6
  <1>5. ASSUME NEW n \in Nat, 1000 <= n, n <= 9999  PROVE Text(n)
    <2>1. n % 1000 \in Nat /\ Text(n % 1000) /\ Text(n \div 1000)
      BY <1>2, <1>3, <1>4, <1>5, Divides
    <2>2. Spelling(n, words) = Thousands(n, words)
      BY <1>5 DEF Spelling
    <2>3. words[n] = Spelling(n, words)
      BY <1>1, <1>5
    <2>4. <<>> \in Seq(Numbering) /\ <<"thousand">> \in Seq(Numbering)
      BY DEF Numbering
    <2>5. Onwards(n % 1000, words) \in Seq(Numbering)
      BY <2>1, <2>4 DEF Onwards
    <2>6. Thousands(n, words) \in Seq(Numbering)
      BY <2>1, <2>4, <2>5, OfWords DEF Thousands
    <2>. QED  BY <2>2, <2>3, <2>6
  <1>6. \A n \in Nat : n <= 9999 => Text(n)
    BY <1>2, <1>3, <1>4, <1>5
  <1>. QED  BY <1>6

LEMMA SpeltInText ==
    \A n \in Nat : n <= 9999 => IntegerWords[n] \in Seq(Numbering)
  BY Spelt, SpellsInText, SMT

(* The phrases of the stages, each a sign of one stage.                    *)
LEMMA SignsOfStages ==
    /\ StageSigns["welcome"] = {"1 to continue", "other to continue"}
    /\ StageSigns["challenge"] = {"code is", "enter code"}
    /\ StageSigns["menu"] = {"1 for personal", "other for personal",
                             "2 for business", "other for business"}
    /\ StageSigns["identifier"] = {"9 digit personal id", "other digit personal id"}
    /\ StageSigns["confirmation"] = {"you entered"}
    /\ StageSigns["result"] = {"value is"}
    /\ DOMAIN StageSigns = {"welcome", "challenge", "menu", "identifier", "confirmation", "result"}
  BY Zenon DEF StageSigns

SpokenSigns ==
    {"1 to continue", "other to continue", "code is", "enter code", "1 for personal",
     "other for personal", "2 for business", "other for business", "9 digit personal id",
     "other digit personal id", "you entered", "value is"}

PlainWords ==
    Numbering \cup {"not accepted", "could not verify", "not supported", "service unavailable",
                    "1 if correct", "unavailable", "and", "dollar", "dollars", "cent", "cents", "."}

LEMMA PlainOrSign ==
    /\ PlainWords \cap SpokenSigns = {}
    /\ \A s \in DOMAIN StageSigns : StageSigns[s] \subseteq SpokenSigns
    /\ \A s, r \in DOMAIN StageSigns : \A t \in StageSigns[s] : t \in StageSigns[r] => s = r
  <1>1. Numbering \cap SpokenSigns = {}
    BY Zenon DEF Numbering, SpokenSigns
  <1>2. {"not accepted", "could not verify", "not supported", "service unavailable",
         "1 if correct", "unavailable", "and", "dollar", "dollars", "cent", "cents", "."}
        \cap SpokenSigns = {}
    BY Zenon DEF SpokenSigns
  <1>3. PlainWords \cap SpokenSigns = {}
    BY <1>1, <1>2, Zenon DEF PlainWords
  <1>4. \A s \in DOMAIN StageSigns : StageSigns[s] \subseteq SpokenSigns
    BY SignsOfStages, Zenon DEF SpokenSigns
  <1>5. ASSUME NEW s \in DOMAIN StageSigns, NEW r \in DOMAIN StageSigns,
               NEW t \in StageSigns[s], t \in StageSigns[r]
        PROVE  s = r
    <2>1. CASE s = "welcome"
      BY <1>5, <2>1, SignsOfStages, Zenon
    <2>2. CASE s = "challenge"
      BY <1>5, <2>2, SignsOfStages, Zenon
    <2>3. CASE s = "menu"
      BY <1>5, <2>3, SignsOfStages, Zenon
    <2>4. CASE s = "identifier"
      BY <1>5, <2>4, SignsOfStages, Zenon
    <2>5. CASE s = "confirmation"
      BY <1>5, <2>5, SignsOfStages, Zenon
    <2>6. CASE s = "result"
      BY <1>5, <2>6, SignsOfStages, Zenon
    <2>. QED  BY <1>5, <2>1, <2>2, <2>3, <2>4, <2>5, <2>6, SignsOfStages, Zenon
  <1>. QED  BY <1>3, <1>4, <1>5, Zenon

LEMMA Voices ==
    ASSUME NEW stages
    PROVE  /\ Voice(stages) \subseteq Tokens
           /\ PlainWords \subseteq Voice(stages)
           /\ \A s \in DOMAIN StageSigns : s \in stages => StageSigns[s] \subseteq Voice(stages)
  <1>1. Numbering \subseteq Tokens
    BY NumberingWords, TokenWords, Zenon
  <1>2. PlainWords \subseteq Tokens
    BY <1>1, TokenWords, PhraseTokens, Zenon DEF PlainWords
  <1>3. \A s \in DOMAIN StageSigns : StageSigns[s] \subseteq Tokens
    BY Zenon DEF Tokens, Signs
  <1>4. PlainWords \subseteq Voice(stages)
    BY <1>2, PlainOrSign, Zenon DEF Voice
  <1>. QED  BY <1>3, <1>4, PlainOrSign, Zenon DEF Voice


-----------------------------------------------------------------------------
(* What a spelt number is worth: a word adds to the group or closes it.    *)
Sums == [value : Int, group : Int]

Sum(v, g) == [value |-> v, group |-> g]

Adds(acc, word) ==
    CASE word = "thousand" -> [value |-> acc.value + acc.group * 1000, group |-> 0]
      [] word = "hundred"  -> [acc EXCEPT !.group = @ * 100]
      [] OTHER             -> [acc EXCEPT !.group = @ + SmallValue(word)]

(* Word by word, from one sum to another.                                  *)
Adding(words, x, y) ==
    \E after \in [0..Len(words) -> Sums] :
        /\ after[0] = x /\ after[Len(words)] = y
        /\ \A i \in 1..Len(words) : after[i] = Adds(after[i - 1], words[i])

LEMMA TensOneByOne ==
    /\ \A i \in 2..9 : i \in {2, 3, 4, 5, 6, 7, 8, 9}
    /\ Tens[2] = "twenty" /\ Tens[3] = "thirty" /\ Tens[4] = "forty" /\ Tens[5] = "fifty"
    /\ Tens[6] = "sixty" /\ Tens[7] = "seventy" /\ Tens[8] = "eighty" /\ Tens[9] = "ninety"
  BY DEF Tens

LEMMA SmallOrTens ==
    ASSUME NEW i \in 2..9, NEW j \in 1..20
    PROVE  Tens[i] # Small[j] /\ Tens[i] \notin {"hundred", "thousand"}
           /\ Small[j] \notin {"hundred", "thousand"}
  <1>1. Tens[i] \in {"twenty", "thirty", "forty", "fifty", "sixty", "seventy", "eighty", "ninety"}
    <2>1. i \in {2, 3, 4, 5, 6, 7, 8, 9}
      OBVIOUS
    <2>. QED  BY <2>1, TensOneByOne, Zenon
  <1>2. Small[j] \notin {"twenty", "thirty", "forty", "fifty", "sixty", "seventy", "eighty",
                         "ninety", "hundred", "thousand"}
    BY SMTT(30) DEF Small
  <1>. QED  BY <1>1, <1>2, Zenon

LEMMA WordValues ==
    /\ \A i \in 1..20 : SmallValue(Small[i]) = i - 1
    /\ \A i \in 2..9 : SmallValue(Tens[i]) = 10 * i
  <1>1. DOMAIN Small = 1..20 /\ \A i, j \in 1..20 : Small[i] = Small[j] => i = j
    BY SMTT(30) DEF Small
  <1>2. ASSUME NEW i \in 1..20  PROVE SmallValue(Small[i]) = i - 1
    <2>. HIDE DEF Small
    <2>1. (CHOOSE j \in DOMAIN Small : Small[j] = Small[i]) = i
      BY <1>1
    <2>. QED  BY <1>1, <2>1, Zenon DEF SmallValue
  <1>3. DOMAIN Tens = 1..9 /\ \A i \in 2..9, j \in 1..9 : Tens[i] = Tens[j] => i = j
    BY SMTT(30) DEF Tens
  <1>4. ASSUME NEW i \in 2..9  PROVE SmallValue(Tens[i]) = 10 * i
    <2>. HIDE DEF Small, Tens
    <2>1. (CHOOSE j \in DOMAIN Tens : Tens[j] = Tens[i]) = i
      BY <1>3
    <2>2. ~(\E j \in DOMAIN Small : Small[j] = Tens[i])
      BY <1>1, SmallOrTens
    <2>. QED  BY <2>1, <2>2, Zenon DEF SmallValue
  <1>. QED  BY <1>2, <1>4

LEMMA AddsOne ==
    ASSUME NEW x \in Sums
    PROVE  /\ \A i \in 1..20 : Adds(x, Small[i]) = Sum(x.value, x.group + (i - 1))
           /\ \A i \in 2..9 : Adds(x, Tens[i]) = Sum(x.value, x.group + 10 * i)
           /\ Adds(x, "hundred") = Sum(x.value, x.group * 100)
           /\ Adds(x, "thousand") = Sum(x.value + x.group * 1000, 0)
  <1>1. ASSUME NEW word, word \notin {"hundred", "thousand"}
        PROVE  Adds(x, word) = Sum(x.value, x.group + SmallValue(word))
    BY <1>1 DEF Adds, Sum, Sums
  <1>2. ASSUME NEW i \in 1..20  PROVE Adds(x, Small[i]) = Sum(x.value, x.group + (i - 1))
    <2>1. 2 \in 2..9
      OBVIOUS
    <2>. QED  BY <1>1, <2>1, SmallOrTens, WordValues
  <1>3. ASSUME NEW i \in 2..9  PROVE Adds(x, Tens[i]) = Sum(x.value, x.group + 10 * i)
    <2>1. 1 \in 1..20
      OBVIOUS
    <2>. QED  BY <1>1, <2>1, SmallOrTens, WordValues
  <1>4. Adds(x, "hundred") = Sum(x.value, x.group * 100)
    BY DEF Adds, Sum, Sums
  <1>5. Adds(x, "thousand") = Sum(x.value + x.group * 1000, 0)
    BY DEF Adds, Sum, Sums
  <1>. QED  BY <1>2, <1>3, <1>4, <1>5

LEMMA AddingNone == ASSUME NEW x \in Sums  PROVE Adding(<<>>, x, x)
  <1>1. PICK f \in [0..0 -> Sums] : f[0] = x
    <2>. DEFINE f == [i \in 0..0 |-> x]
    <2>1. f \in [0..0 -> Sums] /\ f[0] = x
      OBVIOUS
    <2>. HIDE DEF f
    <2>. QED  BY <2>1
  <1>2. Len(<<>>) = 0 /\ 1..0 = {}
    OBVIOUS
  <1>. QED  BY <1>1, <1>2 DEF Adding

LEMMA AddingOne ==
    ASSUME NEW x \in Sums, NEW word, Adds(x, word) \in Sums
    PROVE  Adding(<<word>>, x, Adds(x, word))
  <1>. DEFINE after == [i \in 0..1 |-> IF i = 0 THEN x ELSE Adds(x, word)]
  <1>1. Len(<<word>>) = 1 /\ <<word>>[1] = word
    OBVIOUS
  <1>2. after \in [0..1 -> Sums] /\ after[0] = x /\ after[1] = Adds(x, word)
    OBVIOUS
  <1>3. \A i \in 1..1 : after[i] = Adds(after[i - 1], <<word>>[i])
    <2>. HIDE DEF after
    <2>. QED  BY <1>1, <1>2
  <1>. HIDE DEF after
  <1>. QED  BY <1>1, <1>2, <1>3 DEF Adding

LEMMA AddingBoth ==
    ASSUME NEW S, NEW s \in Seq(S), NEW t \in Seq(S), NEW x, NEW y, NEW z,
           Adding(s, x, y), Adding(t, y, z)
    PROVE  Adding(s \o t, x, z)
  <1>1. PICK f \in [0..Len(s) -> Sums] :
            /\ f[0] = x /\ f[Len(s)] = y
            /\ \A i \in 1..Len(s) : f[i] = Adds(f[i - 1], s[i])
    BY DEF Adding
  <1>2. PICK g \in [0..Len(t) -> Sums] :
            /\ g[0] = y /\ g[Len(t)] = z
            /\ \A i \in 1..Len(t) : g[i] = Adds(g[i - 1], t[i])
    BY DEF Adding
  <1>3. PICK m \in Nat : m = Len(s)
    OBVIOUS
  <1>4. PICK n \in Nat : n = Len(t)
    OBVIOUS
  <1>5. /\ Len(s \o t) = m + n
        /\ \A i \in 1..m : (s \o t)[i] = s[i]
        /\ \A i \in m + 1 .. m + n : (s \o t)[i] = t[i - m]
    BY <1>3, <1>4
  <1>. DEFINE h == [i \in 0..(m + n) |-> IF i <= m THEN f[i] ELSE g[i - m]]
  <1>6. /\ h \in [0..(m + n) -> Sums]
        /\ \A i \in 0..m : h[i] = f[i]
        /\ \A i \in m..(m + n) : h[i] = g[i - m]
    BY <1>1, <1>2, <1>3, <1>4
  <1>. HIDE DEF h
  <1>7. h[0] = x /\ h[m + n] = z
    <2>1. 0 \in 0..m /\ m + n \in m..(m + n) /\ (m + n) - m = n
      OBVIOUS
    <2>2. h[m + n] = g[n]
      BY <1>6, <2>1
    <2>. QED  BY <1>1, <1>2, <1>4, <1>6, <2>1, <2>2
  <1>8. ASSUME NEW i \in 1..(m + n)  PROVE h[i] = Adds(h[i - 1], (s \o t)[i])
    <2>1. CASE i <= m
      <3>1. i \in 1..m /\ i \in 0..m /\ i - 1 \in 0..m
        BY <2>1
      <3>2. h[i] = f[i] /\ h[i - 1] = f[i - 1] /\ (s \o t)[i] = s[i]
        BY <1>5, <1>6, <3>1
      <3>3. f[i] = Adds(f[i - 1], s[i])
        BY <1>1, <1>3, <3>1
      <3>. QED  BY <3>2, <3>3
    <2>2. CASE i > m
      <3>1. i - m \in 1..n /\ i - 1 \in m..(m + n) /\ (i - 1) - m = (i - m) - 1
            /\ i \in m + 1 .. m + n /\ i \in m..(m + n)
        BY <2>2
      <3>2. h[i] = g[i - m] /\ h[i - 1] = g[(i - m) - 1]
        BY <1>6, <3>1
      <3>3. (s \o t)[i] = t[i - m]
        BY <1>5, <3>1
      <3>4. g[i - m] = Adds(g[(i - m) - 1], t[i - m])
        BY <1>2, <1>4, <3>1
      <3>. QED  BY <3>2, <3>3, <3>4
    <2>. QED  BY <2>1, <2>2
  <1>. QED  BY <1>5, <1>6, <1>7, <1>8 DEF Adding

(* A value is found by adding from nothing.                                *)
LEMMA ValueByAdding ==
    ASSUME NEW S, NEW words \in Seq(S), NEW y, Adding(words, Sum(0, 0), y)
    PROVE  ValueOf(words) = y.value + y.group
  <1>1. PICK f \in [0..Len(words) -> Sums] :
            /\ f[0] = Sum(0, 0) /\ f[Len(words)] = y
            /\ \A i \in 1..Len(words) : f[i] = Adds(f[i - 1], words[i])
    BY DEF Adding
  <1>2. PICK n \in Nat : n = Len(words)
    OBVIOUS
  <1>. DEFINE Totals(g) == [i \in 0..n |-> IF i = 0 THEN Sum(0, 0) ELSE Adds(g[i - 1], words[i])]
              made == CHOOSE g : g = Totals(g)
  <1>3. f = Totals(f)
    BY <1>1, <1>2
  <1>4. made = Totals(made)
    <2>. HIDE DEF Totals
    <2>. QED  BY <1>3, Zenon
  <1>. HIDE DEF made
  <1>5. made[0] = Sum(0, 0) /\ \A i \in 1..n : made[i] = Adds(made[i - 1], words[i])
    BY <1>4
  <1>. DEFINE T == {i \in 0..n : made[i] = f[i]}
  <1>6. 0 \in T /\ \A i \in 0..(n - 1) : i \in T => i + 1 \in T
    BY <1>1, <1>2, <1>5
  <1>7. 0..n \subseteq T
    <2>. HIDE DEF T
    <2>. QED  BY <1>6, AllPositions
  <1>8. made[n] = y
    BY <1>1, <1>2, <1>7
  <1>9. ValueOf(words) = made[n].value + made[n].group
    BY <1>2, Zenon DEF ValueOf, made, Totals, Adds, Sum
  <1>. QED  BY <1>8, <1>9


LEMMA SpeltOut ==
    ASSUME NEW n \in Nat, n <= 9999
    PROVE  /\ n < 20 => IntegerWords[n] = <<Small[n + 1]>>
           /\ 20 <= n /\ n < 100 => IntegerWords[n] = Decades(n, IntegerWords)
           /\ 100 <= n /\ n < 1000 => IntegerWords[n] = Hundreds(n, IntegerWords)
           /\ 1000 <= n => IntegerWords[n] = Thousands(n, IntegerWords)
  <1>1. IntegerWords[n] = Spelling(n, IntegerWords)
    BY Spelt
  <1>. QED  BY <1>1 DEF Spelling

(* What the words of a number come to, added to a group or begun with.     *)
LEMMA UnitsAdd ==
    ASSUME NEW n \in Nat, n < 20, NEW x \in Sums
    PROVE  Adding(IntegerWords[n], x, Sum(x.value, x.group + n))
  <1>1. n <= 9999 /\ n + 1 \in 1..20
    OBVIOUS
  <1>2. IntegerWords[n] = <<Small[n + 1]>>
    BY <1>1, SpeltOut
  <1>3. Adds(x, Small[n + 1]) = Sum(x.value, x.group + n)
    <2>1. PICK k \in 1..20 : k = n + 1
      BY <1>1
    <2>2. Adds(x, Small[k]) = Sum(x.value, x.group + (k - 1)) /\ k - 1 = n
      BY <2>1, AddsOne
    <2>. QED  BY <2>1, <2>2
  <1>4. Sum(x.value, x.group + n) \in Sums
    BY DEF Sum, Sums
  <1>5. Adding(<<Small[n + 1]>>, x, Adds(x, Small[n + 1]))
    BY <1>3, <1>4, AddingOne
  <1>. QED  BY <1>2, <1>3, <1>5

(* Nothing more, or a number.                                              *)
LEMMA MoreAdds ==
    ASSUME NEW m \in Nat, m <= 9999, NEW x \in Sums,
           m > 0 => Adding(IntegerWords[m], x, Sum(x.value, x.group + m))
    PROVE  /\ Adding(Onwards(m, IntegerWords), x, Sum(x.value, x.group + m))
           /\ Onwards(m, IntegerWords) \in Seq(Numbering)
  <1>1. CASE m = 0
    <2>1. Onwards(m, IntegerWords) = <<>> /\ <<>> \in Seq(Numbering)
      BY <1>1 DEF Onwards
    <2>2. Sum(x.value, x.group + m) = x
      BY <1>1 DEF Sum, Sums
    <2>. QED  BY <2>1, <2>2, AddingNone
  <1>2. CASE m > 0
    BY <1>2, SpeltInText DEF Onwards
  <1>. QED  BY <1>1, <1>2

LEMMA TensAdd ==
    ASSUME NEW n \in Nat, n < 100, NEW x \in Sums
    PROVE  Adding(IntegerWords[n], x, Sum(x.value, x.group + n))
  <1>1. CASE n < 20
    BY <1>1, UnitsAdd
  <1>2. CASE n >= 20
    <2>1. PICK k \in 2..9, m \in Nat : k = n \div 10 /\ m = n % 10 /\ m < 10 /\ n = 10 * k + m
      <3>1. n \div 10 \in 2..9
        BY <1>2, Divides
      <3>. QED  BY <3>1, Divides
    <2>2. IntegerWords[n] = <<Tens[k]>> \o Onwards(m, IntegerWords)
      <3>1. n <= 9999
        OBVIOUS
      <3>2. IntegerWords[n] = Decades(n, IntegerWords)
        BY <1>2, <3>1, SpeltOut
      <3>. QED  BY <2>1, <3>2 DEF Decades
    <2>. DEFINE y == Sum(x.value, x.group + 10 * k)
    <2>3. y \in Sums /\ y.value = x.value /\ y.group = x.group + 10 * k
      BY DEF Sum, Sums
    <2>4. Adding(<<Tens[k]>>, x, y)
      BY <2>3, AddsOne, AddingOne
    <2>. HIDE DEF y
    <2>5. m > 0 => Adding(IntegerWords[m], y, Sum(y.value, y.group + m))
      BY <2>1, <2>3, UnitsAdd
    <2>6. /\ Adding(Onwards(m, IntegerWords), y, Sum(y.value, y.group + m))
          /\ Onwards(m, IntegerWords) \in Seq(Numbering)
      BY <2>1, <2>3, <2>5, MoreAdds
    <2>7. <<Tens[k]>> \in Seq(Numbering)
      BY NumberingWords
    <2>8. Sum(y.value, y.group + m) = Sum(x.value, x.group + n)
      BY <2>1, <2>3 DEF Sums
    <2>. QED  BY <2>2, <2>4, <2>6, <2>7, <2>8, AddingBoth
  <1>. QED  BY <1>1, <1>2

LEMMA HundredsAdd ==
    ASSUME NEW n \in Nat, n < 1000, NEW x \in Sums, x.group = 0
    PROVE  Adding(IntegerWords[n], x, Sum(x.value, n))
  <1>0. x.value \in Int
    BY DEF Sums
  <1>1. CASE n < 100
    BY <1>1, TensAdd
  <1>2. CASE n >= 100
    <2>1. PICK k \in 1..9, m \in Nat : k = n \div 100 /\ m = n % 100 /\ m < 100 /\ n = 100 * k + m
      <3>1. n \div 100 \in 1..9
        BY <1>2, Divides
      <3>. QED  BY <3>1, Divides
    <2>2. IntegerWords[n] = IntegerWords[k] \o <<"hundred">> \o Onwards(m, IntegerWords)
      <3>1. n <= 9999
        OBVIOUS
      <3>2. IntegerWords[n] = Hundreds(n, IntegerWords)
        BY <1>2, <3>1, SpeltOut
      <3>. QED  BY <2>1, <3>2 DEF Hundreds
    <2>. DEFINE y == Sum(x.value, k)
                z == Sum(x.value, k * 100)
    <2>3. /\ y \in Sums /\ y.value = x.value /\ y.group = k
          /\ z \in Sums /\ z.value = x.value /\ z.group = 100 * k
      BY <1>0 DEF Sum, Sums
    <2>4. Adding(IntegerWords[k], x, y)
      <3>1. k \in Nat /\ k < 20 /\ x.group + k = k
        OBVIOUS
      <3>. QED  BY <3>1, UnitsAdd
    <2>5. Adding(<<"hundred">>, y, z)
      BY <2>3, AddsOne, AddingOne
    <2>. HIDE DEF y, z
    <2>6. m > 0 => Adding(IntegerWords[m], z, Sum(z.value, z.group + m))
      BY <2>1, <2>3, TensAdd
    <2>7. /\ Adding(Onwards(m, IntegerWords), z, Sum(z.value, z.group + m))
          /\ Onwards(m, IntegerWords) \in Seq(Numbering)
      BY <2>1, <2>3, <2>6, MoreAdds
    <2>8. IntegerWords[k] \in Seq(Numbering) /\ <<"hundred">> \in Seq(Numbering)
      <3>1. k \in Nat /\ k <= 9999 /\ "hundred" \in Numbering
        BY DEF Numbering
      <3>. QED  BY <3>1, SpeltInText
    <2>9. Sum(z.value, z.group + m) = Sum(x.value, n)
      BY <2>1, <2>3
    <2>10. Adding(IntegerWords[k] \o <<"hundred">>, x, z)
      BY <2>4, <2>5, <2>8, AddingBoth
    <2>11. IntegerWords[k] \o <<"hundred">> \in Seq(Numbering)
      BY <2>8
    <2>. QED  BY <2>2, <2>7, <2>9, <2>10, <2>11, AddingBoth
  <1>. QED  BY <1>1, <1>2

FourDigits(n) == 1000 <= n /\ n <= 9999

(* Three parts of a text add up one after the other.                       *)
LEMMA AddingThrough ==
    ASSUME NEW s \in Seq(Numbering), NEW t \in Seq(Numbering), NEW u \in Seq(Numbering),
           NEW x \in Sums, NEW y \in Sums, NEW z \in Sums, NEW w \in Sums,
           Adding(s, x, y), Adding(t, y, z), Adding(u, z, w)
    PROVE  Adding(s \o t \o u, x, w)
  <1>1. Adding(s \o t, x, z)
    BY AddingBoth
  <1>2. s \o t \in Seq(Numbering)
    OBVIOUS
  <1>. QED  BY <1>1, <1>2, AddingBoth

LEMMA ThousandsAdd ==
    ASSUME NEW n \in Nat, FourDigits(n), NEW x \in Sums, x.group = 0
    PROVE  \E y \in Sums : Adding(IntegerWords[n], x, y) /\ y.value + y.group = x.value + n
  <1>0. x.value \in Int
    BY DEF Sums
  <1>1. PICK k \in 1..9, m \in Nat : k = n \div 1000 /\ m = n % 1000 /\ m < 1000 /\ n = 1000 * k + m
    <2>1. n \div 1000 \in 1..9
      BY Divides DEF FourDigits
    <2>. QED  BY <2>1, Divides DEF FourDigits
  <1>2. IntegerWords[n] = IntegerWords[k] \o <<"thousand">> \o Onwards(m, IntegerWords)
    <2>1. IntegerWords[n] = Thousands(n, IntegerWords)
      BY SpeltOut DEF FourDigits
    <2>. QED  BY <1>1, <2>1 DEF Thousands
  <1>. DEFINE y == Sum(x.value, k)
              z == Sum(x.value + k * 1000, 0)
  <1>3. /\ y \in Sums /\ y.value = x.value /\ y.group = k
        /\ z \in Sums /\ z.value = x.value + k * 1000 /\ z.group = 0
    BY <1>0 DEF Sum, Sums
  <1>4. Adding(IntegerWords[k], x, y)
    <2>1. k \in Nat /\ k < 20 /\ x.group + k = k
      OBVIOUS
    <2>. QED  BY <2>1, UnitsAdd
  <1>5. Adding(<<"thousand">>, y, z)
    <2>1. Adds(y, "thousand") = z
      BY <1>3, AddsOne
    <2>. QED  BY <1>3, <2>1, AddingOne
  <1>. HIDE DEF y, z
  <1>6. m > 0 => Adding(IntegerWords[m], z, Sum(z.value, z.group + m))
    BY <1>1, <1>3, HundredsAdd
  <1>. DEFINE t == Sum(z.value, z.group + m)
  <1>7. Adding(Onwards(m, IntegerWords), z, t) /\ Onwards(m, IntegerWords) \in Seq(Numbering)
    BY <1>1, <1>3, <1>6, MoreAdds
  <1>8. t \in Sums /\ t.value + t.group = x.value + n
    <2>1. z.value \in Int /\ z.group + m = m
      BY <1>3 DEF Sums
    <2>2. t.value = z.value /\ t.group = m /\ t \in Sums
      BY <2>1 DEF Sum, Sums
    <2>. HIDE DEF t
    <2>. QED  BY <1>0, <1>1, <1>3, <2>2
  <1>. HIDE DEF t
  <1>9. IntegerWords[k] \in Seq(Numbering) /\ <<"thousand">> \in Seq(Numbering)
    <2>1. k \in Nat /\ k <= 9999 /\ "thousand" \in Numbering
      BY DEF Numbering
    <2>. QED  BY <2>1, SpeltInText
  <1>10. Adding(IntegerWords[k] \o <<"thousand">> \o Onwards(m, IntegerWords), x, t)
    <2>1. x \in Sums /\ y \in Sums /\ z \in Sums /\ t \in Sums
      BY <1>3, <1>8
    <2>2. PICK r \in Seq(Numbering), u \in Seq(Numbering), v \in Seq(Numbering) :
              r = IntegerWords[k] /\ u = <<"thousand">> /\ v = Onwards(m, IntegerWords)
      BY <1>7, <1>9
    <2>3. Adding(r, x, y) /\ Adding(u, y, z) /\ Adding(v, z, t)
      BY <1>4, <1>5, <1>7, <2>2
    <2>4. Adding(r \o u \o v, x, t)
      BY <2>1, <2>3, AddingThrough, Zenon
    <2>. QED  BY <2>2, <2>4
  <1>. QED  BY <1>2, <1>8, <1>10

(* A number that is spelt is worth what it is.                             *)
LEMMA SpeltValue ==
    ASSUME NEW n \in Nat, n <= 9999
    PROVE  ValueOf(IntegerWords[n]) = n
  <1>1. PICK x \in Sums : x = Sum(0, 0) /\ x.value = 0 /\ x.group = 0
    <2>1. Sum(0, 0) \in Sums /\ Sum(0, 0).value = 0 /\ Sum(0, 0).group = 0
      BY DEF Sum, Sums
    <2>. QED  BY <2>1
  <1>2. IntegerWords[n] \in Seq(Numbering)
    BY SpeltInText
  <1>3. PICK y \in Sums : Adding(IntegerWords[n], x, y) /\ y.value + y.group = n
    <2>1. CASE n < 1000
      <3>1. Adding(IntegerWords[n], x, Sum(0, n))
        BY <1>1, <2>1, HundredsAdd
      <3>. QED  BY <3>1 DEF Sum, Sums
    <2>2. CASE n >= 1000
      BY <1>1, <2>2, ThousandsAdd DEF FourDigits
    <2>. QED  BY <2>1, <2>2
  <1>. QED  BY <1>1, <1>2, <1>3, ValueByAdding


-----------------------------------------------------------------------------
(* What was said of an announcement A.  Its finals may arrive in any order *)
(* and again, so that a text follows A word by word, but for full stops,   *)
(* and goes back to the first word or, from a cut, comes to the next one.  *)
Traces(text, A, cut, at) ==
    /\ \A k \in 1..Len(text) : text[k] = "." \/ text[k] = A[at[k]]
    /\ \A k \in 1..(Len(text) - 1) :
           text[k] = "." \/ text[k + 1] = "." \/ at[k + 1] \in {1, at[k] + 1}
    /\ text # <<>> => /\ text[Len(text)] = "." \/ at[Len(text)] = cut
                      /\ text[1] = "." \/ at[1] \in {1, cut + 1}

Traced(text, A, cut) == \E at \in [1..Len(text) -> 1..Len(A)] : Traces(text, A, cut, at)

LEMMA TracedNothing ==
    ASSUME NEW A \in Seq(Tokens), A # <<>>, NEW cut \in Nat
    PROVE  Traced(<<>>, A, cut) /\ Traced(<<".">>, A, cut)
  <1>1. 1 \in 1..Len(A)
    OBVIOUS
  <1>2. ASSUME NEW text \in Seq({"."}), Len(text) \in {0, 1}  PROVE Traced(text, A, cut)
    <2>. DEFINE at == [k \in 1..Len(text) |-> 1]
    <2>1. at \in [1..Len(text) -> 1..Len(A)]
      BY <1>1
    <2>2. Traces(text, A, cut, at)
      BY <1>2 DEF Traces
    <2>. QED  BY <2>1, <2>2 DEF Traced
  <1>3. <<>> \in Seq({"."}) /\ Len(<<>>) = 0 /\ <<".">> \in Seq({"."}) /\ Len(<<".">>) = 1
    OBVIOUS
  <1>. QED  BY <1>2, <1>3

LEMMA TracedPart ==
    ASSUME NEW A \in Seq(Tokens), NEW cut \in Nat, NEW a \in 1..Len(A), NEW b \in a..Len(A),
           a \in {1, cut + 1}, b = cut \/ A[b] = "."
    PROVE  Traced(SubSeq(A, a, b), A, cut)
  <1>. DEFINE text == SubSeq(A, a, b)
              at == [k \in 1..(b - a + 1) |-> a + k - 1]
  <1>1. a \in Nat /\ b \in Nat /\ Len(A) \in Nat /\ a >= 1 /\ a <= b /\ b <= Len(A)
    OBVIOUS
  <1>2. Len(text) = b - a + 1 /\ \A k \in 1..(b - a + 1) : text[k] = A[a + k - 1]
    OBVIOUS
  <1>3. at \in [1..(b - a + 1) -> 1..Len(A)]
    BY <1>1
  <1>4. \A k \in 1..(b - a + 1) : at[k] = a + k - 1
    OBVIOUS
  <1>5. Traces(text, A, cut, at)
    <2>. HIDE DEF text, at
    <2>1. b - a + 1 \in 1..(b - a + 1) /\ 1 \in 1..(b - a + 1)
      BY <1>1
    <2>2. \A k \in 1..(b - a + 1 - 1) : k \in 1..(b - a + 1) /\ k + 1 \in 1..(b - a + 1)
      BY <1>1
    <2>3. text[b - a + 1] = A[b] /\ at[b - a + 1] = b /\ at[1] = a
      BY <1>1, <1>2, <1>4, <2>1
    <2>4. \A k \in 1..(Len(text) - 1) : at[k + 1] = at[k] + 1
      BY <1>1, <1>2, <1>4, <2>2
    <2>. QED  BY <1>2, <1>4, <2>3, <2>4 DEF Traces
  <1>. QED  BY <1>2, <1>3, <1>5 DEF Traced

LEMMA TracedOn ==
    ASSUME NEW A, NEW cut, NEW t \in Seq(Tokens), NEW u \in Seq(Tokens),
           Traced(t, A, cut), Traced(u, A, cut)
    PROVE  Traced(t \o u, A, cut)
  <1>1. PICK f \in [1..Len(t) -> 1..Len(A)] : Traces(t, A, cut, f)
    BY DEF Traced
  <1>2. PICK g \in [1..Len(u) -> 1..Len(A)] : Traces(u, A, cut, g)
    BY DEF Traced
  <1>3. PICK m \in Nat, n \in Nat : m = Len(t) /\ n = Len(u)
    OBVIOUS
  <1>. DEFINE w == t \o u
              h == [k \in 1..(m + n) |-> IF k <= m THEN f[k] ELSE g[k - m]]
  <1>4. /\ Len(w) = m + n
        /\ \A k \in 1..m : w[k] = t[k]
        /\ \A k \in 1..n : w[m + k] = u[k]
    BY <1>3
  <1>5. h \in [1..(m + n) -> 1..Len(A)]
    <2>1. ASSUME NEW k \in 1..(m + n)  PROVE h[k] \in 1..Len(A)
      <3>1. CASE k <= m
        BY <1>3, <3>1
      <3>2. CASE k > m
        <4>1. PICK i \in 1..n : i = k - m
          BY <3>2
        <4>2. h[k] = g[i]
          BY <3>2, <4>1
        <4>3. g[i] \in 1..Len(A)
          BY <1>3
        <4>. QED  BY <4>2, <4>3
      <3>. QED  BY <3>1, <3>2
    <2>. QED  BY <2>1
  <1>6. /\ \A k \in 1..m : h[k] = f[k]
        /\ \A k \in 1..n : h[m + k] = g[k]
    BY <1>3
  <1>7. \A k \in 1..(m + n) : k \in 1..m \/ \E i \in 1..n : k = m + i
    <2>1. SUFFICES ASSUME NEW k \in 1..(m + n), k > m  PROVE \E i \in 1..n : k = m + i
      OBVIOUS
    <2>2. k - m \in 1..n /\ k = m + (k - m)
      BY <2>1
    <2>. QED  BY <2>2
  <1>. HIDE DEF w, h
  <1>8. \A k \in 1..(m + n) : w[k] = "." \/ w[k] = A[h[k]]
    <2>1. \A k \in 1..m : t[k] = "." \/ t[k] = A[f[k]]
      BY <1>1, <1>3 DEF Traces
    <2>2. \A k \in 1..n : u[k] = "." \/ u[k] = A[g[k]]
      BY <1>2, <1>3 DEF Traces
    <2>3. ASSUME NEW k \in 1..m  PROVE w[k] = "." \/ w[k] = A[h[k]]
      BY <1>4, <1>6, <2>1
    <2>4. ASSUME NEW k \in 1..n  PROVE w[m + k] = "." \/ w[m + k] = A[h[m + k]]
      BY <1>4, <1>6, <2>2
    <2>. QED  BY <1>7, <2>3, <2>4
  <1>9. ASSUME NEW k \in 1..(m + n - 1)
        PROVE  w[k] = "." \/ w[k + 1] = "." \/ h[k + 1] \in {1, h[k] + 1}
    <2>1. CASE k < m
      <3>1. k \in 1..m /\ k + 1 \in 1..m /\ k \in 1..(m - 1)
        BY <2>1
      <3>. QED  BY <1>1, <1>3, <1>4, <1>6, <3>1 DEF Traces
    <2>2. CASE k = m
      <3>1. m \in 1..m /\ 1 \in 1..n /\ t # <<>> /\ u # <<>>
        BY <1>3, <2>2
      <3>2. t[m] = "." \/ f[m] = cut
        BY <1>1, <1>3, <3>1 DEF Traces
      <3>3. u[1] = "." \/ g[1] \in {1, cut + 1}
        BY <1>2, <3>1 DEF Traces
      <3>4. w[k] = t[m] /\ h[k] = f[m] /\ w[k + 1] = u[1] /\ h[k + 1] = g[1]
        BY <1>4, <1>6, <2>2, <3>1
      <3>. QED  BY <3>2, <3>3, <3>4
    <2>3. CASE k > m
      <3>1. PICK i \in Nat : k = m + i
        <4>1. k - m \in Nat /\ k = m + (k - m)
          BY <2>3
        <4>. QED  BY <4>1
      <3>2. i \in 1..(n - 1) /\ i \in 1..n /\ i + 1 \in 1..n /\ k + 1 = m + (i + 1)
        BY <2>3, <3>1
      <3>3. w[k] = u[i] /\ h[k] = g[i] /\ w[k + 1] = u[i + 1] /\ h[k + 1] = g[i + 1]
        BY <1>4, <1>6, <3>1, <3>2
      <3>. QED  BY <1>2, <1>3, <3>2, <3>3 DEF Traces
    <2>. QED  BY <2>1, <2>2, <2>3
  <1>10. ASSUME m + n # 0  PROVE w[m + n] = "." \/ h[m + n] = cut
    <2>1. CASE n = 0
      <3>1. m \in 1..m /\ t # <<>> /\ w[m + n] = t[m] /\ h[m + n] = f[m]
        BY <1>3, <1>4, <1>6, <1>10, <2>1
      <3>. QED  BY <1>1, <1>3, <3>1 DEF Traces
    <2>2. CASE n # 0
      <3>1. n \in 1..n /\ u # <<>> /\ w[m + n] = u[n] /\ h[m + n] = g[n]
        BY <1>3, <1>4, <1>6, <2>2
      <3>. QED  BY <1>2, <1>3, <3>1 DEF Traces
    <2>. QED  BY <2>1, <2>2
  <1>11. ASSUME m + n # 0  PROVE w[1] = "." \/ h[1] \in {1, cut + 1}
    <2>1. CASE m = 0
      <3>1. 1 \in 1..n /\ u # <<>> /\ w[1] = u[1] /\ h[1] = g[1]
        BY <1>3, <1>4, <1>6, <1>11, <2>1
      <3>. QED  BY <1>2, <3>1 DEF Traces
    <2>2. CASE m # 0
      <3>1. 1 \in 1..m /\ t # <<>> /\ w[1] = t[1] /\ h[1] = f[1]
        BY <1>3, <1>4, <1>6, <2>2
      <3>. QED  BY <1>1, <3>1 DEF Traces
    <2>. QED  BY <2>1, <2>2
  <1>12. w # <<>> => m + n # 0
    BY <1>4 DEF w
  <1>13. Traces(w, A, cut, h)
    BY <1>4, <1>8, <1>9, <1>10, <1>11, <1>12 DEF Traces
  <1>. QED  BY <1>4, <1>5, <1>13 DEF Traced, w


(* A text of a stage before the result, or of a rejection, and a full stop *)
(* that says nothing.                                                      *)
Foreign(text) ==
    \/ \E i \in DOMAIN Rejections : Hears(text, Rejections[i][1])
    \/ \E s \in DOMAIN NextStage : \E t \in StageSigns[s] : Hears(text, t)

Silences == {<<>>, <<".">>}

(* The finals of an announcement, or none yet, and all that may be said    *)
(* besides.                                                                *)
HeardAs(says, finals) ==
    \/ finals = <<>>
    \/ finals = <<says>>
    \/ \E cut \in Nat, stop \in Silences :
           /\ cut < Len(says)
           /\ finals = <<SubSeq(says, 1, cut) \o stop, SubSeq(says, cut + 1, Len(says))>>

Sayable(finals) == {text \in Seq(Tokens) : Foreign(text) \/ text \in Silences \cup Range(finals)}

LEMMA RangeOfTwo ==
    ASSUME NEW t, NEW u
    PROVE  Range(<<t, u>>) = {t, u}
  <1>1. DOMAIN <<t, u>> = {1, 2}
    OBVIOUS
  <1>. QED  BY <1>1 DEF Range

LEMMA FinalsTraced ==
    ASSUME NEW A \in Seq(Tokens), A # <<>>, A[Len(A)] = ".", NEW finals, HeardAs(A, finals)
    PROVE  \E cut \in Nat : \A text \in Silences \cup Range(finals) : Traced(text, A, cut)
  <1>1. 1 \in 1..Len(A) /\ Len(A) \in 1..Len(A) /\ Len(A) \in Nat
    OBVIOUS
  <1>2. \A cut \in Nat : \A text \in Silences : Traced(text, A, cut)
    BY TracedNothing DEF Silences
  <1>2a. CASE finals = <<>>
    <2>1. Range(finals) = {} /\ 0 \in Nat
      BY <1>2a DEF Range
    <2>. QED  BY <1>2, <2>1
  <1>3. CASE finals = <<A>>
    <2>1. Range(finals) = {A}
      BY <1>3 DEF Range
    <2>2. SubSeq(A, 1, Len(A)) = A
      OBVIOUS
    <2>3. Traced(A, A, 0)
      <3>1. 0 \in Nat /\ 1 \in {1, 0 + 1} /\ Len(A) \in 1..Len(A)
        BY <1>1
      <3>2. Traced(SubSeq(A, 1, Len(A)), A, 0)
        BY <1>1, <3>1, TracedPart
      <3>. QED  BY <2>2, <3>2
    <2>. QED  BY <1>2, <2>1, <2>3
  <1>4. ASSUME NEW cut \in Nat, NEW stop \in Silences, cut < Len(A),
               finals = <<SubSeq(A, 1, cut) \o stop, SubSeq(A, cut + 1, Len(A))>>
        PROVE  \A text \in Silences \cup Range(finals) : Traced(text, A, cut)
    <2>1. Range(finals) = {SubSeq(A, 1, cut) \o stop, SubSeq(A, cut + 1, Len(A))}
      BY <1>4, RangeOfTwo
    <2>2. Traced(SubSeq(A, cut + 1, Len(A)), A, cut)
      <3>1. PICK a \in 1..Len(A) : a = cut + 1
        BY <1>4
      <3>2. Len(A) \in a..Len(A)
        BY <3>1
      <3>3. Traced(SubSeq(A, a, Len(A)), A, cut)
        BY <3>1, <3>2, TracedPart
      <3>. QED  BY <3>1, <3>3
    <2>3. Traced(SubSeq(A, 1, cut), A, cut)
      <3>1. CASE cut = 0
        <4>1. SubSeq(A, 1, cut) = <<>>
          BY <3>1
        <4>. QED  BY <1>2, <4>1 DEF Silences
      <3>2. CASE cut # 0
        <4>1. cut \in 1..Len(A)
          BY <1>4, <3>2
        <4>. QED  BY <1>1, <4>1, TracedPart
      <3>. QED  BY <3>1, <3>2
    <2>4. Traced(SubSeq(A, 1, cut) \o stop, A, cut)
      <3>1. SubSeq(A, 1, cut) \in Seq(Tokens)
        BY <1>4
      <3>2. stop \in Seq(Tokens)
        <4>1. "." \in Tokens
          BY TokenWords, Zenon
        <4>. QED  BY <4>1, OfWords, Zenon DEF Silences
      <3>3. Traced(stop, A, cut)
        BY <1>2
      <3>. QED  BY <2>3, <3>1, <3>2, <3>3, TracedOn
    <2>. QED  BY <1>2, <2>1, <2>2, <2>4
  <1>. QED  BY <1>2a, <1>3, <1>4 DEF HeardAs

LEMMA HearsOn ==
    ASSUME NEW S, NEW t \in Seq(S), NEW u \in Seq(S), NEW token
    PROVE  Hears(t, token) \/ Hears(u, token) => Hears(t \o u, token)
  <1>1. ASSUME NEW i \in 1..Len(t), t[i] = token  PROVE Hears(t \o u, token)
    <2>1. i \in 1..Len(t \o u) /\ (t \o u)[i] = t[i]
      OBVIOUS
    <2>. QED  BY <1>1, <2>1 DEF Hears, Contains
  <1>2. ASSUME NEW i \in 1..Len(u), u[i] = token  PROVE Hears(t \o u, token)
    <2>1. Len(t) + i \in 1..Len(t \o u) /\ (t \o u)[Len(t) + i] = u[i]
      OBVIOUS
    <2>. QED  BY <1>2, <2>1 DEF Hears, Contains
  <1>. QED  BY <1>1, <1>2 DEF Hears, Contains

LEMMA ForeignOn ==
    ASSUME NEW t \in Seq(Tokens), NEW u \in Seq(Tokens), Foreign(t) \/ Foreign(u)
    PROVE  Foreign(t \o u)
  <1>1. \A token : Hears(t, token) \/ Hears(u, token) => Hears(t \o u, token)
    BY HearsOn
  <1>. QED  BY <1>1, Zenon DEF Foreign

(* What is heard of an announcement follows it, or is something else too.  *)
LEMMA HeardTraced ==
    ASSUME NEW A \in Seq(Tokens), A # <<>>, A[Len(A)] = ".", NEW finals, HeardAs(A, finals)
    PROVE  \E cut \in Nat : \A text \in Heard(Sayable(finals)) :
               text \in Seq(Tokens) /\ (Foreign(text) \/ Traced(text, A, cut))
  <1>1. PICK cut \in Nat : \A text \in Silences \cup Range(finals) : Traced(text, A, cut)
    BY FinalsTraced
  <1>. DEFINE S == Sayable(finals)
              P == {text \in Seq(Tokens) : Foreign(text) \/ Traced(text, A, cut)}
  <1>2. <<>> \in P
    BY TracedNothing
  <1>3. S \subseteq P
    BY <1>1 DEF Sayable
  <1>4. ASSUME NEW t \in P, NEW u \in S  PROVE t \o u \in P
    <2>1. t \in Seq(Tokens) /\ u \in Seq(Tokens) /\ u \in P
      BY <1>3
    <2>2. CASE Foreign(t) \/ Foreign(u)
      BY <2>1, <2>2, ForeignOn
    <2>3. CASE Traced(t, A, cut) /\ Traced(u, A, cut)
      BY <2>1, <2>3, TracedOn
    <2>. QED  BY <2>1, <2>2, <2>3
  <1>5. ASSUME NEW heard \in Seq(S)  PROVE FlattenSeq(heard) \in P
    <2>. HIDE DEF S, P
    <2>. QED  BY <1>2, <1>3, <1>4, FlattensWithin
  <1>6. \A text \in Heard(S) : text \in P
    <2>. HIDE DEF S, P
    <2>. QED  BY <1>5 DEF Heard
  <1>. QED  BY <1>6

(* An amount is not recognized in a text that is of something else too.    *)
LEMMA ForeignIsRefused ==
    ASSUME NEW text \in Seq(Tokens), Recognize("result", text).status = "complete"
    PROVE  ~Foreign(text) /\ Recognize("result", text) = RecognizeResult(text)
  <1>0. "result" \in DOMAIN StageSigns
    BY Ranks
  <1>1. Unmistaken(text) /\ Recognize("result", text) = RecognizeResult(text)
    BY <1>0, Dispatches
  <1>2. Hears(text, "value is")
    <2>1. {i \in DOMAIN text : text[i] = "value is"} # {}
      <3>1. SUFFICES ASSUME {i \in DOMAIN text : text[i] = "value is"} = {}  PROVE FALSE
        OBVIOUS
      <3>2. RecognizeResult(text) = Pending
        BY <3>1, Zenon DEF RecognizeResult
      <3>3. Pending.status = "pending"
        BY DEF Pending
      <3>. QED  BY <1>1, <3>2, <3>3
    <2>2. DOMAIN text = 1..Len(text)
      OBVIOUS
    <2>. QED  BY <2>1, <2>2 DEF Hears, Contains
  <1>3. "result" \in StagesPresent(text)
    <2>1. "value is" \in StageSigns["result"]
      BY SignsOfStages, Zenon
    <2>. QED  BY <1>0, <1>2, <2>1, Zenon DEF StagesPresent
  <1>4. ASSUME NEW s \in DOMAIN NextStage, NEW t \in StageSigns[s], Hears(text, t)  PROVE FALSE
    <2>1. s \in StagesPresent(text) /\ s # "result"
      <3>1. s \in DOMAIN StageSigns /\ s # "result"
        BY Ranks
      <3>. QED  BY <1>4, <3>1 DEF StagesPresent
    <2>. DEFINE both == {s, "result"}
    <2>2. both \subseteq StagesPresent(text)
      BY <1>3, <2>1
    <2>3. IsFiniteSet(StagesPresent(text))
      <3>1. IsFiniteSet(DOMAIN StageSigns)
        <4>1. \A T : IsFiniteSet(T) => \A x : IsFiniteSet(T \cup {x})
          BY FS_AddElement
        <4>2. IsFiniteSet({} \cup {"welcome"} \cup {"challenge"} \cup {"menu"} \cup {"identifier"}
                             \cup {"confirmation"} \cup {"result"})
          BY <4>1, FS_EmptySet
        <4>. QED  BY <4>2, Ranks
      <3>2. StagesPresent(text) \subseteq DOMAIN StageSigns
        BY DEF StagesPresent
      <3>. QED  BY <3>1, <3>2, FS_Subset
    <2>4. Cardinality(both) = 2
      <3>1. IsFiniteSet({s}) /\ Cardinality({s}) = 1
        BY FS_Singleton
      <3>2. Cardinality({s} \cup {"result"}) = 1 + 1
        BY <2>1, <3>1, FS_AddElement
      <3>3. {s} \cup {"result"} = both
        OBVIOUS
      <3>. QED  BY <3>2, <3>3
    <2>5. Cardinality(both) <= Cardinality(StagesPresent(text))
      BY <2>2, <2>3, FS_Subset
    <2>6. Cardinality(StagesPresent(text)) \in Nat
      BY <2>3, FS_CardinalityType
    <2>. QED  BY <1>1, <2>4, <2>5, <2>6 DEF Unmistaken
  <1>. QED  BY <1>1, <1>4 DEF Foreign, Unmistaken


-----------------------------------------------------------------------------
(* What the word patterns match is made of the words of numbers.           *)
Wordy == {words \in Seq(Numbering) : words # <<>>}

LEMMA WordyTogether ==
    ASSUME NEW t \in Wordy, NEW u \in Wordy
    PROVE  t \o u \in Wordy
  <1>1. t \in Seq(Numbering) /\ u \in Seq(Numbering) /\ Len(t) # 0
    BY DEF Wordy
  <1>2. t \o u \in Seq(Numbering) /\ Len(t \o u) = Len(t) + Len(u)
    BY <1>1
  <1>3. Len(t) \in Nat /\ Len(u) \in Nat
    BY <1>1
  <1>4. Len(t \o u) # 0
    BY <1>1, <1>2, <1>3
  <1>. QED  BY <1>2, <1>4 DEF Wordy

LEMMA ThenWordy ==
    ASSUME NEW first \in SUBSET Wordy, NEW rest \in SUBSET Wordy
    PROVE  Then(first, rest) \subseteq Wordy
  <1>1. ASSUME NEW pair \in first \X rest  PROVE pair[1] \o pair[2] \in Wordy
    <2>1. pair[1] \in Wordy /\ pair[2] \in Wordy
      OBVIOUS
    <2>. QED  BY <2>1, WordyTogether
  <1>. QED  BY <1>1 DEF Then

LEMMA OneWordy == ASSUME NEW word \in Numbering  PROVE <<word>> \in Wordy
  BY DEF Wordy

LEMMA UnitsWordy == Units \subseteq Wordy
  <1>1. \A i \in 2..10 : Small[i] \in Numbering
    BY NumberingWords
  <1>. QED  BY <1>1, OneWordy DEF Units, Words

LEMMA OrTheWordy ==
    ASSUME NEW word \in Numbering, NEW below \in SUBSET Wordy
    PROVE  OrThe(word, below) \subseteq Wordy
  <1>1. \A u \in Units : u \o <<word>> \in Wordy
    BY UnitsWordy, OneWordy, WordyTogether
  <1>2. {u \o <<word>> : u \in Units} \in SUBSET Wordy
    BY <1>1
  <1>. DEFINE first == {u \o <<word>> : u \in Units}
  <1>3. Then(first, below) \subseteq Wordy
    <2>. HIDE DEF first
    <2>. QED  BY <1>2, ThenWordy DEF first
  <1>. QED  BY <1>3 DEF OrThe

LEMMA NumeralsWordy == Numerals \subseteq Wordy
  <1>1. \A i \in 2..20 : Small[i] \in Numbering
    BY NumberingWords
  <1>2. \A i \in 2..9 : Tens[i] \in Numbering
    BY NumberingWords
  <1>3. Words({Small[i] : i \in 2..20}) \in SUBSET Wordy
    BY <1>1, OneWordy DEF Words
  <1>4. Words({Tens[i] : i \in 2..9}) \in SUBSET Wordy
    BY <1>2, OneWordy DEF Words
  <1>5. Under100 \in SUBSET Wordy
    BY <1>3, <1>4, UnitsWordy, ThenWordy DEF Under100
  <1>6. {"hundred", "thousand", "zero"} \subseteq Numbering
    BY DEF Numbering
  <1>7. Under1000 \in SUBSET Wordy
    BY <1>5, <1>6, OrTheWordy DEF Under1000
  <1>8. OrThe("thousand", Under1000) \subseteq Wordy
    BY <1>6, <1>7, OrTheWordy
  <1>9. <<"zero">> \in Wordy
    BY <1>6, OneWordy
  <1>. QED  BY <1>8, <1>9 DEF Numerals

LEMMA OtherWords ==
    /\ "." \notin Numbering /\ "and" \notin Numbering /\ "value is" \notin Numbering
    /\ "dollar" \notin Numbering /\ "dollars" \notin Numbering
    /\ "cent" \notin Numbering /\ "cents" \notin Numbering
    /\ "unavailable" \notin Numbering
  BY Zenon DEF Numbering

-----------------------------------------------------------------------------
(* An amount is that of the last announcement in the text.                 *)
LEMMA ResultRead ==
    ASSUME NEW text \in Seq(Tokens), NEW amount, RecognizeResult(text) = Complete(amount)
    PROVE  \E open \in 1..Len(text) :
               /\ text[open] = "value is"
               /\ \A k \in (open + 1)..Len(text) : text[k] # "value is"
               /\ ParseAmount(SubSeq(text, open + 1, Len(text))) = amount /\ amount # -1
  <1>. DEFINE starts == {i \in DOMAIN text : text[i] = "value is"}
              End(i) == Min({j - 1 : j \in {k \in starts : k > i}} \cup {Len(text)})
              said == [i \in starts |-> SubSeq(text, i + 1, End(i))]
              amounts == [i \in starts |-> ParseAmount(said[i])]
              open == Max(starts)
  <1>1. /\ Complete(amount) # Pending
        /\ \A reason : Complete(amount) # Invalid(reason)
        /\ \A other : Complete(other) = Complete(amount) => other = amount
    <2>1. /\ Complete(amount).status = "complete" /\ Pending.status = "pending"
          /\ \A reason : Invalid(reason).status = "invalid"
          /\ \A other : Complete(other).value = other
      BY DEF Complete, Pending, Invalid
    <2>. QED  BY <2>1
  <1>2. starts # {} /\ 1 \in starts
    <2>1. starts = {} => RecognizeResult(text) = Pending
      BY Zenon DEF RecognizeResult
    <2>2. starts # {} /\ 1 \notin starts => RecognizeResult(text) = Invalid("result_unrecognized")
      BY Zenon DEF RecognizeResult
    <2>. QED  BY <1>1, <2>1, <2>2
  <1>3. RecognizeResult(text) = Announced(said, amounts)
    BY <1>2, Zenon DEF RecognizeResult
  <1>4. Len(text) \in Nat /\ starts \in SUBSET (1..Len(text)) /\ DOMAIN text = 1..Len(text)
    <2>1. DOMAIN text = 1..Len(text) /\ Len(text) \in Nat
      OBVIOUS
    <2>2. starts \in SUBSET DOMAIN text
      OBVIOUS
    <2>. QED  BY <2>1, <2>2
  <1>5. open \in starts /\ \A y \in starts : y <= open
    <2>. HIDE DEF starts
    <2>. QED  BY <1>2, <1>4, MaxIn
  <1>6. DOMAIN said = starts
    OBVIOUS
  <1>7. amounts[open] = amount /\ amount # -1
    <2>. HIDE DEF starts, said, amounts
    <2>1. Announced(said, amounts) = Complete(amount)
      BY <1>3
    <2>2. open = Max(DOMAIN said)
      BY <1>6
    <2>. QED  BY <1>1, <2>1, <2>2 DEF Announced
  <1>8. said[open] = SubSeq(text, open + 1, End(open))
    <2>. HIDE DEF starts, End, open
    <2>. QED  BY <1>5
  <1>9. End(open) = Len(text)
    <2>1. {k \in starts : k > open} = {}
      <3>. HIDE DEF starts, open
      <3>1. ASSUME NEW k \in starts  PROVE ~(k > open)
        <4>1. k \in Nat /\ open \in Nat /\ k <= open
          BY <1>4, <1>5
        <4>. QED  BY <4>1
      <3>. QED  BY <3>1
    <2>2. {j - 1 : j \in {k \in starts : k > open}} \cup {Len(text)} = {Len(text)}
      <3>. HIDE DEF starts, open
      <3>. QED  BY <2>1
    <2>3. Min({Len(text)}) = Len(text)
      <3>1. \A n \in Nat : Min({n}) = n
        BY DEF Min
      <3>. QED  BY <1>4, <3>1
    <2>. HIDE DEF starts, open
    <2>. QED  BY <2>2, <2>3
  <1>10. amounts[open] = ParseAmount(said[open])
    <2>. HIDE DEF said, starts, open
    <2>. QED  BY <1>5
  <1>11. ParseAmount(SubSeq(text, open + 1, Len(text))) = amount
    <2>. HIDE DEF said, starts, open, End, amounts
    <2>. QED  BY <1>7, <1>8, <1>9, <1>10
  <1>12. text[open] = "value is" /\ open \in 1..Len(text)
    <2>. HIDE DEF open
    <2>. QED  BY <1>4, <1>5
  <1>13. ASSUME NEW k \in (open + 1)..Len(text)  PROVE text[k] # "value is"
    <2>1. open \in 1..Len(text)
      BY <1>12
    <2>2. k \notin starts
      <3>. HIDE DEF open, starts
      <3>. QED  BY <1>5, <2>1
    <2>3. k \in DOMAIN text
      <3>. HIDE DEF open, starts
      <3>. QED  BY <1>4, <2>1
    <2>. QED  BY <2>2, <2>3
  <1>. HIDE DEF open
  <1>. QED  BY <1>7, <1>11, <1>12, <1>13


(* What is read of the words: all of them in their order, but for a stop   *)
(* between the dollars and what comes after.                               *)
DollarWords == {"dollar", "dollars"}

ReadFrom(body, words, at) ==
    /\ \A k \in 1..Len(body) : body[k] = words[at[k]]
    /\ body # <<>> => at[1] = 1
    /\ \A k \in 1..(Len(body) - 1) :
           at[k + 1] = at[k] + 1 \/ (body[k] \in DollarWords /\ body[k + 1] = "and")

LEMMA WhereDollars ==
    ASSUME NEW S, NEW words \in Seq(S)
    PROVE  /\ Dollars(words) \in 0..Len(words)
           /\ Dollars(words) # 0 => words[Dollars(words)] \in DollarWords
  <1>. DEFINE T == {i \in 1..Len(words) : words[i] \in DollarWords}
  <1>1. Dollars(words) = IF T # {} THEN Max(T) ELSE 0
    BY DEF Dollars, SelectLastInSeq, DollarWords
  <1>2. Len(words) \in Nat /\ T \in SUBSET (1..Len(words))
    OBVIOUS
  <1>3. T # {} => Max(T) \in T
    <2>. HIDE DEF T
    <2>. QED  BY <1>2, MaxIn
  <1>. QED  BY <1>1, <1>2, <1>3

LEMMA UnstoppedIs ==
    ASSUME NEW S, NEW words \in Seq(S)
    PROVE  \E m \in 0..Len(words) : Unstopped(words) = SubSeq(words, 1, m)
  <1>. DEFINE T == {i \in 1..Len(words) : words[i] # "."}
  <1>1. Unstopped(words) = SubSeq(words, 1, IF T # {} THEN Max(T) ELSE 0)
    BY DEF Unstopped, SelectLastInSeq
  <1>2. Len(words) \in Nat /\ T \in SUBSET (1..Len(words))
    OBVIOUS
  <1>3. T # {} => Max(T) \in T
    <2>. HIDE DEF T
    <2>. QED  BY <1>2, MaxIn
  <1>4. (IF T # {} THEN Max(T) ELSE 0) \in 0..Len(words)
    BY <1>2, <1>3
  <1>. QED  BY <1>1, <1>4

LEMMA WithoutOne ==
    ASSUME NEW S, NEW w \in Seq(S), NEW i \in 1..Len(w)
    PROVE  RemoveAt(w, i) = SubSeq(w, 1, i - 1) \o SubSeq(w, i + 1, Len(w))
  BY DEF RemoveAt

LEMMA JoinedFollows ==
    ASSUME NEW S, NEW words \in Seq(S)
    PROVE  LET body == Joined(Unstopped(words))
           IN  /\ body \in Seq(S)
               /\ \E at \in [1..Len(body) -> 1..Len(words)] : ReadFrom(body, words, at)
  <1>. DEFINE body == Joined(Unstopped(words))
  <1>1. PICK m \in 0..Len(words) : Unstopped(words) = SubSeq(words, 1, m)
    BY UnstoppedIs
  <1>2. PICK w \in Seq(S) : w = SubSeq(words, 1, m)
    <2>1. SubSeq(words, 1, m) \in Seq(S)
      BY <1>1
    <2>. QED  BY <2>1
  <1>3. Len(w) = m /\ m \in Nat /\ \A k \in 1..m : w[k] = words[k]
    BY <1>2
  <1>4. \A k \in 1..m : k \in 1..Len(words)
    <2>1. Len(words) \in Nat
      OBVIOUS
    <2>. QED  BY <1>3, <2>1
  <1>5. PICK i : i = Dollars(w)
    OBVIOUS
  <1>6. i \in 0..m /\ (i # 0 => w[i] \in DollarWords)
    BY <1>3, <1>5, WhereDollars
  <1>7. CASE i # 0 /\ i + 2 <= Len(w) /\ w[i + 1] = "." /\ w[i + 2] = "and"
    <2>1. body = SubSeq(w, 1, i) \o SubSeq(w, i + 2, m)
      <3>1. body = RemoveAt(w, i + 1)
        BY <1>1, <1>2, <1>5, <1>7 DEF Joined
      <3>2. i + 1 - 1 = i /\ i + 1 + 1 = i + 2
        BY <1>6
      <3>3. PICK j \in 1..Len(w) : j = i + 1
        BY <1>3, <1>6, <1>7
      <3>4. RemoveAt(w, j) = SubSeq(w, 1, j - 1) \o SubSeq(w, j + 1, Len(w))
        BY WithoutOne
      <3>. HIDE DEF body
      <3>. QED  BY <1>3, <1>6, <3>1, <3>2, <3>3, <3>4
    <2>. HIDE DEF body
    <2>2. i \in Nat /\ i >= 1 /\ i + 2 <= m
      BY <1>3, <1>6, <1>7
    <2>3. PICK a \in Seq(S), b \in Seq(S) : a = SubSeq(w, 1, i) /\ b = SubSeq(w, i + 2, m)
      <3>1. SubSeq(w, 1, i) \in Seq(S) /\ SubSeq(w, i + 2, m) \in Seq(S)
        BY <1>3, <2>2
      <3>. QED  BY <3>1
    <2>4. /\ Len(a) = i /\ \A k \in 1..i : a[k] = w[k]
          /\ Len(b) = m - i - 1 /\ \A k \in 1..(m - i - 1) : b[k] = w[i + 1 + k]
      BY <1>3, <2>2, <2>3
    <2>5. /\ body \in Seq(S) /\ Len(body) = m - 1
          /\ \A k \in 1..i : body[k] = w[k]
          /\ \A k \in (i + 1)..(m - 1) : body[k] = w[k + 1]
      <3>1. body = a \o b
        BY <2>1, <2>3
      <3>2. body \in Seq(S) /\ Len(body) = Len(a) + Len(b)
        BY <3>1
      <3>3. Len(body) = m - 1
        BY <1>3, <2>2, <2>4, <3>2
      <3>4. \A k \in 1..i : body[k] = a[k]
        BY <2>4, <3>1
      <3>5. ASSUME NEW k \in (i + 1)..(m - 1)  PROVE body[k] = w[k + 1]
        <4>1. PICK j \in 1..(m - i - 1) : k = i + j
          <5>1. k - i \in 1..(m - i - 1) /\ k = i + (k - i)
            BY <1>3, <2>2
          <5>. QED  BY <5>1
        <4>2. body[i + j] = b[j]
          BY <2>2, <2>4, <3>1
        <4>3. i + 1 + j = k + 1
          BY <2>2, <4>1
        <4>. QED  BY <2>4, <4>1, <4>2, <4>3
      <3>. QED  BY <2>4, <3>2, <3>3, <3>4, <3>5
    <2>. DEFINE at == [k \in 1..(m - 1) |-> IF k <= i THEN k ELSE k + 1]
    <2>6. at \in [1..(m - 1) -> 1..Len(words)]
      <3>1. \A k \in 1..(m - 1) : k \in 1..m /\ k + 1 \in 1..m
        BY <1>3
      <3>. QED  BY <1>4, <3>1
    <2>7. /\ \A k \in 1..i : at[k] = k
          /\ \A k \in (i + 1)..(m - 1) : at[k] = k + 1
      BY <2>2
    <2>. HIDE DEF at
    <2>8. ASSUME NEW k \in 1..(m - 1)  PROVE body[k] = words[at[k]]
      <3>1. CASE k <= i
        <4>1. k \in 1..i /\ k \in 1..m
          BY <2>2, <3>1
        <4>. QED  BY <1>3, <2>5, <2>7, <4>1
      <3>2. CASE k > i
        <4>1. k \in (i + 1)..(m - 1) /\ k + 1 \in 1..m
          BY <1>3, <2>2, <3>2
        <4>. QED  BY <1>3, <2>5, <2>7, <4>1
      <3>. QED  BY <2>2, <3>1, <3>2
    <2>9. at[1] = 1
      <3>1. 1 \in 1..i
        BY <2>2
      <3>. QED  BY <2>7, <3>1
    <2>10. ASSUME NEW k \in 1..(m - 1 - 1)
           PROVE  at[k + 1] = at[k] + 1 \/ (body[k] \in DollarWords /\ body[k + 1] = "and")
      <3>1. CASE k < i
        <4>1. k \in 1..i /\ k + 1 \in 1..i
          BY <2>2, <3>1
        <4>. QED  BY <2>7, <4>1
      <3>2. CASE k = i
        <4>1. i \in 1..i /\ i + 1 \in (i + 1)..(m - 1) /\ i + 1 + 1 = i + 2
          BY <1>3, <2>2
        <4>2. body[i] = w[i] /\ body[i + 1] = w[i + 2]
          BY <2>5, <4>1
        <4>. QED  BY <1>6, <1>7, <3>2, <4>2
      <3>3. CASE k > i
        <4>1. k \in (i + 1)..(m - 1) /\ k + 1 \in (i + 1)..(m - 1)
          BY <1>3, <2>2, <3>3
        <4>. QED  BY <2>7, <4>1
      <3>. QED  BY <2>2, <3>1, <3>2, <3>3
    <2>11. ReadFrom(body, words, at)
      BY <2>5, <2>8, <2>9, <2>10 DEF ReadFrom
    <2>. QED  BY <2>5, <2>6, <2>11 DEF body
  <1>8. CASE ~(i # 0 /\ i + 2 <= Len(w) /\ w[i + 1] = "." /\ w[i + 2] = "and")
    <2>1. body = w
      BY <1>1, <1>2, <1>5, <1>8 DEF Joined
    <2>. DEFINE at == [k \in 1..m |-> k]
    <2>2. at \in [1..m -> 1..Len(words)]
      BY <1>4
    <2>3. ReadFrom(w, words, at)
      <3>1. w # <<>> => 1 \in 1..m
        BY <1>3
      <3>2. \A k \in 1..(m - 1) : k \in 1..m /\ k + 1 \in 1..m
        BY <1>3
      <3>. QED  BY <1>3, <3>1, <3>2 DEF ReadFrom
    <2>. QED  BY <1>3, <2>1, <2>2, <2>3
  <1>. QED  BY <1>7, <1>8


LEMMA IntegerRead ==
    ASSUME NEW words, NEW maximum, Integer(words, maximum) # -1
    PROVE  words \in Numerals /\ Integer(words, maximum) = ValueOf(words)
           /\ Integer(words, maximum) \in Int
  BY DEF Integer, AtMost

(* The words an amount is read from.                                       *)
Priced(body, i, amount) ==
    LET n == Len(body)
    IN  /\ i \in Nat /\ i < n
        /\ SubSeq(body, 1, i - 1) \in Numerals
        /\ body[i] \in DollarWords /\ body[i + 1] = "and"
        /\ SubSeq(body, i + 2, n - 1) \in Numerals
        /\ body[n] \in {"cent", "cents"}
        /\ amount = 100 * ValueOf(SubSeq(body, 1, i - 1)) + ValueOf(SubSeq(body, i + 2, n - 1))

LEMMA AmountRead ==
    ASSUME NEW S, NEW words \in Seq(S), ParseAmount(words) # -1
    PROVE  LET body == Joined(Unstopped(words))
           IN  body # <<>> /\ \E i \in 1..Len(body) : Priced(body, i, ParseAmount(words))
  <1>1. PICK body \in Seq(S) : body = Joined(Unstopped(words))
    BY JoinedFollows
  <1>2. PICK i \in 0..Len(body) : i = Dollars(body) /\ (i # 0 => body[i] \in DollarWords)
    BY <1>1, WhereDollars
  <1>3. PICK parts : parts = Parts(body, i, Len(body) - 1)
    OBVIOUS
  <1>4. /\ body # <<>> /\ Last(body) \in {"cent", "cents"}
        /\ ParseAmount(words) = InCents(parts)
    BY <1>1, <1>2, <1>3 DEF ParseAmount
  <1>5. /\ parts.dollars # -1 /\ parts.cents # -1
        /\ ParseAmount(words) = 100 * parts.dollars + parts.cents
    BY <1>4 DEF InCents
  <1>. DEFINE W == SubSeq(body, 1, i - 1)
              C == SubSeq(body, i + 2, Len(body) - 1)
  <1>6. /\ parts.dollars = Integer(W, 9999)
        /\ parts.cents = IF i < Len(body) /\ body[i + 1] = "and" THEN Integer(C, 99) ELSE -1
    <2>. HIDE DEF W, C
    <2>. QED  BY <1>3, SMT DEF Parts, W, C
  <1>6a. PICK limit : parts.dollars = Integer(W, limit)
    <2>. HIDE DEF W, C
    <2>. QED  BY <1>6, SMT
  <1>7. i < Len(body) /\ body[i + 1] = "and" /\ parts.cents = Integer(C, 99)
    <2>. HIDE DEF W, C
    <2>. QED  BY <1>5, <1>6
  <1>8. W \in Numerals /\ parts.dollars = ValueOf(W)
    <2>1. \A most : Integer(W, most) # -1 =>
              W \in Numerals /\ Integer(W, most) = ValueOf(W)
      BY IntegerRead
    <2>. HIDE DEF W, C
    <2>. QED  BY <1>5, <1>6a, <2>1
  <1>9. C \in Numerals /\ parts.cents = ValueOf(C)
    <2>. HIDE DEF W, C
    <2>. QED  BY <1>5, <1>7, IntegerRead
  <1>10. i # 0
    <2>1. ASSUME i = 0  PROVE FALSE
      <3>1. W = <<>>
        BY <2>1
      <3>2. W \in Wordy
        BY <1>8, NumeralsWordy
      <3>. QED  BY <3>1, <3>2 DEF Wordy
    <2>. QED  BY <2>1
  <1>11. body[Len(body)] \in {"cent", "cents"}
    BY <1>4 DEF Last
  <1>12. i \in 1..Len(body) /\ i \in Nat
    BY <1>2, <1>10
  <1>13. ParseAmount(words) = 100 * ValueOf(W) + ValueOf(C)
    <2>. HIDE DEF W, C
    <2>. QED  BY <1>5, <1>8, <1>9
  <1>14. Priced(body, i, ParseAmount(words))
    BY <1>2, <1>7, <1>8, <1>9, <1>10, <1>11, <1>12, <1>13 DEF Priced
  <1>. QED  BY <1>1, <1>4, <1>12, <1>14

(* No full stop is left in them.                                           *)
LEMMA PricedUnstopped ==
    ASSUME NEW S, NEW body \in Seq(S), NEW i \in 1..Len(body), NEW amount,
           Priced(body, i, amount)
    PROVE  /\ 2 <= i /\ i + 3 <= Len(body)
           /\ \A k \in 1..Len(body) : body[k] # "."
           /\ \A k \in 1..Len(body) : body[k] = "and" => k = i + 1
  <1>1. PICK n \in Nat : n = Len(body)
    OBVIOUS
  <1>. DEFINE W == SubSeq(body, 1, i - 1)
              C == SubSeq(body, i + 2, n - 1)
  <1>2. /\ i < n /\ W \in Wordy /\ C \in Wordy
        /\ body[i] \in DollarWords /\ body[i + 1] = "and" /\ body[n] \in {"cent", "cents"}
    BY <1>1, NumeralsWordy DEF Priced
  <1>3. W \in Seq(Numbering) /\ W # <<>> /\ C \in Seq(Numbering) /\ C # <<>>
    BY <1>2 DEF Wordy
  <1>4. Len(W) = i - 1 /\ \A k \in 1..(i - 1) : W[k] = body[k]
    BY <1>1
  <1>5. i >= 2
    <2>1. i - 1 # 0
      <3>. HIDE DEF W
      <3>. QED  BY <1>3, <1>4
    <2>. QED  BY <2>1
  <1>6. i + 3 <= n
    <2>1. SUFFICES ASSUME i + 2 > n - 1  PROVE FALSE
      BY <1>1
    <2>2. C = <<>>
      BY <1>1, <1>2, <2>1
    <2>. QED  BY <1>3, <2>2
  <1>7. Len(C) = n - i - 2 /\ \A k \in 1..(n - i - 2) : C[k] = body[i + 1 + k]
    BY <1>1, <1>6
  <1>8. \A k \in 1..(i - 1) : body[k] \in Numbering
    <2>. HIDE DEF W
    <2>. QED  BY <1>3, <1>4
  <1>9. \A k \in (i + 2)..(n - 1) : body[k] \in Numbering
    <2>. HIDE DEF C
    <2>1. SUFFICES ASSUME NEW k \in (i + 2)..(n - 1)  PROVE body[k] \in Numbering
      OBVIOUS
    <2>2. PICK j \in 1..(n - i - 2) : j = k - i - 1
      BY <1>1, <1>6
    <2>3. C[j] \in Numbering /\ C[j] = body[i + 1 + j] /\ i + 1 + j = k
      BY <1>3, <1>7, <2>2
    <2>. QED  BY <2>3
  <1>. HIDE DEF W, C
  <1>10. ASSUME NEW k \in 1..n  PROVE \/ body[k] \in Numbering \/ k = i \/ k = i + 1 \/ k = n
    <2>1. k \in 1..(i - 1) \/ k \in (i + 2)..(n - 1) \/ k = i \/ k = i + 1 \/ k = n
      BY <1>6
    <2>. QED  BY <1>8, <1>9, <2>1
  <1>11. body[i] \notin {".", "and"} /\ body[n] \notin {".", "and"} /\ body[i + 1] # "."
    BY <1>2 DEF DollarWords
  <1>12. \A w \in Numbering : w \notin {".", "and"}
    BY OtherWords
  <1>13. \A k \in 1..n : body[k] # "." /\ (body[k] = "and" => k = i + 1)
    BY <1>10, <1>11, <1>12
  <1>. QED  BY <1>1, <1>5, <1>6, <1>13


(* What an announcement is known by.                                      *)
Opening == "value is"

(* An announcement begins once, and goes on from its dollars to its cents. *)
Announces(A) ==
    /\ A \in Seq(Tokens) /\ A # <<>> /\ A[1] = Opening
    /\ \A p \in 1..Len(A) : A[p] = Opening => p = 1
    /\ \A p, q \in 1..Len(A) : A[p] \in DollarWords /\ A[q] = "and" => q = p + 1

LastOpens(text, open) ==
    text[open] = Opening /\ \A k \in (open + 1)..Len(text) : text[k] # Opening

Unbroken(body) == body # <<>> /\ \A k \in 1..Len(body) : body[k] # "."

(* The words that are read are those of the announcement, one by one.      *)
LEMMA ReadInOrder ==
    ASSUME NEW A, Announces(A), NEW cut \in Nat, NEW text \in Seq(Tokens),
           NEW at \in [1..Len(text) -> 1..Len(A)], Traces(text, A, cut, at),
           NEW open \in 1..Len(text), LastOpens(text, open),
           NEW words \in Seq(Tokens), words = SubSeq(text, open + 1, Len(text)),
           NEW body \in Seq(Tokens), Unbroken(body),
           NEW e \in [1..Len(body) -> 1..Len(words)], ReadFrom(body, words, e)
    PROVE  \A k \in 1..Len(body) : k + 1 \in 1..Len(A) /\ body[k] = A[k + 1]
  <1>0. /\ text[open] = Opening /\ \A k \in (open + 1)..Len(text) : text[k] # Opening
        /\ body # <<>> /\ \A k \in 1..Len(body) : body[k] # "."
    BY DEF LastOpens, Unbroken
  <1>. USE <1>0
  <1>1. PICK n \in Nat, l \in Nat : n = Len(body) /\ l = Len(text) /\ 1 <= n
    <2>1. Len(body) \in Nat /\ Len(text) \in Nat /\ Len(body) # 0
      OBVIOUS
    <2>. QED  BY <2>1
  <1>2. open \in 1..l /\ open \in Nat
    BY <1>1
  <1>3. Len(words) = l - open /\ \A k \in 1..(l - open) : words[k] = text[open + k]
    <2>1. words = SubSeq(text, open + 1, l)
      BY <1>1
    <2>2. \A k \in 1..(l - open) : open + k = open + 1 + k - 1 /\ open + k \in 1..l
      BY <1>1, <1>2
    <2>. QED  BY <1>1, <1>2, <2>1, <2>2
  <1>. DEFINE to == [k \in 1..n |-> at[open + e[k]]]
  <1>4. \A k \in 1..n : /\ e[k] \in 1..(l - open)
                        /\ open + e[k] \in (open + 1)..l /\ open + e[k] \in 1..l
    <2>1. \A k \in 1..n : e[k] \in 1..(l - open)
      BY <1>1, <1>3
    <2>2. \A j \in 1..(l - open) : open + j \in (open + 1)..l /\ open + j \in 1..l
      BY <1>1, <1>2
    <2>. QED  BY <2>1, <2>2
  <1>5. \A k \in 1..n : to[k] = at[open + e[k]] /\ to[k] \in 1..Len(A)
    BY <1>1, <1>4
  <1>. HIDE DEF to
  <1>6. \A k \in 1..n : body[k] = text[open + e[k]] /\ body[k] # "." /\ body[k] # Opening
    <2>1. ASSUME NEW k \in 1..n  PROVE body[k] = text[open + e[k]]
      BY <1>1, <1>3, <1>4 DEF ReadFrom
    <2>. QED  BY <1>1, <1>4, <2>1
  <1>6a. /\ \A j \in 1..l : text[j] = "." \/ text[j] = A[at[j]]
         /\ \A j \in 1..(l - 1) : text[j] = "." \/ text[j + 1] = "." \/ at[j + 1] \in {1, at[j] + 1}
    BY <1>1 DEF Traces
  <1>6b. \A p, q \in 1..Len(A) : A[p] \in DollarWords /\ A[q] = "and" => q = p + 1
    BY DEF Announces
  <1>7. \A k \in 1..n : body[k] = A[to[k]]
    <2>1. SUFFICES ASSUME NEW k \in 1..n  PROVE body[k] = A[to[k]]
      OBVIOUS
    <2>2. PICK j \in 1..l : j = open + e[k]
      BY <1>4
    <2>3. text[j] # "." /\ body[k] = text[j] /\ to[k] = at[j]
      BY <1>5, <1>6, <2>2
    <2>. QED  BY <1>6a, <2>3
  <1>8. \A k \in 1..n : to[k] # 1
    BY <1>6, <1>7 DEF Announces
  <1>9. at[open] = 1
    <2>1. text[open] = A[at[open]] /\ at[open] \in 1..Len(A)
      <3>1. Opening # "."
        BY DEF Opening
      <3>. QED  BY <1>1, <1>2, <1>6a, <3>1
    <2>. QED  BY <2>1 DEF Announces
  <1>10. to[1] = 2
    <2>1. 1 \in 1..n /\ e[1] = 1
      BY <1>1 DEF ReadFrom
    <2>2. open + 1 \in 1..l /\ open \in 1..(l - 1)
      BY <1>2, <1>4, <2>1
    <2>3. text[open] # "." /\ text[open + 1] # "."
      <3>1. Opening # "."
        BY DEF Opening
      <3>. QED  BY <1>6, <2>1, <3>1
    <2>4. at[open + 1] \in {1, at[open] + 1}
      BY <1>6a, <2>2, <2>3
    <2>5. to[1] = at[open + 1] /\ to[1] # 1
      BY <1>5, <1>8, <2>1
    <2>6. to[1] \in {1, 1 + 1}
      BY <1>9, <2>4, <2>5
    <2>. QED  BY <2>5, <2>6
  <1>11. ASSUME NEW k \in 1..(n - 1)  PROVE to[k + 1] = to[k] + 1
    <2>1. k \in 1..n /\ k + 1 \in 1..n
      BY <1>1
    <2>2. CASE e[k + 1] = e[k] + 1
      <3>1. PICK j \in 1..l : j = open + e[k] /\ j + 1 = open + e[k + 1]
        <4>1. PICK j \in 1..l : j = open + e[k]
          BY <1>4, <2>1
        <4>2. open + e[k + 1] = j + 1
          <5>1. e[k] \in Int
            BY <1>4, <2>1
          <5>. QED  BY <1>2, <2>2, <4>1, <5>1
        <4>. QED  BY <4>1, <4>2
      <3>2. j \in 1..(l - 1)
        BY <1>1, <1>4, <2>1, <3>1
      <3>3. text[j] # "." /\ text[j + 1] # "."
        BY <1>6, <2>1, <3>1
      <3>4. at[j + 1] \in {1, at[j] + 1}
        BY <1>6a, <3>2, <3>3
      <3>. QED  BY <1>5, <1>8, <2>1, <3>1, <3>4
    <2>3. CASE body[k] \in DollarWords /\ body[k + 1] = "and"
      <3>1. PICK p \in 1..Len(A), q \in 1..Len(A) : p = to[k] /\ q = to[k + 1]
        BY <1>5, <2>1
      <3>2. A[p] \in DollarWords /\ A[q] = "and"
        BY <1>7, <2>1, <2>3, <3>1
      <3>3. q = p + 1
        BY <1>6b, <3>2
      <3>. QED  BY <3>1, <3>3
    <2>. QED  BY <1>1, <2>2, <2>3 DEF ReadFrom
  <1>12. \A k \in 1..n : to[k] = k + 1
    <2>. DEFINE T == {k \in Nat : k = 0 \/ to[k] = k + 1}
    <2>1. 0 \in T
      OBVIOUS
    <2>2. ASSUME NEW k \in 0..(n - 1), k \in T  PROVE k + 1 \in T
      <3>1. CASE k = 0
        BY <1>10, <3>1
      <3>2. CASE k # 0
        <4>1. k \in 1..(n - 1)
          BY <3>2
        <4>2. to[k + 1] = to[k] + 1
          BY <1>11, <4>1
        <4>. QED  BY <2>2, <3>2, <4>1, <4>2
      <3>. QED  BY <3>1, <3>2
    <2>3. 0..n \subseteq T
      <3>. HIDE DEF T
      <3>. QED  BY <1>1, <2>1, <2>2, AllPositions
    <2>4. \A k \in 1..n : k \in 0..n /\ k # 0
      BY <1>1
    <2>. QED  BY <2>3, <2>4
  <1>. QED  BY <1>1, <1>5, <1>7, <1>12


(* The places of an announcement that an amount is read from.              *)
Worth(A, i, n, amount) ==
    /\ 2 <= i /\ i + 3 <= n /\ n + 1 <= Len(A)
    /\ A[i + 1] \in DollarWords /\ A[n + 1] \in {"cent", "cents"}
    /\ amount = 100 * ValueOf(SubSeq(A, 2, i)) + ValueOf(SubSeq(A, i + 3, n))

LEMMA SamePart ==
    ASSUME NEW S, NEW s \in Seq(S), NEW t \in Seq(S), NEW a \in Nat, NEW b \in Nat,
           1 <= a, a <= b, b <= Len(s), b + 1 <= Len(t),
           \A k \in 1..Len(s) : s[k] = t[k + 1]
    PROVE  SubSeq(s, a, b) = SubSeq(t, a + 1, b + 1)
  <1>1. PICK u \in Seq(S), v \in Seq(S) : u = SubSeq(s, a, b) /\ v = SubSeq(t, a + 1, b + 1)
    <2>1. SubSeq(s, a, b) \in Seq(S) /\ SubSeq(t, a + 1, b + 1) \in Seq(S)
      OBVIOUS
    <2>. QED  BY <2>1
  <1>2. Len(u) = b - a + 1 /\ \A k \in 1..(b - a + 1) : u[k] = s[a + k - 1]
    BY <1>1
  <1>3. Len(v) = b - a + 1 /\ \A k \in 1..(b - a + 1) : v[k] = t[a + 1 + k - 1]
    BY <1>1
  <1>4. \A k \in 1..(b - a + 1) : a + k - 1 \in 1..Len(s) /\ a + k - 1 + 1 = a + 1 + k - 1
    OBVIOUS
  <1>5. \A k \in 1..(b - a + 1) : u[k] = v[k]
    BY <1>2, <1>3, <1>4
  <1>6. u = v
    BY <1>2, <1>3, <1>5, SeqEqual
  <1>. QED  BY <1>1, <1>6

LEMMA AmountFollows ==
    ASSUME NEW A, Announces(A), NEW cut \in Nat, NEW text \in Seq(Tokens), Traced(text, A, cut),
           NEW amount, RecognizeResult(text) = Complete(amount)
    PROVE  \E i, n \in Nat : Worth(A, i, n, amount)
  <1>0. A \in Seq(Tokens)
    BY DEF Announces
  <1>1. PICK at \in [1..Len(text) -> 1..Len(A)] : Traces(text, A, cut, at)
    BY DEF Traced
  <1>2. PICK open \in 1..Len(text) :
            /\ text[open] = Opening
            /\ \A k \in (open + 1)..Len(text) : text[k] # Opening
            /\ ParseAmount(SubSeq(text, open + 1, Len(text))) = amount /\ amount # -1
    BY ResultRead, Zenon DEF Opening
  <1>3. PICK words \in Seq(Tokens) : words = SubSeq(text, open + 1, Len(text))
    <2>1. SubSeq(text, open + 1, Len(text)) \in Seq(Tokens)
      OBVIOUS
    <2>. QED  BY <2>1
  <1>4. PICK body \in Seq(Tokens) : body = Joined(Unstopped(words))
    BY JoinedFollows
  <1>5. PICK e \in [1..Len(body) -> 1..Len(words)] : ReadFrom(body, words, e)
    BY <1>4, JoinedFollows
  <1>6. PICK i \in 1..Len(body) : Priced(body, i, amount)
    BY <1>2, <1>3, <1>4, AmountRead
  <1>7. PICK n \in Nat : n = Len(body) /\ body # <<>>
    BY <1>6
  <1>8. /\ 2 <= i /\ i + 3 <= n
        /\ \A k \in 1..Len(body) : body[k] # "."
    BY <1>6, <1>7, PricedUnstopped
  <1>9. \A k \in 1..n : k + 1 \in 1..Len(A) /\ body[k] = A[k + 1]
    <2>1. \A k \in 1..Len(body) : k + 1 \in 1..Len(A) /\ body[k] = A[k + 1]
      <3>1. Unbroken(body)
        BY <1>7, <1>8 DEF Unbroken
      <3>2. LastOpens(text, open)
        BY <1>2 DEF LastOpens
      <3>. QED  BY <1>1, <1>3, <1>5, <3>1, <3>2, ReadInOrder
    <2>. QED  BY <1>7, <2>1
  <1>10. i \in 1..n /\ n \in 1..n /\ i \in Nat /\ n + 1 <= Len(A)
    BY <1>0, <1>7, <1>8, <1>9
  <1>11. A[i + 1] \in DollarWords /\ A[n + 1] \in {"cent", "cents"}
    BY <1>6, <1>7, <1>9, <1>10 DEF Priced
  <1>12. SubSeq(body, 1, i - 1) = SubSeq(A, 2, i)
    <2>1. PICK b \in Nat : b = i - 1 /\ 1 <= b /\ b <= Len(body) /\ b + 1 <= Len(A) /\ b + 1 = i
      BY <1>0, <1>7, <1>8, <1>10
    <2>2. SubSeq(body, 1, b) = SubSeq(A, 1 + 1, b + 1)
      BY <1>0, <1>7, <1>9, <2>1, SamePart
    <2>. QED  BY <2>1, <2>2
  <1>13. SubSeq(body, i + 2, n - 1) = SubSeq(A, i + 3, n)
    <2>1. PICK a \in Nat, b \in Nat : a = i + 2 /\ b = n - 1
      BY <1>8, <1>10
    <2>1a. /\ 1 <= a /\ a <= b /\ b <= Len(body) /\ b + 1 <= Len(A)
           /\ b + 1 = n /\ a + 1 = i + 3
      <3>1. b + 1 = n /\ a + 1 = i + 3 /\ 1 <= a /\ a <= b
        BY <1>8, <1>10, <2>1
      <3>2. Len(A) \in Nat
        BY <1>0
      <3>. QED  BY <1>7, <1>10, <3>1, <3>2
    <2>2. SubSeq(body, a, b) = SubSeq(A, a + 1, b + 1)
      <3>1. \A k \in 1..Len(body) : body[k] = A[k + 1]
        BY <1>7, <1>9
      <3>. QED  BY <1>0, <2>1a, <3>1, SamePart, SMTT(30)
    <2>. QED  BY <2>1, <2>1a, <2>2
  <1>14. amount = 100 * ValueOf(SubSeq(body, 1, i - 1)) + ValueOf(SubSeq(body, i + 2, n - 1))
    BY <1>6, <1>7 DEF Priced
  <1>15. Worth(A, i, n, amount)
    BY <1>8, <1>10, <1>11, <1>12, <1>13, <1>14 DEF Worth
  <1>. QED  BY <1>10, <1>15


(* What the prompt of a result is worth.                                   *)
Announcing(W, unit, C, small) == <<Opening>> \o W \o <<unit, "and">> \o C \o <<small, ".">>

TwoParts(whole, s, t, m, n) ==
    /\ Len(whole) = m + n
    /\ \A k \in 1..m : whole[k] = s[k]
    /\ \A k \in 1..n : whole[m + k] = t[k]

LEMMA JoinsParts ==
    ASSUME NEW S, NEW s \in Seq(S), NEW t \in Seq(S), NEW m, NEW n, m = Len(s), n = Len(t)
    PROVE  TwoParts(s \o t, s, t, m, n)
  BY DEF TwoParts

Placed(A, W, unit, C, small, w, c) ==
    /\ Len(A) = w + c + 5
    /\ A[1] = Opening /\ A[w + 2] = unit /\ A[w + 3] = "and"
    /\ A[w + c + 4] = small /\ A[w + c + 5] = "."
    /\ \A k \in 1..w : A[k + 1] = W[k]
    /\ \A k \in 1..c : A[w + 3 + k] = C[k]

LEMMA PlacesOfPrompt ==
    ASSUME NEW W \in Seq(Numbering), NEW C \in Seq(Numbering),
           NEW unit \in DollarWords, NEW small \in {"cent", "cents"},
           NEW A, A = Announcing(W, unit, C, small),
           NEW w \in Nat, NEW c \in Nat, w = Len(W), c = Len(C)
    PROVE  Placed(A, W, unit, C, small, w, c)
  <1>. DEFINE X == Numbering \cup DollarWords \cup {"cent", "cents", ".", "and", Opening}
  <1>1. PICK s1 \in Seq(X), s2 \in Seq(X), s3 \in Seq(X), s4 \in Seq(X), s5 \in Seq(X) :
            /\ s1 = <<Opening>> /\ s2 = W /\ s3 = <<unit, "and">> /\ s4 = C /\ s5 = <<small, ".">>
    <2>1. <<Opening>> \in Seq(X) /\ <<unit, "and">> \in Seq(X) /\ <<small, ".">> \in Seq(X)
      OBVIOUS
    <2>2. W \in Seq(X) /\ C \in Seq(X)
      OBVIOUS
    <2>. QED  BY <2>1, <2>2
  <1>1a. s1 \in Seq(X) /\ s2 \in Seq(X) /\ s3 \in Seq(X) /\ s4 \in Seq(X) /\ s5 \in Seq(X)
    BY <1>1
  <1>1b. s2 = W /\ s4 = C
    BY <1>1
  <1>2. A = s1 \o s2 \o s3 \o s4 \o s5
    BY <1>1 DEF Announcing
  <1>. HIDE DEF X
  <1>3. w \in Nat /\ c \in Nat /\ w = Len(W) /\ c = Len(C)
    OBVIOUS
  <1>4. /\ Len(s1) = 1 /\ Len(s2) = w /\ Len(s3) = 2 /\ Len(s4) = c /\ Len(s5) = 2
        /\ s1[1] = Opening /\ s3[1] = unit /\ s3[2] = "and" /\ s5[1] = small /\ s5[2] = "."
    BY <1>1, <1>3
  <1>5. PICK a \in Seq(X) : a = s1 \o s2
    BY <1>1a, OfWords
  <1>6. /\ Len(a) = w + 1 /\ a[1] = Opening /\ \A k \in 1..w : a[k + 1] = W[k]
    <2>1. /\ Len(a) = 1 + w /\ \A k \in 1..1 : a[k] = s1[k]
          /\ \A k \in 1..w : a[1 + k] = s2[k]
      <3>1. TwoParts(a, s1, s2, 1, w)
        BY <1>1a, <1>4, <1>5, JoinsParts
      <3>. QED  BY <3>1 DEF TwoParts
    <2>2. \A k \in 1..w : 1 + k = k + 1
      OBVIOUS
    <2>. QED  BY <1>1b, <1>3, <1>4, <2>1, <2>2
  <1>7. PICK b \in Seq(X) : b = a \o s3
    BY <1>1a, <1>5, OfWords
  <1>8. /\ Len(b) = w + 3 /\ b[w + 2] = unit /\ b[w + 3] = "and"
        /\ \A k \in 1..(w + 1) : b[k] = a[k]
    <2>1. /\ Len(b) = w + 1 + 2 /\ \A k \in 1..(w + 1) : b[k] = a[k]
          /\ \A k \in 1..2 : b[w + 1 + k] = s3[k]
      <3>1. TwoParts(b, a, s3, w + 1, 2)
        BY <1>1a, <1>4, <1>5, <1>6, <1>7, JoinsParts
      <3>. QED  BY <3>1 DEF TwoParts
    <2>2. w + 1 + 1 = w + 2 /\ w + 1 + 2 = w + 3 /\ 1 \in 1..2 /\ 2 \in 1..2
      BY <1>3
    <2>. QED  BY <1>4, <2>1, <2>2
  <1>9. PICK d \in Seq(X) : d = b \o s4
    BY <1>1a, <1>7, OfWords
  <1>10. /\ Len(d) = w + 3 + c /\ \A k \in 1..(w + 3) : d[k] = b[k]
         /\ \A k \in 1..c : d[w + 3 + k] = C[k]
    <2>1. /\ Len(d) = w + 3 + c /\ \A k \in 1..(w + 3) : d[k] = b[k]
          /\ \A k \in 1..c : d[w + 3 + k] = s4[k]
      <3>1. TwoParts(d, b, s4, w + 3, c)
        BY <1>1a, <1>4, <1>7, <1>8, <1>9, JoinsParts
      <3>. QED  BY <3>1 DEF TwoParts
    <2>. QED  BY <1>1b, <2>1
  <1>11. A = d \o s5
    BY <1>2, <1>5, <1>7, <1>9
  <1>12. /\ Len(A) = w + c + 5 /\ A[w + c + 4] = small /\ A[w + c + 5] = "."
         /\ \A k \in 1..(w + 3 + c) : A[k] = d[k]
    <2>1. w + 3 + c \in Nat /\ 2 \in Nat /\ 1 \in 1..2 /\ 2 \in 1..2
      BY <1>3
    <2>2. /\ Len(A) = w + 3 + c + 2 /\ \A k \in 1..(w + 3 + c) : A[k] = d[k]
          /\ \A k \in 1..2 : A[w + 3 + c + k] = s5[k]
      <3>1. TwoParts(d \o s5, d, s5, w + 3 + c, 2)
        BY <1>1a, <1>4, <1>9, <1>10, JoinsParts
      <3>. QED  BY <1>11, <3>1 DEF TwoParts
    <2>3. /\ w + 3 + c + 2 = w + c + 5 /\ w + 3 + c + 1 = w + c + 4
      BY <1>3
    <2>. QED  BY <1>4, <2>1, <2>2, <2>3
  <1>13. A[1] = Opening /\ A[w + 2] = unit /\ A[w + 3] = "and"
    <2>1. \A k \in 1..(w + 3) : A[k] = b[k]
      <3>1. \A k \in 1..(w + 3) : k \in 1..(w + 3 + c)
        BY <1>3
      <3>. QED  BY <1>10, <1>12, <3>1
    <2>2. A[1] = a[1]
      <3>1. 1 \in 1..(w + 3) /\ 1 \in 1..(w + 1)
        BY <1>3
      <3>. QED  BY <1>8, <2>1, <3>1
    <2>. QED  BY <1>6, <1>8, <2>1, <2>2
  <1>14. ASSUME NEW k \in 1..w  PROVE A[k + 1] = W[k]
    <2>1. k + 1 \in 1..(w + 1) /\ k + 1 \in 1..(w + 3) /\ k + 1 \in 1..(w + 3 + c)
      OBVIOUS
    <2>. QED  BY <1>6, <1>8, <1>10, <1>12, <2>1
  <1>15. ASSUME NEW k \in 1..c  PROVE A[w + 3 + k] = C[k]
    <2>1. w + 3 + k \in 1..(w + 3 + c)
      OBVIOUS
    <2>. QED  BY <1>10, <1>12, <2>1
  <1>. QED  BY <1>12, <1>13, <1>14, <1>15 DEF Placed


LEMMA PartIs ==
    ASSUME NEW S, NEW s \in Seq(S), NEW R, NEW t \in Seq(R), NEW a \in Nat,
           1 <= a, a + Len(t) - 1 <= Len(s),
           \A k \in 1..Len(t) : s[a + k - 1] = t[k]
    PROVE  SubSeq(s, a, a + Len(t) - 1) = t
  <1>1. PICK n \in Nat : n = Len(t)
    OBVIOUS
  <1>2. PICK u : u = SubSeq(s, a, a + n - 1)
    OBVIOUS
  <1>3. u \in Seq(S) /\ Len(u) = n /\ \A k \in 1..n : u[k] = s[a + k - 1]
    BY <1>1, <1>2
  <1>4. t \in Seq(S \cup R) /\ u \in Seq(S \cup R)
    BY <1>3
  <1>5. u = t
    BY <1>1, <1>3, <1>4, SeqEqual
  <1>. QED  BY <1>1, <1>2, <1>5

LEMMA PromptAnnounces ==
    ASSUME NEW W \in Seq(Numbering), NEW C \in Seq(Numbering),
           NEW unit \in DollarWords, NEW small \in {"cent", "cents"},
           NEW A \in Seq(Tokens), A = Announcing(W, unit, C, small)
    PROVE  /\ Announces(A) /\ A[Len(A)] = "."
           /\ \A i, n \in Nat : \A amount :
                  Worth(A, i, n, amount) => amount = 100 * ValueOf(W) + ValueOf(C)
  <1>1. PICK w \in Nat, c \in Nat :
            /\ w = Len(W) /\ c = Len(C) /\ Len(A) = w + c + 5
            /\ A[1] = Opening /\ A[w + 2] = unit /\ A[w + 3] = "and"
            /\ A[w + c + 4] = small /\ A[w + c + 5] = "."
            /\ \A k \in 1..w : A[k + 1] = W[k]
            /\ \A k \in 1..c : A[w + 3 + k] = C[k]
    <2>1. PICK w \in Nat, c \in Nat : w = Len(W) /\ c = Len(C)
      OBVIOUS
    <2>2. Placed(A, W, unit, C, small, w, c)
      BY <2>1, PlacesOfPrompt
    <2>. QED  BY <2>1, <2>2 DEF Placed
  <1>1a. w \in Nat /\ c \in Nat /\ Len(A) = w + c + 5
    BY <1>1
  <1>2. ASSUME NEW p \in 1..Len(A)
        PROVE  \/ p = 1 \/ A[p] \in Numbering \/ p = w + 2 \/ p = w + 3
               \/ p = w + c + 4 \/ p = w + c + 5
    <2>1. CASE p \in 2..(w + 1)
      <3>1. PICK k \in 1..w : p = k + 1
        <4>1. p - 1 \in 1..w /\ p = (p - 1) + 1
          BY <2>1
        <4>. QED  BY <4>1
      <3>2. A[p] = W[k] /\ W[k] \in Numbering
        BY <1>1, <3>1
      <3>. QED  BY <3>2
    <2>2. CASE p \in (w + 4)..(w + c + 3)
      <3>1. PICK k \in 1..c : p = w + 3 + k
        <4>1. p - w - 3 \in 1..c /\ p = w + 3 + (p - w - 3)
          BY <2>2
        <4>. QED  BY <4>1
      <3>2. A[p] = C[k] /\ C[k] \in Numbering
        BY <1>1, <3>1
      <3>. QED  BY <3>2
    <2>3. \/ p = 1 \/ p \in 2..(w + 1) \/ p = w + 2 \/ p = w + 3 \/ p \in (w + 4)..(w + c + 3)
          \/ p = w + c + 4 \/ p = w + c + 5
      BY <1>1a
    <2>. QED  BY <2>1, <2>2, <2>3
  <1>3. /\ Opening \notin Numbering /\ Opening \notin DollarWords \cup {"and", "cent", "cents", "."}
        /\ "and" \notin Numbering /\ Numbering \cap DollarWords = {}
        /\ "cent" \notin Numbering /\ "cents" \notin Numbering
    BY OtherWords, Zenon DEF Opening, DollarWords
  <1>4. /\ unit # "and" /\ unit \notin {"cent", "cents", Opening}
        /\ small # "and" /\ small \notin DollarWords /\ small # Opening
        /\ "and" \notin DollarWords /\ "." \notin DollarWords
    BY <1>3 DEF DollarWords
  <1>4a. /\ \A x \in Numbering : x \notin DollarWords /\ x # "and" /\ x \notin {"cent", "cents"}
         /\ Opening \notin DollarWords /\ Opening # "and" /\ Opening \notin {"cent", "cents"}
         /\ "and" \notin {"cent", "cents"} /\ "." \notin {"cent", "cents"} /\ "." # "and"
    BY <1>3
  <1>5. \A p \in 1..Len(A) : A[p] = Opening => p = 1
    <2>1. \A x \in Numbering : x # Opening
      BY <1>3
    <2>2. Opening # "and" /\ Opening # "."
      BY <1>3
    <2>. QED  BY <1>1, <1>2, <1>4, <2>1, <2>2, Zenon
  <1>6. \A p \in 1..Len(A) : A[p] \in DollarWords => p = w + 2
    <2>1. SUFFICES ASSUME NEW p \in 1..Len(A), A[p] \in DollarWords, p # w + 2  PROVE FALSE
      OBVIOUS
    <2>2. A[p] = Opening \/ A[p] \in Numbering \/ A[p] = "and" \/ A[p] = small \/ A[p] = "."
      BY <1>1, <1>2, <2>1, Zenon
    <2>. QED  BY <1>4, <1>4a, <2>1, <2>2
  <1>7. \A p \in 1..Len(A) : A[p] = "and" => p = w + 3
    BY <1>1, <1>2, <1>4, <1>4a, Zenon
  <1>8. \A p \in 1..Len(A) : A[p] \in {"cent", "cents"} => p = w + c + 4
    BY <1>1, <1>2, <1>4, <1>4a, Zenon
  <1>9. Announces(A)
    <2>1. A # <<>>
      BY <1>1
    <2>2. \A p, q \in 1..Len(A) : A[p] \in DollarWords /\ A[q] = "and" => q = p + 1
      BY <1>1, <1>6, <1>7
    <2>. QED  BY <1>1, <1>5, <2>1, <2>2 DEF Announces
  <1>10. ASSUME NEW i \in Nat, NEW n \in Nat, NEW amount, Worth(A, i, n, amount)
         PROVE  amount = 100 * ValueOf(W) + ValueOf(C)
    <2>1. /\ 2 <= i /\ i + 3 <= n /\ n + 1 <= Len(A) /\ Len(A) \in Nat
          /\ A[i + 1] \in DollarWords /\ A[n + 1] \in {"cent", "cents"}
          /\ amount = 100 * ValueOf(SubSeq(A, 2, i)) + ValueOf(SubSeq(A, i + 3, n))
      BY <1>1, <1>10 DEF Worth
    <2>2. i + 1 \in 1..Len(A) /\ n + 1 \in 1..Len(A)
      BY <2>1
    <2>3. i = w + 1 /\ n = w + c + 3
      <3>1. i + 1 = w + 2 /\ n + 1 = w + c + 4
        BY <1>6, <1>8, <2>1, <2>2
      <3>. QED  BY <3>1
    <2>4. SubSeq(A, 2, i) = W
      <3>1. 2 + Len(W) - 1 = i /\ 2 + Len(W) - 1 <= Len(A)
        BY <1>1, <2>3
      <3>2. \A k \in 1..Len(W) : A[2 + k - 1] = W[k]
        BY <1>1
      <3>3. SubSeq(A, 2, 2 + Len(W) - 1) = W
        BY <3>1, <3>2, PartIs
      <3>. QED  BY <3>1, <3>3
    <2>5. SubSeq(A, i + 3, n) = C
      <3>1. i + 3 + Len(C) - 1 = n /\ i + 3 + Len(C) - 1 <= Len(A) /\ i + 3 \in Nat /\ 1 <= i + 3
        BY <1>1, <2>3
      <3>2. \A k \in 1..Len(C) : A[i + 3 + k - 1] = C[k]
        <4>1. \A k \in 1..c : i + 3 + k - 1 = w + 3 + k
          BY <2>3
        <4>. QED  BY <1>1, <4>1
      <3>3. SubSeq(A, i + 3, i + 3 + Len(C) - 1) = C
        BY <3>1, <3>2, PartIs
      <3>. QED  BY <3>1, <3>3
    <2>. QED  BY <2>1, <2>4, <2>5
  <1>11. A[Len(A)] = "."
    BY <1>1
  <1>. QED  BY <1>9, <1>10, <1>11


(* An amount that is recognized is read from the announcement.             *)
LEMMA AmountsAreWorth ==
    ASSUME NEW A, Announces(A), A[Len(A)] = ".", NEW finals, HeardAs(A, finals),
           NEW amount \in Amounts(Sayable(finals))
    PROVE  \E i, n \in Nat : Worth(A, i, n, amount)
  <1>1. A \in Seq(Tokens) /\ A # <<>>
    BY DEF Announces
  <1>2. PICK cut \in Nat : \A text \in Heard(Sayable(finals)) :
            text \in Seq(Tokens) /\ (Foreign(text) \/ Traced(text, A, cut))
    BY <1>1, HeardTraced
  <1>3. PICK text \in Heard(Sayable(finals)) : Recognize("result", text) = Complete(amount)
    BY DEF Amounts
  <1>4. text \in Seq(Tokens)
    BY <1>2
  <1>5. ~Foreign(text) /\ Recognize("result", text) = RecognizeResult(text)
    <2>1. Complete(amount).status = "complete"
      BY DEF Complete
    <2>. QED  BY <1>3, <1>4, <2>1, ForeignIsRefused
  <1>6. Traced(text, A, cut) /\ RecognizeResult(text) = Complete(amount)
    BY <1>2, <1>3, <1>5
  <1>. QED  BY <1>4, <1>6, AmountFollows

(* Where no amount is announced, none is.                                  *)
Unpriced == <<Opening, "unavailable", ".">>

LEMMA NoneIsWorth ==
    /\ Announces(Unpriced) /\ Unpriced[Len(Unpriced)] = "."
    /\ \A i, n \in Nat : \A amount : ~Worth(Unpriced, i, n, amount)
  <1>1. /\ Len(Unpriced) = 3 /\ Unpriced[1] = Opening /\ Unpriced[2] = "unavailable"
        /\ Unpriced[3] = "." /\ Unpriced # <<>>
    BY DEF Unpriced
  <1>2. Unpriced \in Seq(Tokens)
    <2>1. Opening \in Tokens /\ "unavailable" \in Tokens /\ "." \in Tokens
      BY TokenWords, PhraseTokens, Zenon DEF Opening
    <2>. QED  BY <2>1 DEF Unpriced
  <1>3. /\ Opening \notin {"unavailable", ".", "dollar", "dollars", "and"}
        /\ "unavailable" \notin DollarWords /\ "." \notin DollarWords
    BY Zenon DEF Opening, DollarWords
  <1>4. \A p \in 1..3 : p = 1 \/ p = 2 \/ p = 3
    OBVIOUS
  <1>5. \A p \in 1..3 : Unpriced[p] \notin DollarWords /\ (Unpriced[p] = Opening => p = 1)
    BY <1>1, <1>3, <1>4 DEF DollarWords
  <1>6. Announces(Unpriced)
    BY <1>1, <1>2, <1>5 DEF Announces
  <1>7. ASSUME NEW i \in Nat, NEW n \in Nat, NEW amount, Worth(Unpriced, i, n, amount)  PROVE FALSE
    <2>1. i + 1 \in 1..3 /\ Unpriced[i + 1] \in DollarWords
      BY <1>1, <1>7 DEF Worth
    <2>. QED  BY <1>5, <2>1
  <1>. QED  BY <1>1, <1>6, <1>7

LEMMA NoneHeard == Amounts(Sayable(<<>>)) = {}
  <1>1. HeardAs(Unpriced, <<>>)
    BY DEF HeardAs
  <1>. QED  BY <1>1, NoneIsWorth, AmountsAreWorth

(* The prompt of a result is worth its amount.                             *)
LEMMA PromptIsWorth ==
    ASSUME NEW amount \in Nat, NEW dollars \in Nat, NEW cents \in Nat,
           dollars = amount \div 100, cents = amount % 100, dollars <= 9999, cents <= 99,
           NEW A \in Seq(Tokens), A = ResultPrompt(amount)
    PROVE  /\ Announces(A) /\ A[Len(A)] = "."
           /\ \A i, n \in Nat : \A other : Worth(A, i, n, other) => other = amount
  <1>1. cents <= 9999
    OBVIOUS
  <1>2. IntegerWords[dollars] \in Seq(Numbering) /\ IntegerWords[cents] \in Seq(Numbering)
    BY <1>1, SpeltInText
  <1>3. ValueOf(IntegerWords[dollars]) = dollars /\ ValueOf(IntegerWords[cents]) = cents
    BY <1>1, SpeltValue
  <1>4. PICK unit \in DollarWords : unit = Unit(dollars, "dollar", "dollars")
    BY DEF Unit, DollarWords
  <1>5. PICK small \in {"cent", "cents"} : small = Unit(cents, "cent", "cents")
    BY DEF Unit
  <1>6. A = Announcing(IntegerWords[dollars], unit, IntegerWords[cents], small)
    BY <1>4, <1>5, Zenon DEF ResultPrompt, Announcing, Opening
  <1>7. amount = 100 * dollars + cents
    OBVIOUS
  <1>. QED  BY <1>2, <1>3, <1>6, <1>7, PromptAnnounces
=============================================================================

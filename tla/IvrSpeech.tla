------------------------------ MODULE IvrSpeech ------------------------------
(***************************************************************************)
(* What the test IVR says and what the automated caller makes of it        *)
(* (spikes/ivr/fixture.py and speech.py).  A transcript is a sequence of   *)
(* tokens: number words, full stops, and one token for every phrase that a *)
(* pattern of the grammar matches as a whole.  Numbers that the            *)
(* transcription writes in figures are left out.                           *)
(***************************************************************************)
EXTENDS Integers, Sequences, FiniteSets, SequencesExt

CONSTANTS
    None,             \* no value
    CodeLength,       \* digits of a challenge (4 in the code)
    SyntheticId       \* the digits both sides are configured with (9 of them)

ASSUME IvrSpeechAssumption ==
    /\ CodeLength \in Nat \ {0}
    /\ SyntheticId \in Seq(0..9) \ {<<>>}

-----------------------------------------------------------------------------
(* Numbers as the fixture speaks them.                                     *)
Small == <<"zero", "one", "two", "three", "four", "five", "six", "seven",
           "eight", "nine", "ten", "eleven", "twelve", "thirteen", "fourteen",
           "fifteen", "sixteen", "seventeen", "eighteen", "nineteen">>
Tens  == <<"", "twenty", "thirty", "forty", "fifty", "sixty", "seventy",
           "eighty", "ninety">>

DigitWords(digits) == [i \in DOMAIN digits |-> Small[digits[i] + 1]]

IntegerWords[n \in 0..9999] ==
    LET Rest(m) == IF m = 0 THEN <<>> ELSE IntegerWords[m]
    IN  IF n < 20 THEN <<Small[n + 1]>>
        ELSE IF n < 100 THEN <<Tens[n \div 10]>> \o Rest(n % 10)
        ELSE IF n < 1000
             THEN IntegerWords[n \div 100] \o <<"hundred">> \o Rest(n % 100)
             ELSE IntegerWords[n \div 1000] \o <<"thousand">> \o Rest(n % 1000)

Unit(n, one, many) == IF n = 1 THEN one ELSE many

(* An amount is a number of cents.                                         *)
ResultPrompt(amount) ==
    LET dollars == amount \div 100
        cents   == amount % 100
    IN  <<"value is">> \o IntegerWords[dollars] \o <<Unit(dollars, "dollar", "dollars"), "and">>
          \o IntegerWords[cents] \o <<Unit(cents, "cent", "cents"), ".">>

(* The prompt of every gather, and what a failure says.                    *)
Prompt(stage, code) ==
    CASE stage = "welcome"      -> <<"1 to continue">>
      [] stage = "challenge"    -> <<"code is">> \o DigitWords(code) \o <<"enter code">>
      [] stage = "menu"         -> <<"1 for personal", "2 for business">>
      [] stage = "identifier"   -> <<"9 digit personal id">>
      [] stage = "confirmation" ->
             <<"you entered">> \o DigitWords(SyntheticId) \o <<"1 if correct">>

-----------------------------------------------------------------------------
(* The caller's grammar.                                                   *)
Pending         == [status |-> "pending"]
Invalid(reason) == [status |-> "invalid", reason |-> reason]
Complete(value) == [status |-> "complete", value |-> value]

Hears(text, token) == Contains(text, token)
Where(text, token) == SelectInSeq(text, LAMBDA t : t = token)

(* parse_digits: exactly that many digit words, or <<>>                    *)
ParseDigits(words, length) ==
    IF Len(words) = length /\ \A i \in 1..length : \E d \in 0..9 : words[i] = Small[d + 1]
    THEN [i \in 1..length |-> (CHOOSE d \in 0..9 : words[i] = Small[d + 1])]
    ELSE <<>>

Rejections == <<<<"not accepted", "fixture_rejection">>,
                <<"could not verify", "fixture_rejection">>,
                <<"not supported", "unexpected_menu">>,
                <<"service unavailable", "fixture_rejection">>>>

StageSigns ==
    [welcome      |-> {"1 to continue", "other to continue"},
     challenge    |-> {"code is", "enter code"},
     menu         |-> {"1 for personal", "other for personal",
                       "2 for business", "other for business"},
     identifier   |-> {"9 digit personal id", "other digit personal id"},
     confirmation |-> {"you entered"},
     result       |-> {"value is"}]

StagesPresent(text) ==
    {s \in DOMAIN StageSigns : \E t \in StageSigns[s] : Hears(text, t)}

(* What a transcript is made of.                                           *)
NumberWords == {Small[i] : i \in 1..20} \cup {Tens[i] : i \in 2..9}

Signs == UNION {StageSigns[s] : s \in DOMAIN StageSigns}

Tokens == NumberWords \cup Signs \cup {Rejections[i][1] : i \in DOMAIN Rejections}
          \cup {"1 if correct", "other if correct", "unavailable", "hundred", "thousand", "and",
                "dollar", "dollars", "cent", "cents", "."}

(* The words between two phrases, when the first comes before the second.  *)
Span(text, start, end) == SubSeq(text, Where(text, start) + 1, Where(text, end) - 1)

RecognizeChoice(text, right, wrong, digits) ==
    IF \E w \in wrong : Hears(text, w) THEN Invalid("unexpected_menu")
    ELSE IF \A r \in right : Hears(text, r) THEN Complete(digits) ELSE Pending

RecognizeChallenge(text) ==
    LET begun == Hears(text, "code is")
        ended == Hears(text, "enter code")
        code  == ParseDigits(Span(text, "code is", "enter code"), CodeLength)
    IN  IF ~ended THEN Pending
        ELSE IF ~begun THEN Invalid("challenge_unrecognized")
        ELSE IF Where(text, "enter code") < Where(text, "code is") THEN Invalid("ambiguous")
        ELSE IF code = <<>> THEN Invalid("challenge_unrecognized")
        ELSE Complete(code)

RecognizeConfirmation(text) ==
    LET begun == Hears(text, "you entered")
        ended == Hears(text, "1 if correct")
        id    == ParseDigits(Span(text, "you entered", "1 if correct"), Len(SyntheticId))
    IN  IF ended /\ ~begun THEN Invalid("confirmation_unrecognized")
        ELSE IF begun /\ ~ended /\ Hears(text, "other if correct") THEN Invalid("unexpected_menu")
        ELSE IF ~ended THEN Pending
        ELSE IF Where(text, "1 if correct") < Where(text, "you entered") THEN Invalid("ambiguous")
        ELSE IF id = <<>> THEN Invalid("confirmation_unrecognized")
        ELSE IF id # SyntheticId THEN Invalid("id_mismatch")
        ELSE Complete(<<1>>)

-----------------------------------------------------------------------------
(* The amount.  The word patterns, as the sets of what they match.         *)
Words(set) == {<<w>> : w \in set}
Then(first, rest) == first \cup {pair[1] \o pair[2] : pair \in first \X rest}

Units == Words({Small[i] : i \in 2..10})

Under100 == Words({Small[i] : i \in 2..20}) \cup Then(Words({Tens[i] : i \in 2..9}), Units)

OrThe(word, below) == below \cup Then({u \o <<word>> : u \in Units}, below)

Under1000 == OrThe("hundred", Under100)
Numerals  == {<<"zero">>} \cup OrThe("thousand", Under1000)

SmallValue(word) ==
    IF \E i \in DOMAIN Small : Small[i] = word
    THEN (CHOOSE i \in DOMAIN Small : Small[i] = word) - 1
    ELSE 10 * (CHOOSE i \in DOMAIN Tens : Tens[i] = word)

ValueOf(words) ==
    LET Step(acc, word) ==
            CASE word = "thousand" -> [value |-> acc.value + acc.group * 1000, group |-> 0]
              [] word = "hundred"  -> [acc EXCEPT !.group = @ * 100]
              [] OTHER             -> [acc EXCEPT !.group = @ + SmallValue(word)]
        Total(acc) == acc.value + acc.group
        after[i \in 0..Len(words)] ==
            IF i = 0 THEN [value |-> 0, group |-> 0] ELSE Step(after[i - 1], words[i])
    IN  Total(after[Len(words)])

AtMost(maximum, n) == IF n \in 0..maximum THEN n ELSE -1

(* _integer: the value of the words, or -1                                 *)
Integer(words, maximum) ==
    IF words \in Numerals THEN AtMost(maximum, ValueOf(words)) ELSE -1

Unstopped(words) == SubSeq(words, 1, SelectLastInSeq(words, LAMBDA w : w # "."))

Dollars(words) == SelectLastInSeq(words, LAMBDA w : w \in {"dollar", "dollars"})

(* "dollars. and": a final segment may end, with a stop, at that boundary. *)
Joined(words) ==
    LET i == Dollars(words)
    IN  IF i # 0 /\ i + 2 <= Len(words) /\ words[i + 1] = "." /\ words[i + 2] = "and"
        THEN RemoveAt(words, i + 1)
        ELSE words

(* The numbers of a body that has its "dollars" at i, -1 for none.         *)
Parts(body, i, end) ==
    [dollars |-> Integer(SubSeq(body, 1, i - 1), 9999),
     cents   |-> IF i < Len(body) /\ body[i + 1] = "and"
                 THEN Integer(SubSeq(body, i + 2, end), 99) ELSE -1]

InCents(parts) == IF -1 \in {parts.dollars, parts.cents} THEN -1
                  ELSE 100 * parts.dollars + parts.cents

(* parse_amount reading dollars alone as an amount.                        *)
ParseAmount_DollarsSuffice(words) ==
    LET body == Unstopped(words)
        Alone(parts) == IF parts.dollars = -1 THEN -1 ELSE 100 * parts.dollars
    IN  Alone(Parts(body, Dollars(body), 0))

(* parse_amount: one announcement's words after "value is", or -1          *)
ParseAmount(words) ==
    LET body == Joined(Unstopped(words))
    IN  IF body # <<>> /\ Last(body) \in {"cent", "cents"}
        THEN InCents(Parts(body, Dollars(body), Len(body) - 1))
        ELSE -1

(* What may still be on its way: nothing yet, or dollars and perhaps cents.*)
Fragment(words) ==
    LET body == Unstopped(words)
        i    == Dollars(body)
        MayGoOn(parts) ==
            /\ parts.dollars # -1
            /\ i + 1 < Len(body) => parts.cents # -1
            /\ i + 1 = Len(body) => body[i + 1] = "and"
    IN  body = <<>> \/ MayGoOn(Parts(body, i, Len(body)))

(* The announcements heard, by the place where each begins, and what each *)
(* is parsed to.  Only the last may go on.                                 *)
Announced(said, amounts) ==
    LET open    == Max(DOMAIN said)
        settled == {amounts[i] : i \in DOMAIN said \ {open}}
        unsure  == said[open] = <<>> \/ Last(said[open]) # "." \/ Fragment(said[open])
    IN  IF -1 \in settled \/ Cardinality(settled) > 1 THEN Invalid("result_unrecognized")
        ELSE IF amounts[open] = -1 /\ unsure THEN Pending
        ELSE IF amounts[open] = -1 \/ ~(settled \subseteq {amounts[open]})
        THEN Invalid("result_unrecognized")
        ELSE Complete(amounts[open])

RecognizeResult(text) ==
    LET starts == {i \in DOMAIN text : text[i] = "value is"}
        End(i) == Min({j - 1 : j \in {k \in starts : k > i}} \cup {Len(text)})
        Heard(said) == Announced(said, [i \in DOMAIN said |-> ParseAmount(said[i])])
    IN  IF starts = {} THEN Pending
        ELSE IF 1 \notin starts THEN Invalid("result_unrecognized")
        ELSE Heard([i \in starts |-> SubSeq(text, i + 1, End(i))])

-----------------------------------------------------------------------------
(* recognize(): rejections come first, then prompts of several stages.     *)
Recognize(stage, text) ==
    LET heard == {i \in DOMAIN Rejections : Hears(text, Rejections[i][1])}
    IN  IF heard # {} THEN Invalid(Rejections[Min(heard)][2])
        ELSE IF Cardinality(StagesPresent(text)) > 1 THEN Invalid("ambiguous")
        ELSE CASE stage = "welcome" ->
                    RecognizeChoice(text, {"1 to continue"}, {"other to continue"}, <<1>>)
               [] stage = "challenge" -> RecognizeChallenge(text)
               [] stage = "menu" ->
                    RecognizeChoice(text, {"1 for personal", "2 for business"},
                                    {"other for personal", "other for business"}, <<1>>)
               [] stage = "identifier" ->
                    RecognizeChoice(text, {"9 digit personal id"},
                                    {"other digit personal id"}, SyntheticId)
               [] stage = "confirmation" -> RecognizeConfirmation(text)
               [] stage = "result" -> RecognizeResult(text)
=============================================================================

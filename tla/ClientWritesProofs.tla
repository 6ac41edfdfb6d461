-------------------------- MODULE ClientWritesProofs --------------------------
(***************************************************************************)
(* ClientWrites: what is proved about it, for every number of writes, of   *)
(* plans, of revisions and of asynchronous functions under way.            *)
(***************************************************************************)
EXTENDS ClientWrites, FiniteSetTheorems, TLAPS

-----------------------------------------------------------------------------
(* Types.                                                                  *)
Maybe(S)  == S \cup {None}
Revisions == 0..MaxRevision
Body      == [plan : Plans, expected : Maybe(Revisions)]
Fates     == {"unsent", "sent", "answered", "refused", "discarded", "reloaded"}

ScreenType ==
    [up : BOOLEAN, plan : Maybe(Plans), pending : Maybe(Ids), failed : BOOLEAN,
     unloaded : BOOLEAN]

(* What is left to do, by what comes first.                                *)
Saving   == {<<"save", "post">>, <<"save">>}
Clearing == {<<"clear", "get">>, <<"clear">>}
Getting  == {<<"get", "clear">>, <<"get">>}
Posting  == {<<"post">>}
Asking   == {<<"read">>, <<"look">>}
Lists    == Saving \cup Clearing \cup Getting \cup Posting \cup Asking \cup {<<>>}

Kinds == {"idle", "hydrate", "write", "load", "refused", "discard", "reload", "left"}
Ats   == {"start", "checked", "read", "served"}

JobType ==
    [kind : Kinds, id : Maybe(Ids), plan : Maybe(Plans), steps : Lists, at : Ats,
     seen : Maybe(Revisions)]

Types ==
    /\ body \in [Ids -> Maybe(Body)]
    /\ journal \in [Ids -> Maybe(Revisions)]
    /\ revision \in [Plans -> Maybe(Revisions)]
    /\ cached \in [Plans -> Maybe(Revisions)]
    /\ store \in Maybe(Ids) /\ network \in SUBSET Ids
    /\ fate \in [Ids -> Fates]
    /\ screen \in ScreenType
    /\ job \in [Jobs -> JobType]
    /\ queue \in Seq(Jobs)

-----------------------------------------------------------------------------
(* The invariant.                                                          *)

(* Whatever names a write names one that was made, and an action was made  *)
(* for a revision that is not the last.                                    *)
Known ==
    /\ \A i \in Ids : body[i] # None =>
           body[i].plan = i \/ body[i].expected \in 0..(MaxRevision - 1)
    /\ \A i \in network : body[i] # None
    /\ store # None => body[store] # None
    /\ screen.pending # None => body[screen.pending] # None

Waiting == {j \in Jobs : job[j].steps \in Saving \cup Clearing}

Once(q) == \A a, b \in 1..Len(q) : q[a] = q[b] => a = b

InLine == Once(queue) /\ Range(queue) = Waiting

Settled(i) == fate[i] \notin {"unsent", "sent"}

HasTurn(j) == queue # <<>> /\ Head(queue) = j

(* A record is cleared when its write is settled, and what was checked of  *)
(* the storage is so until the turn is over.                               *)
Sound(j) ==
    LET w == job[j]
    IN  /\ w.id # None => body[w.id] # None
        /\ w.steps \in Saving \cup Clearing \cup Posting \cup {<<"get", "clear">>} => w.id # None
        /\ w.steps \in Getting \cup Posting \cup {<<"save", "post">>, <<"clear", "get">>} =>
               w.plan # None
        /\ w.steps \in Clearing => Settled(w.id)
        /\ w.steps = <<"get", "clear">> => w.kind = "reload" \/ Settled(w.id)
        /\ (w.steps \in Saving \cup Clearing /\ w.at = "checked") =>
               /\ HasTurn(j)
               /\ w.steps \in Saving => store \in {None, w.id}
               /\ w.steps \in Clearing => store = w.id

WritesInv ==
    Types /\ Known /\ InLine /\ (\A j \in Jobs : Sound(j)) /\ UnknownIsKept

-----------------------------------------------------------------------------
(* The lists of steps, and the queue.                                      *)
LEMMA ListFacts ==
  \A l \in Lists :
     /\ (l # <<>> /\ Head(l) \in {"save", "clear"}) <=> l \in Saving \cup Clearing
     /\ (l # <<>> /\ Head(l) = "save") <=> l \in Saving
     /\ (l # <<>> /\ Head(l) = "clear") <=> l \in Clearing
     /\ (l # <<>> /\ Head(l) = "get") <=> l \in Getting
     /\ (l # <<>> /\ Head(l) = "post") <=> l \in Posting
     /\ (l # <<>> /\ Head(l) \in {"read", "look"}) <=> l \in Asking
     /\ l \in Saving => Tail(l) = (IF l = <<"save", "post">> THEN <<"post">> ELSE <<>>)
     /\ l \in Clearing => Tail(l) = (IF l = <<"clear", "get">> THEN <<"get">> ELSE <<>>)
     /\ l \in Getting => Tail(l) = (IF l = <<"get", "clear">> THEN <<"clear">> ELSE <<>>)
     /\ Range(l) \subseteq {"read", "save", "post", "look", "clear", "get"}
PROOF
<1>1. ASSUME NEW l \in Lists
      PROVE  \/ l = <<"save", "post">> \/ l = <<"save">> \/ l = <<"clear", "get">>
             \/ l = <<"clear">> \/ l = <<"get", "clear">> \/ l = <<"get">> \/ l = <<"post">>
             \/ l = <<"read">> \/ l = <<"look">> \/ l = <<>>
  BY DEF Lists, Saving, Clearing, Getting, Posting, Asking
<1>2. ASSUME NEW a, NEW b, NEW l, l = <<a, b>>
      PROVE  /\ l # <<>> /\ Head(l) = a /\ Tail(l) = <<b>> /\ Range(l) = {a, b}
             /\ l[1] = a /\ l[2] = b /\ Len(l) = 2
  BY <1>2 DEF Range
<1>3. ASSUME NEW a, NEW l, l = <<a>>
      PROVE  /\ l # <<>> /\ Head(l) = a /\ Tail(l) = <<>> /\ Range(l) = {a}
             /\ l[1] = a /\ Len(l) = 1
  BY <1>3 DEF Range
<1>4. ASSUME NEW l, l = <<>>
      PROVE  Range(l) = {} /\ Len(l) = 0
  BY <1>4 DEF Range
<1> QED
  BY <1>1, <1>2, <1>3, <1>4 DEF Lists, Saving, Clearing, Getting, Posting, Asking

LEMMA RangeIs ==
  ASSUME NEW S, NEW q \in Seq(S)
  PROVE  \A x : x \in Range(q) <=> \E a \in 1..Len(q) : q[a] = x
BY DEF Range

LEMMA TailRange ==
  ASSUME NEW S, NEW q \in Seq(S), Once(q), q # <<>>
  PROVE  /\ Tail(q) \in Seq(S) /\ Once(Tail(q)) /\ Head(q) \in S
         /\ Range(Tail(q)) = Range(q) \ {Head(q)}
PROOF
<1>1. /\ Len(q) \in Nat /\ Len(q) >= 1 /\ Head(q) = q[1] /\ q[1] \in S
      /\ Tail(q) \in Seq(S) /\ Len(Tail(q)) = Len(q) - 1
      /\ \A a \in 1..(Len(q) - 1) : Tail(q)[a] = q[a + 1]
  OBVIOUS
<1>2. Once(Tail(q))
  BY <1>1 DEF Once
<1>3. ASSUME NEW x  PROVE x \in Range(Tail(q)) <=> x \in Range(q) /\ x # Head(q)
  <2>1. ASSUME NEW a \in 1..Len(Tail(q)), Tail(q)[a] = x
        PROVE  (\E b \in 1..Len(q) : q[b] = x) /\ x # q[1]
    <3>1. a + 1 \in 1..Len(q) /\ q[a + 1] = x /\ a + 1 # 1 /\ 1 \in 1..Len(q)
      BY <1>1, <2>1
    <3> QED  BY <3>1 DEF Once
  <2>2. ASSUME NEW b \in 1..Len(q), q[b] = x, x # q[1]
        PROVE  \E a \in 1..Len(Tail(q)) : Tail(q)[a] = x
    <3>1. b - 1 \in 1..Len(Tail(q)) /\ (b - 1) + 1 = b
      BY <1>1, <2>2
    <3>2. Tail(q)[b - 1] = x
      BY <1>1, <2>2, <3>1
    <3> QED  BY <3>1, <3>2
  <2>3. /\ x \in Range(q) <=> \E a \in 1..Len(q) : q[a] = x
        /\ x \in Range(Tail(q)) <=> \E a \in 1..Len(Tail(q)) : Tail(q)[a] = x
    <3>1. Tail(q) \in Seq(S)
      BY <1>1
    <3> QED  BY <3>1, RangeIs
  <2>4. Head(q) = q[1]
    BY <1>1
  <2> QED  BY <2>1, <2>2, <2>3, <2>4
<1> QED  BY <1>1, <1>2, <1>3

LEMMA AppendRange ==
  ASSUME NEW S, NEW q \in Seq(S), Once(q), NEW x \in S, x \notin Range(q)
  PROVE  /\ Append(q, x) \in Seq(S) /\ Once(Append(q, x))
         /\ Range(Append(q, x)) = Range(q) \cup {x}
         /\ Append(q, x) # <<>>
         /\ q # <<>> => Head(Append(q, x)) = Head(q)
PROOF
<1> DEFINE p == Append(q, x)
<1>1. /\ Len(q) \in Nat /\ p \in Seq(S) /\ Len(p) = Len(q) + 1 /\ p[Len(q) + 1] = x
      /\ \A a \in 1..Len(q) : p[a] = q[a]
      /\ p # <<>> /\ (q # <<>> => Head(p) = Head(q))
  OBVIOUS
<1> HIDE DEF p
<1>2. \A a \in 1..Len(p) : a \in 1..Len(q) \/ a = Len(q) + 1
  BY <1>1
<1>3. \A a \in 1..Len(q) : a \in 1..Len(p) /\ q[a] # x
  BY <1>1, RangeIs
<1>4. Once(p)
  BY <1>1, <1>2, <1>3 DEF Once
<1>5. ASSUME NEW y  PROVE y \in Range(p) <=> y \in Range(q) \/ y = x
  <2>1. Len(q) + 1 \in 1..Len(p)
    BY <1>1
  <2> QED  BY <1>1, <1>2, <1>3, <2>1, RangeIs
<1> QED  BY <1>1, <1>4, <1>5 DEF p

(* The length of a queue in which nobody stands twice.                     *)
LEMMA OnceCounts ==
  ASSUME NEW S, NEW q \in Seq(S), Once(q)
  PROVE  Len(q) = Cardinality(Range(q))
PROOF
<1>1. Len(q) \in Nat
  OBVIOUS
<1>2. q \in Bijection(1..Len(q), Range(q))
  <2>1. q \in [1..Len(q) -> Range(q)]
    BY RangeIs
  <2>2. q \in Injection(1..Len(q), Range(q))
    BY <2>1 DEF Injection, IsInjective, Once
  <2>3. q \in Surjection(1..Len(q), Range(q))
    BY <2>1, RangeIs DEF Surjection
  <2> QED  BY <2>2, <2>3 DEF Bijection
<1> QED  BY <1>1, <1>2, FS_NatBijection, FS_CountingElements DEF ExistsBijection

-----------------------------------------------------------------------------
(* Steps of jobs.                                                          *)
LEMMA JobFacts ==
  ASSUME Types, NEW j \in Jobs
  PROVE  /\ job[j] \in JobType
         /\ job[j].kind \in Kinds /\ job[j].id \in Maybe(Ids) /\ job[j].plan \in Maybe(Plans)
         /\ job[j].steps \in Lists /\ job[j].at \in Ats /\ job[j].seen \in Maybe(Revisions)
PROOF
<1>1. job[j] \in JobType
  BY DEF Types
<1> QED  BY <1>1 DEF JobType

LEMMA IdleFacts ==
  /\ Idle \in JobType /\ Idle.kind = "idle" /\ Idle.id = None /\ Idle.plan = None
  /\ Idle.steps = <<>> /\ Idle.at = "start" /\ Idle.seen = None
BY DEF Idle, JobType, Kinds, Maybe, Lists, Ats

(* What a step of j leaves of the others.                                  *)
Moved(j) ==
    \A k \in Jobs \ {j} : job'[k] = job[k] /\ (HasTurn(k) => HasTurn(k)')

LEMMA LinesUpFacts ==
  ASSUME queue \in Seq(Jobs), InLine, NEW j \in Jobs, j \in Waiting => HasTurn(j),
         NEW steps \in Lists, LinesUp(j, steps),
         \A k \in Jobs \ {j} : job'[k] = job[k], job'[j].steps = steps
  PROVE  queue' \in Seq(Jobs) /\ InLine' /\ Moved(j)
PROOF
<1> DEFINE others == IF queue # <<>> /\ Head(queue) = j THEN Tail(queue) ELSE queue
<1>1. Once(queue) /\ Range(queue) = Waiting
  BY DEF InLine
<1>2. /\ others \in Seq(Jobs) /\ Once(others) /\ Range(others) = Waiting \ {j}
  <2>1. CASE HasTurn(j)
    BY <1>1, <2>1, TailRange DEF HasTurn
  <2>2. CASE ~HasTurn(j)
    BY <1>1, <2>2 DEF HasTurn
  <2> QED  BY <2>1, <2>2
<1>3. /\ queue' = IF steps \in Saving \cup Clearing THEN Append(others, j) ELSE others
  BY ListFacts DEF LinesUp
<1>4. \A k \in Jobs \ {j} : HasTurn(k) => others = queue
  BY DEF HasTurn
<1> HIDE DEF others
<1>5. Waiting' = IF steps \in Saving \cup Clearing THEN (Waiting \ {j}) \cup {j}
                 ELSE Waiting \ {j}
  BY DEF Waiting
<1>6. CASE steps \in Saving \cup Clearing
  <2>1. /\ queue' \in Seq(Jobs) /\ Once(queue') /\ Range(queue') = Waiting'
        /\ queue' # <<>> /\ (others # <<>> => Head(queue') = Head(others))
    BY <1>2, <1>3, <1>5, <1>6, AppendRange
  <2>2. InLine'
    BY <2>1 DEF InLine
  <2> QED  BY <1>4, <2>1, <2>2 DEF Moved, HasTurn
<1>7. CASE steps \notin Saving \cup Clearing
  <2>1. queue' = others /\ Waiting' = Waiting \ {j}
    BY <1>3, <1>5, <1>7
  <2>2. InLine'
    BY <1>2, <2>1 DEF InLine
  <2> QED  BY <1>2, <1>4, <2>1, <2>2 DEF Moved, HasTurn
<1> QED  BY <1>6, <1>7

LEMMA BecomesFacts ==
  ASSUME Types, InLine, NEW j \in Jobs, j \in Waiting => HasTurn(j),
         NEW kind \in Kinds, NEW steps \in Lists, Becomes(j, kind, steps)
  PROVE  /\ job' \in [Jobs -> JobType] /\ queue' \in Seq(Jobs) /\ InLine' /\ Moved(j)
         /\ job'[j].steps = steps
         /\ steps = <<>> => job'[j].id = None /\ job'[j].plan = None
         /\ steps # <<>> => /\ job'[j].id = job[j].id /\ job'[j].plan = job[j].plan
                            /\ job'[j].kind = kind /\ job'[j].at = "start"
PROOF
<1> DEFINE w == IF steps = <<>> THEN Idle
                ELSE [job[j] EXCEPT !.kind = kind, !.steps = steps, !.at = "start",
                                    !.seen = None]
<1>1. job \in [Jobs -> JobType] /\ queue \in Seq(Jobs) /\ job[j] \in JobType
  BY DEF Types
<1>2. job' = [job EXCEPT ![j] = w]
  BY <1>1 DEF Becomes
<1>3. /\ w \in JobType /\ w.steps = steps
      /\ steps = <<>> => w.id = None /\ w.plan = None
      /\ steps # <<>> => /\ w.id = job[j].id /\ w.plan = job[j].plan
                         /\ w.kind = kind /\ w.at = "start"
  <2>1. CASE steps = <<>>
    BY <2>1, IdleFacts
  <2>2. CASE steps # <<>>
    <3>1. "start" \in Ats /\ None \in Maybe(Revisions)
      BY DEF Ats, Maybe
    <3>2. w = [job[j] EXCEPT !.kind = kind, !.steps = steps, !.at = "start", !.seen = None]
      BY <2>2
    <3> HIDE DEF w
    <3> QED  BY <1>1, <2>2, <3>1, <3>2 DEF JobType
  <2> QED  BY <2>1, <2>2
<1> HIDE DEF w
<1>4. /\ job' \in [Jobs -> JobType] /\ job'[j] = w
      /\ \A k \in Jobs \ {j} : job'[k] = job[k]
  BY <1>1, <1>2, <1>3
<1>5. queue' \in Seq(Jobs) /\ InLine' /\ Moved(j)
  <2>1. LinesUp(j, steps)
    BY DEF Becomes
  <2> QED  BY <1>1, <1>3, <1>4, <2>1, LinesUpFacts
<1> QED  BY <1>3, <1>4, <1>5

LEMMA BeginsFacts ==
  ASSUME Types, InLine, NEW kind \in Kinds, NEW id \in Maybe(Ids), NEW plan \in Maybe(Plans),
         NEW steps \in Lists, Begins(kind, id, plan, steps)
  PROVE  /\ job' \in [Jobs -> JobType] /\ queue' \in Seq(Jobs) /\ InLine'
         /\ \E j \in Jobs :
               /\ job[j] = Idle /\ Moved(j)
               /\ job'[j].kind = kind /\ job'[j].id = id /\ job'[j].plan = plan
               /\ job'[j].steps = steps /\ job'[j].at = "start"
PROOF
<1>1. job \in [Jobs -> JobType] /\ queue \in Seq(Jobs)
  BY DEF Types
<1>2. PICK j \in Jobs :
         /\ job[j] = Idle /\ LinesUp(j, steps)
         /\ job' = [job EXCEPT ![j] = [Idle EXCEPT !.kind = kind, !.id = id, !.plan = plan,
                                                   !.steps = steps]]
  <2> DEFINE j == CHOOSE f \in Jobs : job[f] = Idle
  <2>1. j \in Jobs /\ job[j] = Idle
    BY DEF Begins
  <2> QED  BY <2>1 DEF Begins
<1> DEFINE w == [Idle EXCEPT !.kind = kind, !.id = id, !.plan = plan, !.steps = steps]
<1>3. /\ w \in JobType /\ w.kind = kind /\ w.id = id /\ w.plan = plan /\ w.steps = steps
      /\ w.at = "start"
  BY IdleFacts DEF JobType
<1>4. job' = [job EXCEPT ![j] = w]
  BY <1>2
<1> HIDE DEF w
<1>5. /\ job' \in [Jobs -> JobType] /\ job'[j] = w
      /\ \A k \in Jobs \ {j} : job'[k] = job[k]
  BY <1>1, <1>3, <1>4
<1>6. j \notin Waiting
  <2>1. <<>> \notin Saving \cup Clearing
    BY DEF Saving, Clearing
  <2> QED  BY <1>2, <2>1, IdleFacts DEF Waiting
<1>7. queue' \in Seq(Jobs) /\ InLine' /\ Moved(j)
  BY <1>1, <1>2, <1>3, <1>5, <1>6, LinesUpFacts
<1> QED  BY <1>2, <1>3, <1>5, <1>7

(* A job goes on within its step: its other fields may change.             *)
LEMMA WithinFacts ==
  ASSUME Types, InLine, NEW j \in Jobs, NEW w \in JobType, job' = [job EXCEPT ![j] = w],
         w.steps = job[j].steps, queue' = queue
  PROVE  /\ job' \in [Jobs -> JobType] /\ queue' \in Seq(Jobs) /\ InLine' /\ Moved(j)
         /\ job'[j] = w
PROOF
<1>1. job \in [Jobs -> JobType] /\ queue \in Seq(Jobs)
  BY DEF Types
<1>2. /\ job' \in [Jobs -> JobType] /\ job'[j] = w
      /\ \A k \in Jobs \ {j} : job'[k] = job[k]
  BY <1>1
<1>3. Waiting' = Waiting
  BY <1>2 DEF Waiting
<1> QED  BY <1>1, <1>2, <1>3 DEF InLine, Moved, HasTurn

LEMMA TurnsFacts ==
  ASSUME Types, InLine, NEW j \in Jobs, Turns(j, "checked")
  PROVE  /\ job' \in [Jobs -> JobType] /\ queue' \in Seq(Jobs) /\ InLine' /\ Moved(j)
         /\ queue' = queue
         /\ job'[j].id = job[j].id /\ job'[j].plan = job[j].plan /\ job'[j].kind = job[j].kind
         /\ job'[j].steps = job[j].steps /\ job'[j].at = "checked"
PROOF
<1> DEFINE w == [job[j] EXCEPT !.at = "checked"]
<1>1. job \in [Jobs -> JobType] /\ job[j] \in JobType /\ "checked" \in Ats
  BY DEF Types, Ats
<1>2. /\ w \in JobType /\ w.id = job[j].id /\ w.plan = job[j].plan /\ w.kind = job[j].kind
      /\ w.steps = job[j].steps /\ w.at = "checked"
  BY <1>1 DEF JobType
<1>3. job' = [job EXCEPT ![j] = w] /\ queue' = queue
  BY <1>1 DEF Turns
<1> HIDE DEF w
<1> QED  BY <1>2, <1>3, WithinFacts

(* What every step keeps for the jobs that do not take it.                 *)
Grown ==
    /\ \A i \in Ids : body[i] # None => body'[i] # None
    /\ \A i \in Ids : Settled(i) => fate'[i] \notin {"unsent", "sent"}

LEMMA OthersSound ==
  ASSUME WritesInv, Grown, NEW j \in Jobs, Moved(j), store' = store \/ HasTurn(j)
  PROVE  \A k \in Jobs \ {j} : Sound(k)'
PROOF
<1>1. ASSUME NEW k \in Jobs \ {j}  PROVE Sound(k)'
  <2>1. Sound(k) /\ Types
    BY DEF WritesInv
  <2>2. job'[k] = job[k] /\ (HasTurn(k) => HasTurn(k)')
    BY DEF Moved
  <2>3. job[k].id \in Ids \cup {None}
    BY <2>1, JobFacts DEF Maybe
  <2> DEFINE i == job[k].id
  <2>a. i # None => body[i] # None
    BY <2>1 DEF Sound
  <2>b. i # None => (i \in Ids /\ body'[i] # None
                      /\ (Settled(i) => fate'[i] \notin {"unsent", "sent"}))
    <3> HIDE DEF i
    <3>1. CASE i = None
      BY <3>1
    <3>2. CASE i # None
      <4>1. i \in Ids
        BY <2>3, <3>2 DEF i
      <4> QED  BY <2>a, <3>2, <4>1 DEF Grown
    <3> QED  BY <3>1, <3>2
  <2>4. /\ job[k].id # None => body'[job[k].id] # None
        /\ (job[k].id # None /\ Settled(job[k].id)) => fate'[job[k].id] \notin {"unsent", "sent"}
    BY <2>b
  <2>5. HasTurn(k) => store' = store
    BY DEF HasTurn
  <2> QED  BY <2>1, <2>2, <2>4, <2>5 DEF Sound, Settled
<1> QED  BY <1>1

LEMMA StepKeeps ==
  ASSUME WritesInv, NEW j \in Jobs, Types', Known', InLine', UnknownIsKept', Sound(j)',
         Moved(j), Grown, store' = store \/ HasTurn(j)
  PROVE  WritesInv'
BY OthersSound DEF WritesInv

-----------------------------------------------------------------------------
(* What a job is doing.                                                    *)
LEMMA DoingFacts ==
  ASSUME Types, InLine, NEW j \in Jobs, NEW at
  PROVE  /\ Doing(j, "save", at) => job[j].steps \in Saving /\ job[j].at = at
         /\ Doing(j, "clear", at) => job[j].steps \in Clearing /\ job[j].at = at
         /\ Doing(j, "get", at) => job[j].steps \in Getting /\ job[j].at = at /\ j \notin Waiting
         /\ Doing(j, "post", at) => job[j].steps \in Posting /\ j \notin Waiting
         /\ (Doing(j, "read", at) \/ Doing(j, "look", at)) =>
                job[j].steps \in Asking /\ j \notin Waiting
PROOF
<1>1. job[j].steps \in Lists
  BY JobFacts
<1> QED  BY <1>1, ListFacts DEF Doing, Waiting

LEMMA TurnMeans ==
  ASSUME Types, InLine, NEW j \in Jobs, job[j].steps \in Saving \cup Clearing, Turn(j)
  PROVE  HasTurn(j)
PROOF
<1>1. j \in Range(queue) /\ queue \in Seq(Jobs)
  BY DEF InLine, Waiting, Types
<1>2. \E a \in 1..Len(queue) : queue[a] = j
  BY <1>1, RangeIs
<1>3. queue # <<>>
  BY <1>2, <1>1
<1> QED  BY <1>3 DEF HasTurn, Turn

LEMMA ListsAre ==
  /\ <<>> \in Lists /\ <<"look">> \in Lists /\ <<"read">> \in Lists /\ <<"post">> \in Lists
  /\ <<"get">> \in Lists /\ <<"clear">> \in Lists /\ <<"save">> \in Lists
  /\ <<"get", "clear">> \in Lists /\ <<"clear", "get">> \in Lists
  /\ <<"save", "post">> \in Lists
BY DEF Lists, Saving, Clearing, Getting, Posting, Asking

LEMMA SoundFor ==
  ASSUME NEW j \in Jobs, job'[j].at # "checked",
         job'[j].id # None => body'[job'[j].id] # None
  PROVE  /\ job'[j].steps \in {<<>>, <<"look">>, <<"read">>} => Sound(j)'
         /\ (job'[j].steps = <<"get">> /\ job'[j].plan # None) => Sound(j)'
         /\ (/\ job'[j].steps \in {<<"post">>, <<"save", "post">>}
             /\ job'[j].id # None /\ job'[j].plan # None) => Sound(j)'
         /\ (/\ job'[j].steps = <<"clear">> /\ job'[j].id # None
             /\ fate'[job'[j].id] \notin {"unsent", "sent"}) => Sound(j)'
         /\ (/\ job'[j].steps = <<"clear", "get">>
             /\ job'[j].id # None /\ job'[j].plan # None
             /\ fate'[job'[j].id] \notin {"unsent", "sent"}) => Sound(j)'
         /\ (/\ job'[j].steps = <<"get", "clear">>
             /\ job'[j].id # None /\ job'[j].plan # None
             /\ \/ job'[j].kind = "reload"
                \/ fate'[job'[j].id] \notin {"unsent", "sent"}) => Sound(j)'
PROOF
<1> DEFINE l == job'[j].steps
<1>1. /\ l \in {<<>>, <<"look">>, <<"read">>} =>
             /\ l \notin Saving \cup Clearing \cup Posting \cup Getting
      /\ l = <<"get">> => l \notin Saving \cup Clearing \cup Posting \cup {<<"get", "clear">>}
      /\ l = <<"post">> => l \notin Clearing \cup Getting
      /\ l = <<"save", "post">> => l \notin Clearing \cup Getting
      /\ l = <<"clear">> => l \notin Saving \cup Posting \cup Getting \cup {<<"clear", "get">>}
      /\ l = <<"clear", "get">> => l \notin Saving \cup Posting \cup Getting
      /\ l = <<"get", "clear">> => l \notin Saving \cup Clearing \cup Posting
      /\ <<"get", "clear">> \in Getting /\ <<"clear", "get">> \in Clearing
      /\ <<"save", "post">> \in Saving
  BY DEF Saving, Clearing, Posting, Getting
<1> QED  BY <1>1 DEF Sound, Settled

(* A job that has ended owes nothing.                                      *)
LEMMA EndsSound ==
  ASSUME NEW j \in Jobs, job'[j].steps = <<>>, job'[j].id = None
  PROVE  Sound(j)'
PROOF
<1>1. <<>> \notin Saving \cup Clearing \cup Posting \cup Getting
  BY DEF Saving, Clearing, Posting, Getting
<1> QED  BY <1>1 DEF Sound, Getting, Saving, Clearing

-----------------------------------------------------------------------------
(* Fates, screens and the cache.                                           *)
LEMMA FatedFacts ==
  ASSUME fate \in [Ids -> Fates], NEW i \in Ids, NEW what \in Fates \ {"unsent"}
  PROVE  /\ Fated(i, what) \in [Ids -> Fates]
         /\ \A k \in Ids \ {i} : Fated(i, what)[k] = fate[k]
         /\ Fated(i, what)[i] \in {fate[i], what}
         /\ what \notin {"unsent", "sent"} => Fated(i, what)[i] \notin {"unsent", "sent"}
         /\ \A k \in Ids : Settled(k) => Fated(i, what)[k] \notin {"unsent", "sent"}
PROOF
<1> DEFINE v == IF fate[i] \in {"discarded", "reloaded"} \/ (what = "sent" /\ fate[i] # "unsent")
                THEN fate[i] ELSE what
<1>1. Fated(i, what) = [fate EXCEPT ![i] = v]
  BY DEF Fated
<1>2. fate[i] \in Fates
  OBVIOUS
<1>3. v \in Fates /\ v \in {fate[i], what}
  BY <1>2
<1>4. what \notin {"unsent", "sent"} => v \notin {"unsent", "sent"}
  OBVIOUS
<1>5. Settled(i) => v \notin {"unsent", "sent"}
  <2>1. CASE v = fate[i]
    BY <2>1 DEF Settled
  <2>2. CASE v # fate[i]
    <3>1. v = what /\ ~(what = "sent" /\ fate[i] # "unsent")
      BY <2>2
    <3>2. CASE fate[i] \in {"unsent", "sent"}
      BY <3>2 DEF Settled
    <3>3. CASE what = "unsent"
      BY <3>1, <3>3
    <3> QED  BY <3>1, <3>2, <3>3
  <2> QED  BY <2>1, <2>2
<1> HIDE DEF v
<1>6. /\ Fated(i, what) \in [Ids -> Fates] /\ Fated(i, what)[i] = v
      /\ \A k \in Ids \ {i} : Fated(i, what)[k] = fate[k]
  BY <1>1, <1>3
<1>7. \A k \in Ids : Settled(k) => Fated(i, what)[k] \notin {"unsent", "sent"}
  BY <1>5, <1>6 DEF Settled
<1> QED  BY <1>3, <1>4, <1>6, <1>7

LEMMA ScreenFacts ==
  ASSUME Types
  PROVE  /\ screen \in ScreenType /\ screen.up \in BOOLEAN /\ screen.plan \in Maybe(Plans)
         /\ screen.pending \in Maybe(Ids) /\ screen.failed \in BOOLEAN
         /\ screen.unloaded \in BOOLEAN
BY DEF Types, ScreenType

LEMMA AbsentFacts ==
  Absent \in ScreenType /\ Absent.pending = None /\ Absent.plan = None
BY DEF Absent, ScreenType, Maybe

LEMMA SeedFacts ==
  ASSUME cached \in [Plans -> Maybe(Revisions)], NEW p \in Plans, NEW r \in Maybe(Revisions),
         Seed(p, r)
  PROVE  cached' \in [Plans -> Maybe(Revisions)]
BY DEF Seed, KeepLatest

LEMMA ChosenFacts ==
  ASSUME Types, NEW j \in Jobs
  PROVE  Chosen(j) \in Maybe(Plans)
PROOF
<1>1. job[j].id \in Maybe(Ids) /\ screen.plan \in Maybe(Plans)
  BY JobFacts, ScreenFacts
<1>2. Ids \subseteq Plans
  BY ClientWritesAssumption DEF Ids, Plans
<1> QED  BY <1>1, <1>2 DEF Chosen, Maybe

LEMMA BodyFacts ==
  ASSUME Types, Known, NEW i \in Ids, body[i] # None
  PROVE  /\ body[i] \in Body /\ body[i].plan \in Plans /\ body[i].plan # None
         /\ body[i].expected \in Maybe(Revisions)
PROOF
<1>1. body[i] \in Body
  BY DEF Types, Maybe
<1>2. body[i].plan \in Plans /\ body[i].expected \in Maybe(Revisions)
  BY <1>1 DEF Body
<1>3. None \notin Plans
  BY ClientWritesAssumption DEF Plans
<1> QED  BY <1>1, <1>2, <1>3

(* A step that changes neither what is stored nor what became of a write.  *)
LEMMA KeptUntouched ==
  ASSUME UnknownIsKept, UNCHANGED <<store, fate>>
  PROVE  UnknownIsKept'
BY DEF UnknownIsKept

(* Nor the writes that are known.                                          *)
LEMMA KnownUntouched ==
  ASSUME Known, UNCHANGED <<body, network, store>>, NEW i, screen'.pending \in {screen.pending, i, None},
         i # None => body[i] # None
  PROVE  Known'
BY DEF Known

LEMMA GrownUntouched ==
  ASSUME UNCHANGED <<body, fate>>
  PROVE  Grown
BY DEF Grown, Settled

-----------------------------------------------------------------------------
(* The saves and the clears.                                               *)

(* A save that is refused, or fails: the screen looks again, if it is up.  *)
LEMMA SaveFailsFacts ==
  ASSUME WritesInv, NEW j \in Jobs, HasTurn(j), SaveFails(j), UNCHANGED <<body, fate>>
  PROVE  /\ job' \in [Jobs -> JobType] /\ queue' \in Seq(Jobs) /\ InLine' /\ Moved(j)
         /\ Sound(j)' /\ Grown
PROOF
<1>1. Types /\ InLine /\ Sound(j) /\ job[j].kind \in Kinds
  BY JobFacts DEF WritesInv
<1>2. PICK l \in {<<>>, <<"look">>} : Becomes(j, job[j].kind, l)
  BY DEF SaveFails, Goes
<1>3. l \in Lists
  BY <1>2, ListsAre
<1>4. /\ job' \in [Jobs -> JobType] /\ queue' \in Seq(Jobs) /\ InLine' /\ Moved(j)
      /\ job'[j].steps = l
      /\ l = <<>> => job'[j].id = None
      /\ l # <<>> => job'[j].id = job[j].id /\ job'[j].at = "start"
  BY <1>1, <1>2, <1>3, BecomesFacts
<1>5. Sound(j)'
  <2>1. CASE l = <<>>
    BY <1>4, <2>1, EndsSound
  <2>2. CASE l # <<>>
    <3>1. job'[j].id # None => body'[job'[j].id] # None
      BY <1>1, <1>4, <2>2 DEF Sound
    <3>2. job'[j].at # "checked"
      BY <1>4, <2>2
    <3>3. job'[j].steps = <<"look">>
      BY <1>2, <1>4, <2>2
    <3> QED  BY <3>1, <3>2, <3>3, SoundFor
  <2> QED  BY <2>1, <2>2
<1> QED  BY <1>4, <1>5, GrownUntouched

LEMMA SaveChecksKeeps ==
  ASSUME WritesInv, NEW j \in Jobs, SaveChecks(j)
  PROVE  WritesInv'
PROOF
<1>1. Types /\ Known /\ InLine /\ Sound(j) /\ UnknownIsKept
  BY DEF WritesInv
<1>2. job[j].steps \in Saving
  BY <1>1, DoingFacts DEF SaveChecks
<1>3. HasTurn(j)
  BY <1>1, <1>2, TurnMeans DEF SaveChecks
<1>4. UNCHANGED <<body, server, network, store, screen, cached, fate>>
  BY DEF SaveChecks
<1>5. Known' /\ UnknownIsKept' /\ Grown
  <2>1. screen'.pending \in {screen.pending, None}
    BY <1>4
  <2> QED  BY <1>1, <1>4, <2>1, KnownUntouched, KeptUntouched, GrownUntouched
<1>6. /\ job' \in [Jobs -> JobType] /\ queue' \in Seq(Jobs) /\ InLine' /\ Moved(j)
      /\ Sound(j)'
  <2>1. CASE Free(j)
    <3>1. Turns(j, "checked")
      BY <2>1 DEF SaveChecks
    <3>2. /\ job' \in [Jobs -> JobType] /\ queue' \in Seq(Jobs) /\ InLine' /\ Moved(j)
          /\ queue' = queue
          /\ job'[j].id = job[j].id /\ job'[j].plan = job[j].plan /\ job'[j].kind = job[j].kind
          /\ job'[j].steps = job[j].steps /\ job'[j].at = "checked"
      BY <1>1, <3>1, TurnsFacts
    <3>3. HasTurn(j)'
      BY <1>3, <3>2 DEF HasTurn
    <3>4. store' \in {None, job'[j].id}
      BY <1>4, <2>1, <3>2 DEF Free
    <3>5. job'[j].steps \notin Clearing
      BY <1>2, <3>2 DEF Saving, Clearing
    <3>6. Sound(j)'
      BY <1>1, <1>4, <3>2, <3>3, <3>4, <3>5 DEF Sound, Settled
    <3> QED  BY <3>2, <3>6
  <2>2. CASE ~Free(j)
    BY <1>3, <1>4, <2>2, SaveFailsFacts DEF SaveChecks
  <2> QED  BY <2>1, <2>2
<1>7. Types'
  BY <1>1, <1>4, <1>6 DEF Types, server
<1> QED  BY <1>4, <1>5, <1>6, <1>7, StepKeeps

LEMMA SaveWritesKeeps ==
  ASSUME WritesInv, NEW j \in Jobs, SaveWrites(j)
  PROVE  WritesInv'
PROOF
<1> DEFINE i == job[j].id
<1>1. Types /\ Known /\ InLine /\ Sound(j) /\ UnknownIsKept /\ job[j].kind \in Kinds
  BY JobFacts DEF WritesInv
<1>2. job[j].steps \in Saving /\ job[j].at = "checked" /\ job[j].steps \in Lists
  BY <1>1, DoingFacts, JobFacts DEF SaveWrites
<1>3. HasTurn(j)
  BY <1>1, <1>2, TurnMeans DEF SaveWrites
<1>4. i # None /\ body[i] # None /\ store \in {None, i} /\ i \in Ids
  <2>1. i # None /\ body[i] # None /\ store \in {None, i}
    BY <1>1, <1>2 DEF Sound
  <2>2. i \in Maybe(Ids)
    BY <1>1, JobFacts
  <2> QED  BY <2>1, <2>2 DEF Maybe
<1>5. /\ UNCHANGED <<body, server, screen, cached>> /\ store' = i
      /\ \/ UNCHANGED <<network, fate>>
         \/ network' = network \cup {i} /\ fate' = Fated(i, "sent")
  BY DEF SaveWrites
<1>6. PICK l \in {<<>>, <<"post">>} :
         /\ Becomes(j, job[j].kind, l)
         /\ l = <<"post">> => job[j].steps = <<"save", "post">>
  <2>1. Becomes(j, job[j].kind, Tail(job[j].steps))
    BY DEF SaveWrites, Goes
  <2>2. Tail(job[j].steps) = IF job[j].steps = <<"save", "post">> THEN <<"post">> ELSE <<>>
    BY <1>2, ListFacts
  <2>3. CASE job[j].steps = <<"save", "post">>
    BY <2>1, <2>2, <2>3
  <2>4. CASE job[j].steps # <<"save", "post">>
    <3>1. Tail(job[j].steps) = <<>>
      BY <2>2, <2>4
    <3>2. Tail(job[j].steps) # <<"post">>
      BY <3>1
    <3> QED  BY <2>1, <3>1, <3>2
  <2> QED  BY <2>3, <2>4
<1>7. l \in Lists
  BY <1>6, ListsAre
<1>8. /\ job' \in [Jobs -> JobType] /\ queue' \in Seq(Jobs) /\ InLine' /\ Moved(j)
      /\ job'[j].steps = l
      /\ l = <<>> => job'[j].id = None
      /\ l # <<>> => /\ job'[j].id = i /\ job'[j].plan = job[j].plan
                     /\ job'[j].at = "start"
  <2>1. Becomes(j, job[j].kind, l)
    BY <1>6
  <2>2. j \in Waiting => HasTurn(j)
    BY <1>3
  <2> QED  BY <1>1, <1>7, <2>1, <2>2, BecomesFacts
<1>9. Sound(j)'
  <2>1. CASE l = <<>>
    BY <1>8, <2>1, EndsSound
  <2>2. CASE l # <<>>
    <3>1. job[j].plan # None
      BY <1>1, <1>6, <2>2 DEF Sound
    <3>2. job'[j].steps = <<"post">> /\ job'[j].id # None /\ job'[j].plan # None
      BY <1>4, <1>6, <1>8, <2>2, <3>1
    <3>3. job'[j].at # "checked" /\ body'[job'[j].id] # None
      BY <1>4, <1>5, <1>8, <2>2
    <3> QED  BY <3>2, <3>3, SoundFor
  <2> QED  BY <2>1, <2>2
<1>10. /\ fate' \in [Ids -> Fates] /\ network' \in SUBSET Ids
       /\ \A k \in Ids \ {i} : fate'[k] = fate[k]
       /\ \A k \in Ids : Settled(k) => fate'[k] \notin {"unsent", "sent"}
  <2>1. fate \in [Ids -> Fates] /\ network \in SUBSET Ids
    BY <1>1 DEF Types
  <2>2. CASE UNCHANGED <<network, fate>>
    BY <2>1, <2>2 DEF Settled
  <2>3. CASE network' = network \cup {i} /\ fate' = Fated(i, "sent")
    <3>1. "sent" \in Fates \ {"unsent"}
      BY DEF Fates
    <3> QED  BY <1>4, <2>1, <2>3, <3>1, FatedFacts
  <2> QED  BY <1>5, <2>2, <2>3
<1>11. Types'
  <2>1. store' \in Maybe(Ids)
    BY <1>4, <1>5 DEF Maybe
  <2> QED  BY <1>1, <1>5, <1>8, <1>10, <2>1 DEF Types, server
<1>12. Known'
  BY <1>1, <1>4, <1>5 DEF Known
<1>13. UnknownIsKept'
  <2>1. ASSUME NEW k \in Ids, fate'[k] = "sent", k # i  PROVE FALSE
    <3>1. store = k
      BY <1>1, <1>10, <2>1 DEF UnknownIsKept
    <3>2. k # None
      BY ClientWritesAssumption DEF Ids
    <3> QED  BY <1>4, <2>1, <3>1, <3>2
  <2> QED  BY <1>5, <2>1 DEF UnknownIsKept
<1>14. Grown
  BY <1>5, <1>10 DEF Grown
<1> QED  BY <1>3, <1>8, <1>9, <1>11, <1>12, <1>13, <1>14, StepKeeps

LEMMA SaveRejectedKeeps ==
  ASSUME WritesInv, NEW j \in Jobs, SaveRejected(j)
  PROVE  WritesInv'
PROOF
<1> DEFINE i == job[j].id
<1>1. Types /\ Known /\ InLine /\ Sound(j) /\ UnknownIsKept
  BY DEF WritesInv
<1>2. job[j].steps \in Saving /\ job[j].at = "checked"
  BY <1>1, DoingFacts DEF SaveRejected
<1>3. HasTurn(j)
  BY <1>1, <1>2, TurnMeans DEF SaveRejected
<1>4. i # None /\ body[i] # None /\ store \in {None, i} /\ i \in Ids
  <2>1. i # None /\ body[i] # None /\ store \in {None, i}
    BY <1>1, <1>2 DEF Sound
  <2>2. i \in Maybe(Ids)
    BY <1>1, JobFacts
  <2> QED  BY <2>1, <2>2 DEF Maybe
<1>5. /\ UNCHANGED <<body, server, network, screen, cached, fate>> /\ store' \in {store, i}
  BY DEF SaveRejected
<1>6. /\ job' \in [Jobs -> JobType] /\ queue' \in Seq(Jobs) /\ InLine' /\ Moved(j)
      /\ Sound(j)' /\ Grown
  BY <1>3, <1>5, SaveFailsFacts DEF SaveRejected
<1>7. Types'
  <2>1. store' \in Maybe(Ids)
    BY <1>1, <1>4, <1>5 DEF Maybe, Types
  <2> QED  BY <1>1, <1>5, <1>6, <2>1 DEF Types, server
<1>8. Known'
  BY <1>1, <1>4, <1>5 DEF Known
<1>9. UnknownIsKept'
  <2>1. ASSUME NEW k \in Ids, fate'[k] = "sent"  PROVE store' = k
    <3>1. store = k
      BY <1>1, <1>5, <2>1 DEF UnknownIsKept
    <3>2. k # None
      BY ClientWritesAssumption DEF Ids
    <3> QED  BY <1>4, <1>5, <3>1, <3>2
  <2> QED  BY <2>1 DEF UnknownIsKept
<1> QED  BY <1>3, <1>6, <1>7, <1>8, <1>9, StepKeeps

LEMMA EndsFacts ==
  ASSUME WritesInv, NEW j \in Jobs, j \in Waiting => HasTurn(j), Ends(j)
  PROVE  /\ job' \in [Jobs -> JobType] /\ queue' \in Seq(Jobs) /\ InLine' /\ Moved(j)
         /\ Sound(j)'
PROOF
<1>1. Types /\ InLine /\ job[j].kind \in Kinds
  BY JobFacts DEF WritesInv
<1>2. Becomes(j, job[j].kind, <<>>) /\ <<>> \in Lists
  BY ListsAre DEF Ends, Goes
<1>3. /\ job' \in [Jobs -> JobType] /\ queue' \in Seq(Jobs) /\ InLine' /\ Moved(j)
      /\ job'[j].steps = <<>> /\ job'[j].id = None
  BY <1>1, <1>2, BecomesFacts
<1> QED  BY <1>3, EndsSound

(* A step that leaves the storage and what became of the writes as it was. *)
LEMMA QuietStep ==
  ASSUME WritesInv, NEW j \in Jobs, UNCHANGED <<body, server, network, store, fate>>,
         job' \in [Jobs -> JobType], queue' \in Seq(Jobs), InLine', Moved(j), Sound(j)',
         screen' \in ScreenType, cached' \in [Plans -> Maybe(Revisions)],
         NEW i, screen'.pending \in {screen.pending, i, None}, i # None => body[i] # None
  PROVE  WritesInv'
PROOF
<1>1. Types /\ Known /\ UnknownIsKept
  BY DEF WritesInv
<1>2. Types'
  BY <1>1 DEF Types, server
<1>3. Known'
  BY <1>1 DEF Known
<1>4. UnknownIsKept' /\ Grown
  BY <1>1, KeptUntouched, GrownUntouched
<1> QED  BY <1>2, <1>3, <1>4, StepKeeps

LEMMA LooksKeeps ==
  ASSUME WritesInv, NEW j \in Jobs, Looks(j)
  PROVE  WritesInv'
PROOF
<1>1. Types /\ Known /\ InLine
  BY DEF WritesInv
<1>2. j \notin Waiting
  BY <1>1, DoingFacts DEF Looks
<1>3. PICK found \in {store, None} : screen' = [screen EXCEPT !.pending = found]
  BY DEF Looks
<1>4. /\ UNCHANGED <<body, server, network, store, cached, fate>> /\ Ends(j)
  BY DEF Looks
<1>5. /\ job' \in [Jobs -> JobType] /\ queue' \in Seq(Jobs) /\ InLine' /\ Moved(j)
      /\ Sound(j)'
  BY <1>2, <1>4, EndsFacts
<1>6. /\ screen' \in ScreenType /\ screen'.pending = found
  <2>1. screen \in ScreenType /\ found \in Maybe(Ids)
    BY <1>1, <1>3 DEF Types, Maybe
  <2> QED  BY <1>3, <2>1 DEF ScreenType
<1>7. found # None => body[found] # None
  BY <1>1, <1>3 DEF Known
<1>8. cached' \in [Plans -> Maybe(Revisions)]
  BY <1>1, <1>4 DEF Types
<1>9. screen'.pending \in {screen.pending, found, None}
  BY <1>6
<1> QED  BY <1>4, <1>5, <1>6, <1>7, <1>8, <1>9, QuietStep

(* A clear that is done: its screen gives the record up.                   *)
LEMMA ClearedFacts ==
  ASSUME WritesInv, NEW j \in Jobs, job[j].steps \in Clearing, HasTurn(j), Cleared(j),
         UNCHANGED <<body, fate>>
  PROVE  /\ job' \in [Jobs -> JobType] /\ queue' \in Seq(Jobs) /\ InLine' /\ Moved(j)
         /\ Sound(j)' /\ screen' \in ScreenType /\ screen'.pending \in {screen.pending, None}
PROOF
<1>1. Types /\ InLine /\ Sound(j) /\ job[j].kind \in Kinds /\ job[j].steps \in Lists
  BY JobFacts DEF WritesInv
<1>2. PICK l \in {<<>>, <<"get">>} :
         /\ Becomes(j, job[j].kind, l)
         /\ l = <<"get">> => job[j].steps = <<"clear", "get">>
  <2>1. Becomes(j, job[j].kind, Tail(job[j].steps))
    BY DEF Cleared, Goes
  <2>2. Tail(job[j].steps) = IF job[j].steps = <<"clear", "get">> THEN <<"get">> ELSE <<>>
    BY <1>1, ListFacts
  <2>3. CASE job[j].steps = <<"clear", "get">>
    BY <2>1, <2>2, <2>3
  <2>4. CASE job[j].steps # <<"clear", "get">>
    <3>1. Tail(job[j].steps) = <<>>
      BY <2>2, <2>4
    <3>2. Tail(job[j].steps) # <<"get">>
      BY <3>1
    <3> QED  BY <2>1, <3>1, <3>2
  <2> QED  BY <2>3, <2>4
<1>3. l \in Lists
  BY <1>2, ListsAre
<1>4. /\ job' \in [Jobs -> JobType] /\ queue' \in Seq(Jobs) /\ InLine' /\ Moved(j)
      /\ job'[j].steps = l
      /\ l = <<>> => job'[j].id = None
      /\ l # <<>> => /\ job'[j].id = job[j].id /\ job'[j].plan = job[j].plan
                     /\ job'[j].at = "start"
  <2>1. Becomes(j, job[j].kind, l)
    BY <1>2
  <2>2. j \in Waiting => HasTurn(j)
    OBVIOUS
  <2> QED  BY <1>1, <1>3, <2>1, <2>2, BecomesFacts
<1>5. Sound(j)'
  <2>1. CASE l = <<>>
    BY <1>4, <2>1, EndsSound
  <2>2. CASE l # <<>>
    <3>1. job[j].plan # None /\ (job[j].id # None => body[job[j].id] # None)
      BY <1>1, <1>2, <2>2 DEF Sound
    <3>2. job'[j].steps = <<"get">> /\ job'[j].plan # None
      BY <1>2, <1>4, <2>2, <3>1
    <3>3. job'[j].at # "checked" /\ (job'[j].id # None => body'[job'[j].id] # None)
      BY <1>4, <2>2, <3>1
    <3> QED  BY <3>2, <3>3, SoundFor
  <2> QED  BY <2>1, <2>2
<1>6. screen' \in ScreenType /\ screen'.pending \in {screen.pending, None}
  <2>1. CASE screen' = screen
    BY <1>1, <2>1 DEF Types
  <2>2. CASE screen' # screen
    <3> DEFINE c == Chosen(j)
               f == screen.failed /\ job[j].kind # "reload"
    <3>1. screen' = [screen EXCEPT !.pending = None, !.plan = c, !.failed = f]
      BY <2>2 DEF Cleared, Sets
    <3>2. c \in Maybe(Plans)
      BY <1>1, ChosenFacts
    <3>3. f \in BOOLEAN
      OBVIOUS
    <3>4. screen \in ScreenType /\ None \in Maybe(Ids)
      BY <1>1 DEF Types, Maybe
    <3> HIDE DEF c, f
    <3> QED  BY <3>1, <3>2, <3>3, <3>4 DEF ScreenType
  <2> QED  BY <2>1, <2>2
<1> QED  BY <1>4, <1>5, <1>6

LEMMA ClearChecksKeeps ==
  ASSUME WritesInv, NEW j \in Jobs, ClearChecks(j)
  PROVE  WritesInv'
PROOF
<1>1. Types /\ Known /\ InLine /\ Sound(j)
  BY DEF WritesInv
<1>2. job[j].steps \in Clearing
  BY <1>1, DoingFacts DEF ClearChecks
<1>3. HasTurn(j)
  BY <1>1, <1>2, TurnMeans DEF ClearChecks
<1>4. UNCHANGED <<body, server, network, store, cached, fate>>
  BY DEF ClearChecks
<1>5. cached' \in [Plans -> Maybe(Revisions)]
  BY <1>1, <1>4 DEF Types
<1>6. CASE store = job[j].id
  <2>1. Turns(j, "checked") /\ UNCHANGED screen
    BY <1>6 DEF ClearChecks
  <2>2. /\ job' \in [Jobs -> JobType] /\ queue' \in Seq(Jobs) /\ InLine' /\ Moved(j)
        /\ queue' = queue
        /\ job'[j].id = job[j].id /\ job'[j].plan = job[j].plan /\ job'[j].kind = job[j].kind
        /\ job'[j].steps = job[j].steps /\ job'[j].at = "checked"
    BY <1>1, <2>1, TurnsFacts
  <2>3. HasTurn(j)'
    BY <1>3, <2>2 DEF HasTurn
  <2>4. job'[j].steps \notin Saving
    BY <1>2, <2>2 DEF Saving, Clearing
  <2>5. Sound(j)'
    BY <1>1, <1>4, <1>6, <2>2, <2>3, <2>4 DEF Sound, Settled
  <2>6. screen' \in ScreenType /\ screen'.pending \in {screen.pending, None}
    BY <1>1, <2>1 DEF Types
  <2> QED  BY <1>4, <1>5, <2>2, <2>5, <2>6, QuietStep
<1>7. CASE store # job[j].id
  <2>1. Cleared(j)
    BY <1>7 DEF ClearChecks
  <2>2. /\ job' \in [Jobs -> JobType] /\ queue' \in Seq(Jobs) /\ InLine' /\ Moved(j)
        /\ Sound(j)' /\ screen' \in ScreenType /\ screen'.pending \in {screen.pending, None}
    BY <1>2, <1>3, <1>4, <2>1, ClearedFacts
  <2> QED  BY <1>4, <1>5, <2>2, QuietStep
<1> QED  BY <1>6, <1>7

LEMMA ClearRemovesKeeps ==
  ASSUME WritesInv, NEW j \in Jobs, ClearRemoves(j)
  PROVE  WritesInv'
PROOF
<1> DEFINE i == job[j].id
<1>1. Types /\ Known /\ InLine /\ Sound(j) /\ UnknownIsKept
  BY DEF WritesInv
<1>2. job[j].steps \in Clearing /\ job[j].at = "checked"
  BY <1>1, DoingFacts DEF ClearRemoves
<1>3. HasTurn(j)
  BY <1>1, <1>2, TurnMeans DEF ClearRemoves
<1>4. store = i /\ Settled(i)
  BY <1>1, <1>2 DEF Sound
<1>5. UNCHANGED <<body, server, network, cached, fate>> /\ store' = None /\ Cleared(j)
  BY DEF ClearRemoves
<1>6. /\ job' \in [Jobs -> JobType] /\ queue' \in Seq(Jobs) /\ InLine' /\ Moved(j)
      /\ Sound(j)' /\ screen' \in ScreenType /\ screen'.pending \in {screen.pending, None}
  BY <1>2, <1>3, <1>5, ClearedFacts
<1>7. Types'
  <2>1. store' \in Maybe(Ids)
    BY <1>5 DEF Maybe
  <2> QED  BY <1>1, <1>5, <1>6, <2>1 DEF Types, server
<1>8. Known'
  BY <1>1, <1>5, <1>6 DEF Known
<1>9. UnknownIsKept'
  <2>1. ASSUME NEW k \in Ids, fate'[k] = "sent"  PROVE FALSE
    <3>1. store = k /\ fate[k] = "sent"
      BY <1>1, <1>5, <2>1 DEF UnknownIsKept
    <3> QED  BY <1>4, <3>1 DEF Settled
  <2> QED  BY <2>1 DEF UnknownIsKept
<1>10. Grown
  BY <1>5, GrownUntouched
<1> QED  BY <1>3, <1>6, <1>7, <1>8, <1>9, <1>10, StepKeeps

LEMMA ClearFailsKeeps ==
  ASSUME WritesInv, NEW j \in Jobs, ClearFails(j)
  PROVE  WritesInv'
PROOF
<1> DEFINE i == job[j].id
<1>1. Types /\ Known /\ InLine /\ Sound(j) /\ job[j].id \in Maybe(Ids)
  BY JobFacts DEF WritesInv
<1>2. job[j].steps \in Clearing /\ Turn(j)
  <2>1. PICK at \in {"start", "checked"} : Doing(j, "clear", at) /\ Turn(j)
    BY DEF ClearFails
  <2> QED  BY <1>1, <2>1, DoingFacts
<1>3. HasTurn(j)
  BY <1>1, <1>2, TurnMeans
<1>4. UNCHANGED <<body, server, network, store, cached, fate>> /\ Ends(j)
  BY DEF ClearFails
<1>5. /\ job' \in [Jobs -> JobType] /\ queue' \in Seq(Jobs) /\ InLine' /\ Moved(j)
      /\ Sound(j)'
  BY <1>3, <1>4, EndsFacts
<1>6. screen' \in ScreenType /\ screen'.pending \in {screen.pending, i, None}
  <2>1. CASE screen' = screen
    BY <1>1, <2>1 DEF Types
  <2>2. CASE screen' # screen
    <3> DEFINE c == Chosen(j)
               f == screen.failed \/ job[j].kind = "reload"
    <3>1. screen' = [screen EXCEPT !.pending = i, !.plan = c, !.failed = f]
      BY <2>2 DEF ClearFails, Sets
    <3>2. c \in Maybe(Plans)
      BY <1>1, ChosenFacts
    <3>3. f \in BOOLEAN
      OBVIOUS
    <3>4. screen \in ScreenType
      BY <1>1 DEF Types
    <3>5. i \in Maybe(Ids)
      BY <1>1
    <3> HIDE DEF c, f, i
    <3> QED  BY <3>1, <3>2, <3>3, <3>4, <3>5 DEF ScreenType
  <2> QED  BY <2>1, <2>2
<1>7. i # None => body[i] # None
  BY <1>1 DEF Sound
<1>8. cached' \in [Plans -> Maybe(Revisions)]
  BY <1>1, <1>4 DEF Types
<1> HIDE DEF i
<1> QED  BY <1>4, <1>5, <1>6, <1>7, <1>8, QuietStep

-----------------------------------------------------------------------------
(* What a new screen reads.                                                *)
LEMMA HydratesKeeps ==
  ASSUME WritesInv, NEW j \in Jobs, Hydrates(j)
  PROVE  WritesInv'
PROOF
<1>1. Types /\ Known /\ InLine /\ job[j] \in JobType
  BY JobFacts DEF WritesInv
<1>2. job[j].steps \in Asking
  BY <1>1, DoingFacts DEF Hydrates
<1>3. PICK found \in {store, None} :
         job' = [job EXCEPT ![j].at = "read", ![j].id = found] /\ UNCHANGED queue
  BY DEF Hydrates
<1>4. UNCHANGED <<body, server, network, store, screen, cached, fate>>
  BY DEF Hydrates
<1>5. found \in Maybe(Ids) /\ (found # None => body[found] # None)
  BY <1>1, <1>3 DEF Types, Known, Maybe
<1> DEFINE w == [job[j] EXCEPT !.at = "read", !.id = found]
<1>6. w \in JobType /\ w.at = "read" /\ w.id = found /\ w.steps = job[j].steps
  <2>1. "read" \in Ats
    BY DEF Ats
  <2> QED  BY <1>1, <1>5, <2>1 DEF JobType
<1>7. job' = [job EXCEPT ![j] = w]
  BY <1>1, <1>3 DEF Types
<1> HIDE DEF w
<1>8. /\ job' \in [Jobs -> JobType] /\ queue' \in Seq(Jobs) /\ InLine' /\ Moved(j)
      /\ job'[j] = w
  BY <1>1, <1>3, <1>6, <1>7, WithinFacts
<1>9. Sound(j)'
  <2>1. job'[j].at # "checked" /\ (job'[j].id # None => body'[job'[j].id] # None)
    BY <1>4, <1>5, <1>6, <1>8
  <2>2. job'[j].steps \in {<<>>, <<"look">>, <<"read">>}
    BY <1>2, <1>6, <1>8 DEF Asking
  <2> QED  BY <2>1, <2>2, SoundFor
<1>10. /\ screen' \in ScreenType /\ cached' \in [Plans -> Maybe(Revisions)]
       /\ screen'.pending \in {screen.pending, None}
  BY <1>1, <1>4 DEF Types
<1> QED  BY <1>4, <1>8, <1>9, <1>10, QuietStep

LEMMA HydratedKeeps ==
  ASSUME WritesInv, NEW j \in Jobs, Hydrated(j)
  PROVE  WritesInv'
PROOF
<1> DEFINE i == job[j].id
           p == IF i = None \/ screen.plan # None THEN screen.plan
                ELSE IF IsStart(i) THEN None ELSE body[i].plan
<1>1. Types /\ Known /\ InLine /\ Sound(j) /\ i \in Maybe(Ids)
  BY JobFacts DEF WritesInv
<1>2. j \notin Waiting
  BY <1>1, DoingFacts DEF Hydrated
<1>3. /\ UNCHANGED <<body, server, network, store, cached, fate>> /\ Ends(j)
      /\ screen' = IF i = None THEN screen
                   ELSE [screen EXCEPT !.plan = p, !.pending = IF @ # None THEN @ ELSE i]
  BY DEF Hydrated
<1>4. /\ job' \in [Jobs -> JobType] /\ queue' \in Seq(Jobs) /\ InLine' /\ Moved(j)
      /\ Sound(j)'
  BY <1>2, <1>3, EndsFacts
<1>5. i # None => body[i] # None /\ i \in Ids
  BY <1>1 DEF Sound, Maybe
<1>6. p \in Maybe(Plans)
  <2>1. CASE i = None \/ screen.plan # None
    BY <1>1, <2>1, ScreenFacts
  <2>2. CASE ~(i = None \/ screen.plan # None)
    <3>1. body[i].plan \in Plans
      BY <1>1, <1>5, <2>2, BodyFacts
    <3> QED  BY <2>2, <3>1 DEF Maybe
  <2> QED  BY <2>1, <2>2
<1>7. screen \in ScreenType /\ screen.pending \in Maybe(Ids)
  BY <1>1, ScreenFacts
<1> DEFINE n == IF screen.pending # None THEN screen.pending ELSE i
<1>8. screen' = IF i = None THEN screen ELSE [screen EXCEPT !.plan = p, !.pending = n]
  BY <1>3
<1>9. n \in Maybe(Ids) /\ n \in {screen.pending, i}
  BY <1>1, <1>7
<1> HIDE DEF p, n, i
<1>10. screen' \in ScreenType /\ screen'.pending \in {screen.pending, i, None}
  <2>1. CASE i = None
    BY <1>7, <1>8, <2>1
  <2>2. CASE i # None
    BY <1>6, <1>7, <1>8, <1>9, <2>2 DEF ScreenType
  <2> QED  BY <2>1, <2>2
<1>11. cached' \in [Plans -> Maybe(Revisions)]
  BY <1>1, <1>3 DEF Types
<1> QED  BY <1>3, <1>4, <1>5, <1>10, <1>11, QuietStep

-----------------------------------------------------------------------------
(* Replies.                                                                *)

(* A write is settled: what was is still kept.                             *)
LEMMA SettlesFacts ==
  ASSUME WritesInv, UNCHANGED <<body, store>>, NEW i \in Ids,
         NEW what \in Fates \ {"unsent", "sent"}, fate' = Fated(i, what)
  PROVE  /\ fate' \in [Ids -> Fates] /\ fate'[i] \notin {"unsent", "sent"}
         /\ UnknownIsKept' /\ Grown
PROOF
<1>1. fate \in [Ids -> Fates] /\ UnknownIsKept /\ what \in Fates \ {"unsent"}
  BY DEF WritesInv, Types
<1>2. /\ fate' \in [Ids -> Fates] /\ fate'[i] \notin {"unsent", "sent"}
      /\ \A k \in Ids \ {i} : fate'[k] = fate[k]
      /\ \A k \in Ids : Settled(k) => fate'[k] \notin {"unsent", "sent"}
  BY <1>1, FatedFacts
<1> QED  BY <1>1, <1>2 DEF UnknownIsKept, Grown

LEMMA SettlingStep ==
  ASSUME WritesInv, NEW j \in Jobs, UNCHANGED <<body, server, network, store>>,
         fate' \in [Ids -> Fates], UnknownIsKept', Grown,
         job' \in [Jobs -> JobType], queue' \in Seq(Jobs), InLine', Moved(j), Sound(j)',
         screen' \in ScreenType, cached' \in [Plans -> Maybe(Revisions)],
         screen'.pending \in {screen.pending, None}
  PROVE  WritesInv'
PROOF
<1>1. Types /\ Known
  BY DEF WritesInv
<1>2. Types'
  BY <1>1 DEF Types, server
<1>3. Known'
  BY <1>1 DEF Known
<1> QED  BY <1>2, <1>3, StepKeeps

LEMMA PostAnsweredKeeps ==
  ASSUME WritesInv, NEW j \in Jobs, PostAnswered(j)
  PROVE  WritesInv'
PROOF
<1> DEFINE i == job[j].id
<1>1. Types /\ Known /\ InLine /\ Sound(j) /\ i \in Maybe(Ids) /\ job[j].kind \in Kinds
  BY JobFacts DEF WritesInv
<1>2. j \notin Waiting /\ job[j].steps \in Posting
  BY <1>1, DoingFacts DEF PostAnswered
<1>3. i # None /\ i \in Ids /\ body[i] # None /\ job[j].plan # None
  BY <1>1, <1>2 DEF Sound, Maybe
<1>4. /\ UNCHANGED <<body, server, network, store>>
      /\ fate' = Fated(i, "answered") /\ journal[i] # None
      /\ IF IsStart(i) THEN Seed(i, journal[i]) ELSE UNCHANGED cached
      /\ screen' = [screen EXCEPT !.failed = FALSE]
      /\ Becomes(j, job[j].kind, <<"get", "clear">>)
  BY DEF PostAnswered, Goes, Proven
<1> HIDE DEF i
<1>5. /\ fate' \in [Ids -> Fates] /\ fate'[i] \notin {"unsent", "sent"}
      /\ UnknownIsKept' /\ Grown
  <2>1. "answered" \in Fates \ {"unsent", "sent"}
    BY DEF Fates
  <2> QED  BY <1>3, <1>4, <2>1, SettlesFacts
<1>6. /\ job' \in [Jobs -> JobType] /\ queue' \in Seq(Jobs) /\ InLine' /\ Moved(j)
      /\ job'[j].steps = <<"get", "clear">>
      /\ job'[j].id = i /\ job'[j].plan = job[j].plan /\ job'[j].at = "start"
  <2>1. <<"get", "clear">> \in Lists /\ <<"get", "clear">> # <<>>
    BY ListsAre
  <2> DEFINE l == <<"get", "clear">>
             k == job[j].kind
  <2>2. l \in Lists /\ l # <<>> /\ k \in Kinds /\ Becomes(j, k, l)
    BY <1>1, <1>4, <2>1
  <2>3. j \in Waiting => HasTurn(j)
    BY <1>2
  <2> HIDE DEF l, k
  <2>4. /\ job' \in [Jobs -> JobType] /\ queue' \in Seq(Jobs) /\ InLine' /\ Moved(j)
        /\ job'[j].steps = l
        /\ job'[j].id = i /\ job'[j].plan = job[j].plan /\ job'[j].at = "start"
    BY <1>1, <2>2, <2>3, BecomesFacts DEF i
  <2> QED  BY <2>4 DEF l
<1>7. Sound(j)'
  <2>1. job'[j].at # "checked" /\ (job'[j].id # None => body'[job'[j].id] # None)
    BY <1>3, <1>4, <1>6
  <2>2. /\ job'[j].steps = <<"get", "clear">> /\ job'[j].id # None /\ job'[j].plan # None
        /\ fate'[job'[j].id] \notin {"unsent", "sent"}
    BY <1>3, <1>5, <1>6
  <2> QED  BY <2>1, <2>2, SoundFor
<1>8. screen' \in ScreenType /\ screen'.pending \in {screen.pending, None}
  <2>1. screen \in ScreenType
    BY <1>1, ScreenFacts
  <2> QED  BY <1>4, <2>1 DEF ScreenType
<1>9. cached' \in [Plans -> Maybe(Revisions)]
  <2>1. CASE IsStart(i)
    <3>1. i \in Plans
      BY <1>3, ClientWritesAssumption DEF Ids, Plans
    <3>2. cached \in [Plans -> Maybe(Revisions)] /\ journal[i] \in Maybe(Revisions)
      BY <1>1, <1>3 DEF Types
    <3>3. Seed(i, journal[i])
      BY <1>4, <2>1
    <3> QED  BY <3>1, <3>2, <3>3, SeedFacts
  <2>2. CASE ~IsStart(i)
    BY <1>1, <1>4, <2>2 DEF Types
  <2> QED  BY <2>1, <2>2
<1> QED  BY <1>4, <1>5, <1>6, <1>7, <1>8, <1>9, SettlingStep

LEMMA PostRefusedKeeps ==
  ASSUME WritesInv, NEW j \in Jobs, PostRefused(j)
  PROVE  WritesInv'
PROOF
<1> DEFINE i == job[j].id
<1>1. Types /\ Known /\ InLine /\ Sound(j) /\ i \in Maybe(Ids)
  BY JobFacts DEF WritesInv
<1>2. j \notin Waiting /\ job[j].steps \in Posting
  BY <1>1, DoingFacts DEF PostRefused
<1>3. i # None /\ i \in Ids /\ body[i] # None /\ job[j].plan # None
  BY <1>1, <1>2 DEF Sound, Maybe
<1>4. /\ UNCHANGED <<body, server, network, store, cached>>
      /\ fate' = Fated(i, "refused")
      /\ screen' = [screen EXCEPT !.failed = FALSE]
      /\ Becomes(j, "refused", <<"clear", "get">>)
  BY DEF PostRefused
<1> HIDE DEF i
<1>5. /\ fate' \in [Ids -> Fates] /\ fate'[i] \notin {"unsent", "sent"}
      /\ UnknownIsKept' /\ Grown
  <2>1. "refused" \in Fates \ {"unsent", "sent"}
    BY DEF Fates
  <2> QED  BY <1>3, <1>4, <2>1, SettlesFacts
<1>6. /\ job' \in [Jobs -> JobType] /\ queue' \in Seq(Jobs) /\ InLine' /\ Moved(j)
      /\ job'[j].steps = <<"clear", "get">>
      /\ job'[j].id = i /\ job'[j].plan = job[j].plan /\ job'[j].at = "start"
  <2>1. <<"clear", "get">> \in Lists /\ <<"clear", "get">> # <<>> /\ "refused" \in Kinds
    BY ListsAre DEF Kinds
  <2> DEFINE l == <<"clear", "get">>
             k == "refused"
  <2>2. l \in Lists /\ l # <<>> /\ k \in Kinds /\ Becomes(j, k, l)
    BY <1>4, <2>1
  <2>3. j \in Waiting => HasTurn(j)
    BY <1>2
  <2> HIDE DEF l, k
  <2>4. /\ job' \in [Jobs -> JobType] /\ queue' \in Seq(Jobs) /\ InLine' /\ Moved(j)
        /\ job'[j].steps = l
        /\ job'[j].id = i /\ job'[j].plan = job[j].plan /\ job'[j].at = "start"
    BY <1>1, <2>2, <2>3, BecomesFacts DEF i
  <2> QED  BY <2>4 DEF l
<1>7. Sound(j)'
  <2>1. job'[j].at # "checked" /\ (job'[j].id # None => body'[job'[j].id] # None)
    BY <1>3, <1>4, <1>6
  <2>2. /\ job'[j].steps = <<"clear", "get">> /\ job'[j].id # None /\ job'[j].plan # None
        /\ fate'[job'[j].id] \notin {"unsent", "sent"}
    BY <1>3, <1>5, <1>6
  <2> QED  BY <2>1, <2>2, SoundFor
<1>8. screen' \in ScreenType /\ screen'.pending \in {screen.pending, None}
  <2>1. screen \in ScreenType
    BY <1>1, ScreenFacts
  <2> QED  BY <1>4, <2>1 DEF ScreenType
<1>9. cached' \in [Plans -> Maybe(Revisions)]
  BY <1>1, <1>4 DEF Types
<1> QED  BY <1>4, <1>5, <1>6, <1>7, <1>8, <1>9, SettlingStep

LEMMA PostTimesOutKeeps ==
  ASSUME WritesInv, NEW j \in Jobs, PostTimesOut(j)
  PROVE  WritesInv'
PROOF
<1>1. Types /\ InLine
  BY DEF WritesInv
<1>2. j \notin Waiting
  BY <1>1, DoingFacts DEF PostTimesOut
<1>3. UNCHANGED <<body, server, network, store, screen, cached, fate>> /\ Ends(j)
  BY DEF PostTimesOut
<1>4. /\ job' \in [Jobs -> JobType] /\ queue' \in Seq(Jobs) /\ InLine' /\ Moved(j)
      /\ Sound(j)'
  BY <1>2, <1>3, EndsFacts
<1>5. /\ screen' \in ScreenType /\ cached' \in [Plans -> Maybe(Revisions)]
      /\ screen'.pending \in {screen.pending, None}
  BY <1>1, <1>3 DEF Types
<1> QED  BY <1>3, <1>4, <1>5, QuietStep

-----------------------------------------------------------------------------
(* Reads of the plan.                                                      *)
LEMMA GetServedKeeps ==
  ASSUME WritesInv, NEW j \in Jobs, GetServed(j)
  PROVE  WritesInv'
PROOF
<1>1. Types /\ Known /\ InLine /\ Sound(j) /\ job[j] \in JobType /\ job[j].plan \in Maybe(Plans)
  BY JobFacts DEF WritesInv
<1>2. job[j].steps \in Getting
  BY <1>1, DoingFacts DEF GetServed
<1> DEFINE r == revision[job[j].plan]
           w == [job[j] EXCEPT !.at = "served", !.seen = r]
<1>3. /\ UNCHANGED <<body, server, network, store, queue, screen, cached, fate>>
      /\ job' = [job EXCEPT ![j].at = "served", ![j].seen = r]
  BY DEF GetServed
<1>4. r \in Maybe(Revisions)
  <2>1. job[j].plan # None
    BY <1>1, <1>2 DEF Sound
  <2>2. job[j].plan \in Plans
    BY <1>1, <2>1 DEF Maybe
  <2> QED  BY <1>1, <2>2 DEF Types
<1>5. job' = [job EXCEPT ![j] = w]
  BY <1>1, <1>3 DEF Types
<1> HIDE DEF r
<1>6. /\ w \in JobType /\ w.at = "served" /\ w.id = job[j].id /\ w.steps = job[j].steps
      /\ w.kind = job[j].kind /\ w.plan = job[j].plan
  <2>1. "served" \in Ats
    BY DEF Ats
  <2> QED  BY <1>1, <1>4, <2>1 DEF JobType
<1> HIDE DEF w
<1>7. /\ job' \in [Jobs -> JobType] /\ queue' \in Seq(Jobs) /\ InLine' /\ Moved(j)
      /\ job'[j] = w
  <2>1. queue' = queue
    BY <1>3
  <2> QED  BY <1>1, <1>5, <1>6, <2>1, WithinFacts
<1>8. Sound(j)'
  BY <1>1, <1>3, <1>6, <1>7 DEF Sound, Settled
<1>9. /\ screen' \in ScreenType /\ cached' \in [Plans -> Maybe(Revisions)]
      /\ screen'.pending \in {screen.pending, None}
  BY <1>1, <1>3 DEF Types
<1> QED  BY <1>3, <1>7, <1>8, <1>9, QuietStep

LEMMA GetRepliesKeeps ==
  ASSUME WritesInv, NEW j \in Jobs, GetReplies(j)
  PROVE  WritesInv'
PROOF
<1> DEFINE i == job[j].id
<1>1. /\ Types /\ Known /\ InLine /\ Sound(j) /\ UnknownIsKept
      /\ i \in Maybe(Ids) /\ job[j].kind \in Kinds
      /\ job[j].plan \in Maybe(Plans) /\ job[j].seen \in Maybe(Revisions)
      /\ job[j].steps \in Lists
  BY JobFacts DEF WritesInv
<1>2. j \notin Waiting /\ job[j].steps \in Getting
  BY <1>1, DoingFacts DEF GetReplies
<1>3. /\ UNCHANGED <<body, server, network, store>>
      /\ Seed(job[j].plan, job[j].seen)
      /\ fate' = IF job[j].kind = "reload" /\ i # None THEN Fated(i, "reloaded") ELSE fate
      /\ Becomes(j, job[j].kind, Tail(job[j].steps))
  BY DEF GetReplies, Goes
<1>4. job[j].plan \in Plans
  BY <1>1, <1>2 DEF Sound, Maybe
<1>5. cached' \in [Plans -> Maybe(Revisions)]
  BY <1>1, <1>3, <1>4, SeedFacts DEF Types
<1>6. screen' \in ScreenType /\ screen'.pending \in {screen.pending, None}
  <2> DEFINE n == IF job[j].kind = "refused" THEN None ELSE screen.pending
             f == screen.failed /\ job[j].kind \notin {"write", "refused", "reload"}
             u == screen.unloaded /\ job[j].kind \notin {"load", "reload"}
  <2>1. screen' = [screen EXCEPT !.pending = n, !.failed = f, !.unloaded = u]
    BY DEF GetReplies
  <2>2. screen \in ScreenType /\ n \in Maybe(Ids) /\ n \in {screen.pending, None}
    BY <1>1, ScreenFacts DEF Maybe
  <2>3. f \in BOOLEAN /\ u \in BOOLEAN
    OBVIOUS
  <2> HIDE DEF n, f, u
  <2> QED  BY <2>1, <2>2, <2>3 DEF ScreenType
<1> HIDE DEF i
<1>7. /\ fate' \in [Ids -> Fates] /\ UnknownIsKept' /\ Grown
      /\ (job[j].kind = "reload" /\ i # None) => fate'[i] \notin {"unsent", "sent"}
      /\ \A k \in Ids : Settled(k) => fate'[k] \notin {"unsent", "sent"}
  <2>1. CASE job[j].kind = "reload" /\ i # None
    <3>1. i \in Ids /\ "reloaded" \in Fates \ {"unsent", "sent"}
      BY <1>1, <2>1 DEF Maybe, Fates
    <3>2. fate' = Fated(i, "reloaded")
      BY <1>3, <2>1
    <3>3. /\ fate' \in [Ids -> Fates] /\ fate'[i] \notin {"unsent", "sent"}
          /\ UnknownIsKept' /\ Grown
      BY <1>3, <3>1, <3>2, SettlesFacts
    <3> QED  BY <3>3 DEF Grown
  <2>2. CASE ~(job[j].kind = "reload" /\ i # None)
    <3>1. fate' = fate
      BY <1>3, <2>2
    <3>2. UnknownIsKept' /\ Grown
      BY <1>1, <1>3, <3>1, KeptUntouched, GrownUntouched
    <3> QED  BY <1>1, <2>2, <3>1, <3>2 DEF Types, Grown
  <2> QED  BY <2>1, <2>2
<1>8. PICK l \in {<<>>, <<"clear">>} :
         /\ Becomes(j, job[j].kind, l)
         /\ l = <<"clear">> => job[j].steps = <<"get", "clear">>
  <2>1. Tail(job[j].steps) = IF job[j].steps = <<"get", "clear">> THEN <<"clear">> ELSE <<>>
    BY <1>1, <1>2, ListFacts
  <2>2. CASE job[j].steps = <<"get", "clear">>
    BY <1>3, <2>1, <2>2
  <2>3. CASE job[j].steps # <<"get", "clear">>
    <3>1. Tail(job[j].steps) = <<>>
      BY <2>1, <2>3
    <3>2. Tail(job[j].steps) # <<"clear">>
      BY <3>1
    <3> QED  BY <1>3, <3>1, <3>2
  <2> QED  BY <2>2, <2>3
<1>9. /\ job' \in [Jobs -> JobType] /\ queue' \in Seq(Jobs) /\ InLine' /\ Moved(j)
      /\ job'[j].steps = l
      /\ l = <<>> => job'[j].id = None
      /\ l # <<>> => /\ job'[j].id = i /\ job'[j].plan = job[j].plan
                     /\ job'[j].at = "start"
  <2>1. Becomes(j, job[j].kind, l)
    BY <1>8
  <2>2. j \in Waiting => HasTurn(j)
    BY <1>2
  <2>3. l \in Lists
    BY <1>8, ListsAre
  <2> QED  BY <1>1, <2>1, <2>2, <2>3, BecomesFacts DEF i
<1>10. Sound(j)'
  <2>1. CASE l = <<>>
    BY <1>9, <2>1, EndsSound
  <2>2. CASE l # <<>>
    <3>1. job[j].steps = <<"get", "clear">>
      BY <1>8, <2>2
    <3>2. i # None /\ body[i] # None /\ (job[j].kind = "reload" \/ Settled(i))
      BY <1>1, <3>1 DEF Sound, i
    <3>3. i \in Ids
      BY <1>1, <3>2 DEF Maybe
    <3>4. fate'[i] \notin {"unsent", "sent"}
      BY <1>7, <3>2, <3>3
    <3>5. /\ job'[j].steps = <<"clear">> /\ job'[j].id # None
          /\ fate'[job'[j].id] \notin {"unsent", "sent"}
      BY <1>8, <1>9, <2>2, <3>2, <3>4
    <3>6. job'[j].at # "checked" /\ body'[job'[j].id] # None
      BY <1>3, <1>9, <2>2, <3>2
    <3> QED  BY <3>5, <3>6, SoundFor
  <2> QED  BY <2>1, <2>2
<1> QED  BY <1>3, <1>5, <1>6, <1>7, <1>9, <1>10, SettlingStep

LEMMA GetFailsKeeps ==
  ASSUME WritesInv, NEW j \in Jobs, GetFails(j)
  PROVE  WritesInv'
PROOF
<1>1. Types /\ InLine
  BY DEF WritesInv
<1>2. j \notin Waiting
  BY <1>1, DoingFacts DEF GetFails
<1> DEFINE c == Chosen(j)
           f == screen.failed \/ job[j].kind # "load"
           u == screen.unloaded \/ (job[j].kind \in {"load", "reload"}
                                      /\ Seen(screen.plan) = None)
<1>3. /\ UNCHANGED <<body, server, network, store, cached, fate>> /\ Ends(j)
      /\ screen' = [screen EXCEPT !.failed = f, !.plan = c, !.unloaded = u]
  BY DEF GetFails
<1>4. /\ job' \in [Jobs -> JobType] /\ queue' \in Seq(Jobs) /\ InLine' /\ Moved(j)
      /\ Sound(j)'
  BY <1>2, <1>3, EndsFacts
<1>5. c \in Maybe(Plans) /\ screen \in ScreenType
  BY <1>1, ChosenFacts, ScreenFacts
<1>6. f \in BOOLEAN /\ u \in BOOLEAN
  OBVIOUS
<1> HIDE DEF c, f, u
<1>7. screen' \in ScreenType /\ screen'.pending \in {screen.pending, None}
  BY <1>3, <1>5, <1>6 DEF ScreenType
<1>8. cached' \in [Plans -> Maybe(Revisions)]
  BY <1>1, <1>3 DEF Types
<1> QED  BY <1>3, <1>4, <1>7, <1>8, QuietStep

-----------------------------------------------------------------------------
(* The server, and what the jobs make of it: nothing, until they ask.      *)
LEMMA StillSound ==
  ASSUME WritesInv, UNCHANGED <<body, store, queue, job, fate>>
  PROVE  InLine' /\ (\A j \in Jobs : Sound(j)') /\ UnknownIsKept'
PROOF
<1>1. InLine'
  BY DEF WritesInv, InLine, Waiting
<1>2. \A j \in Jobs : Sound(j)'
  BY DEF WritesInv, Sound, Settled, HasTurn
<1>3. UnknownIsKept'
  BY DEF WritesInv, UnknownIsKept
<1> QED  BY <1>1, <1>2, <1>3

LEMMA ServesKeeps ==
  ASSUME WritesInv, NEW i \in Ids, Serves(i)
  PROVE  WritesInv'
PROOF
<1> DEFINE p == body[i].plan
           applied == journal[i] = None /\ (IsStart(i) \/ revision[p] = body[i].expected)
           next == IF IsStart(i) THEN 0 ELSE revision[p] + 1
<1>1. /\ Types /\ Known
      /\ journal \in [Ids -> Maybe(Revisions)] /\ revision \in [Plans -> Maybe(Revisions)]
  BY DEF WritesInv, Types
<1>2. /\ i \in network /\ network' = network \ {i}
      /\ journal' = IF applied THEN [journal EXCEPT ![i] = next] ELSE journal
      /\ revision' = IF applied THEN [revision EXCEPT ![p] = next] ELSE revision
      /\ UNCHANGED <<body, store, queue, job, screen, cached, fate>>
  BY DEF Serves
<1>3. body[i] # None /\ p \in Plans
  <2>1. body[i] # None
    BY <1>1, <1>2 DEF Known
  <2> QED  BY <1>1, <2>1, BodyFacts
<1>4. applied => next \in Maybe(Revisions)
  <2>1. CASE IsStart(i)
    <3>1. 0 \in Revisions
      BY ClientWritesAssumption DEF Revisions
    <3> QED  BY <2>1, <3>1 DEF Maybe
  <2>2. CASE applied /\ ~IsStart(i)
    <3>1. body[i].expected \in 0..(MaxRevision - 1)
      BY <1>1, <1>3, <2>2 DEF Known, IsStart
    <3>2. revision[p] \in 0..(MaxRevision - 1)
      BY <2>2, <3>1
    <3>3. next = revision[p] + 1
      BY <2>2
    <3> HIDE DEF p, next
    <3>4. next \in 0..MaxRevision
      BY <3>2, <3>3, ClientWritesAssumption
    <3> QED  BY <3>4 DEF Maybe, Revisions
  <2> QED  BY <2>1, <2>2
<1> HIDE DEF p, applied, next
<1>5. journal' \in [Ids -> Maybe(Revisions)] /\ revision' \in [Plans -> Maybe(Revisions)]
  BY <1>1, <1>2, <1>3, <1>4
<1>6. network' \in SUBSET Ids
  BY <1>1, <1>2 DEF Types
<1>7. Types'
  BY <1>1, <1>2, <1>5, <1>6 DEF Types
<1>8. Known'
  BY <1>1, <1>2 DEF Known
<1>9. InLine' /\ (\A j \in Jobs : Sound(j)') /\ UnknownIsKept'
  BY <1>2, StillSound
<1> QED  BY <1>7, <1>8, <1>9 DEF WritesInv

LEMMA OtherDeviceKeeps ==
  ASSUME WritesInv, NEW p \in Plans, OtherDevice(p)
  PROVE  WritesInv'
PROOF
<1>1. Types /\ Known /\ revision \in [Plans -> Maybe(Revisions)]
  BY DEF WritesInv, Types
<1>2. /\ <<p, revision[p]>> \in Elsewhere
      /\ revision' = [revision EXCEPT ![p] = revision[p] + 1]
      /\ UNCHANGED <<body, journal, network, store, queue, job, screen, cached, fate>>
  BY <1>1 DEF OtherDevice
<1> DEFINE r == revision[p]
<1>3. r \in 0..(MaxRevision - 1)
  BY <1>2, ClientWritesAssumption
<1> HIDE DEF r
<1>4. r + 1 \in 0..MaxRevision
  BY <1>3, ClientWritesAssumption
<1>5. revision[p] + 1 \in Maybe(Revisions)
  BY <1>4 DEF Maybe, Revisions, r
<1>6. revision' \in [Plans -> Maybe(Revisions)]
  BY <1>1, <1>2, <1>5
<1>7. Types'
  BY <1>1, <1>2, <1>6 DEF Types
<1>8. Known'
  BY <1>1, <1>2 DEF Known
<1>9. InLine' /\ (\A j \in Jobs : Sound(j)') /\ UnknownIsKept'
  BY <1>2, StillSound
<1> QED  BY <1>7, <1>8, <1>9 DEF WritesInv

-----------------------------------------------------------------------------
(* What the owner does.                                                    *)

(* A new job, with what its steps need.                                    *)
LEMMA BegunFacts ==
  ASSUME WritesInv, NEW kind \in Kinds, NEW id \in Maybe(Ids), NEW plan \in Maybe(Plans),
         NEW steps \in Lists, Begins(kind, id, plan, steps),
         id # None => body'[id] # None,
         \/ steps = <<"read">>
         \/ steps = <<"get">> /\ plan # None
         \/ steps = <<"save", "post">> /\ id # None /\ plan # None
         \/ steps = <<"clear">> /\ id # None /\ fate'[id] \notin {"unsent", "sent"}
         \/ (/\ steps = <<"clear", "get">> /\ id # None /\ plan # None
             /\ fate'[id] \notin {"unsent", "sent"})
         \/ steps = <<"get", "clear">> /\ id # None /\ plan # None /\ kind = "reload"
  PROVE  /\ job' \in [Jobs -> JobType] /\ queue' \in Seq(Jobs) /\ InLine'
         /\ \E j \in Jobs : Moved(j) /\ Sound(j)'
PROOF
<1>1. Types /\ InLine
  BY DEF WritesInv
<1>2. /\ job' \in [Jobs -> JobType] /\ queue' \in Seq(Jobs) /\ InLine'
      /\ \E j \in Jobs :
            /\ job[j] = Idle /\ Moved(j)
            /\ job'[j].kind = kind /\ job'[j].id = id /\ job'[j].plan = plan
            /\ job'[j].steps = steps /\ job'[j].at = "start"
  BY <1>1, BeginsFacts
<1>3. PICK j \in Jobs :
            /\ Moved(j)
            /\ job'[j].kind = kind /\ job'[j].id = id /\ job'[j].plan = plan
            /\ job'[j].steps = steps /\ job'[j].at = "start"
  BY <1>2
<1>4. job'[j].at # "checked" /\ (job'[j].id # None => body'[job'[j].id] # None)
  BY <1>3
<1>5. Sound(j)'
  <2>1. CASE steps = <<"read">>
    BY <1>3, <1>4, <2>1, SoundFor
  <2>2. CASE steps = <<"get">> /\ plan # None
    BY <1>3, <1>4, <2>2, SoundFor
  <2>3. CASE steps = <<"save", "post">> /\ id # None /\ plan # None
    BY <1>3, <1>4, <2>3, SoundFor
  <2>4. CASE steps = <<"clear">> /\ id # None /\ fate'[id] \notin {"unsent", "sent"}
    BY <1>3, <1>4, <2>4, SoundFor
  <2>5. CASE /\ steps = <<"clear", "get">> /\ id # None /\ plan # None
             /\ fate'[id] \notin {"unsent", "sent"}
    BY <1>3, <1>4, <2>5, SoundFor
  <2>6. CASE steps = <<"get", "clear">> /\ id # None /\ plan # None /\ kind = "reload"
    BY <1>3, <1>4, <2>6, SoundFor
  <2> QED  BY <2>1, <2>2, <2>3, <2>4, <2>5, <2>6
<1> QED  BY <1>2, <1>3, <1>5

LEMMA MountKeeps ==
  ASSUME WritesInv, NEW p \in Plans \cup {None}, Mount(p)
  PROVE  WritesInv'
PROOF
<1>1. Types /\ revision \in [Plans -> Maybe(Revisions)] /\ cached \in [Plans -> Maybe(Revisions)]
  BY DEF WritesInv, Types
<1>2. /\ screen' = [Absent EXCEPT !.up = TRUE, !.plan = p]
      /\ Begins("hydrate", None, None, <<"read">>)
      /\ UNCHANGED cached \/ (p # None /\ Seed(p, revision[p]))
      /\ UNCHANGED <<body, server, network, store, fate>>
  BY DEF Mount
<1>3. PICK j \in Jobs :
         /\ job' \in [Jobs -> JobType] /\ queue' \in Seq(Jobs) /\ InLine' /\ Moved(j) /\ Sound(j)'
  <2>1. /\ "hydrate" \in Kinds /\ None \in Maybe(Ids) /\ None \in Maybe(Plans)
        /\ <<"read">> \in Lists
    BY ListsAre DEF Kinds, Maybe
  <2> QED  BY <1>2, <2>1, BegunFacts
<1>4. screen' \in ScreenType /\ screen'.pending \in {screen.pending, None}
  BY <1>2, AbsentFacts DEF ScreenType, Maybe
<1>5. cached' \in [Plans -> Maybe(Revisions)]
  <2>1. CASE UNCHANGED cached
    BY <1>1, <2>1
  <2>2. CASE p # None /\ Seed(p, revision[p])
    BY <1>1, <2>2, SeedFacts
  <2> QED  BY <1>2, <2>1, <2>2
<1> QED  BY <1>2, <1>3, <1>4, <1>5, QuietStep

LEMMA LoadKeeps ==
  ASSUME WritesInv, Load
  PROVE  WritesInv'
PROOF
<1>1. Types
  BY DEF WritesInv
<1>2. /\ screen.plan # None /\ Begins("load", None, screen.plan, <<"get">>)
      /\ UNCHANGED <<body, server, network, store, screen, cached, fate>>
  BY DEF Load
<1>3. PICK j \in Jobs :
         /\ job' \in [Jobs -> JobType] /\ queue' \in Seq(Jobs) /\ InLine' /\ Moved(j) /\ Sound(j)'
  <2>1. /\ "load" \in Kinds /\ None \in Maybe(Ids) /\ screen.plan \in Maybe(Plans)
        /\ <<"get">> \in Lists
    BY <1>1, ScreenFacts, ListsAre DEF Kinds, Maybe
  <2> QED  BY <1>2, <2>1, BegunFacts
<1>4. /\ screen' \in ScreenType /\ cached' \in [Plans -> Maybe(Revisions)]
      /\ screen'.pending \in {screen.pending, None}
  BY <1>1, <1>2 DEF Types
<1> QED  BY <1>2, <1>3, <1>4, QuietStep

(* The record of a write that is known is saved, and sent.                 *)
LEMMA PersistKeeps ==
  ASSUME WritesInv, NEW i \in Ids, NEW b \in Body, body' \in [Ids -> Maybe(Body)],
         body'[i] = b, \A k \in Ids : body[k] # None => body'[k] # None,
         \A k \in Ids : body'[k] # None =>
             body'[k].plan = k \/ body'[k].expected \in 0..(MaxRevision - 1),
         Persist(i, b)
  PROVE  WritesInv'
PROOF
<1>1. Types /\ Known /\ UnknownIsKept
  BY DEF WritesInv
<1>2. b # None /\ b.plan \in Plans /\ b.plan # None
  <2>1. b.plan \in Plans
    BY DEF Body
  <2>2. None \notin Plans
    BY ClientWritesAssumption DEF Plans
  <2>3. None \notin Body
    BY ClientWritesAssumption DEF Body, Plans, Revisions, Maybe
  <2> QED  BY <2>1, <2>2, <2>3
<1>3. /\ screen' = [screen EXCEPT !.pending = i]
      /\ Begins("write", i, b.plan, <<"save", "post">>)
      /\ UNCHANGED <<server, network, store, cached, fate>>
  BY DEF Persist
<1>4. PICK j \in Jobs :
         /\ job' \in [Jobs -> JobType] /\ queue' \in Seq(Jobs) /\ InLine' /\ Moved(j) /\ Sound(j)'
  <2>1. /\ "write" \in Kinds /\ i \in Maybe(Ids) /\ b.plan \in Maybe(Plans) /\ i # None
        /\ <<"save", "post">> \in Lists /\ body'[i] # None
    BY <1>2, ListsAre, ClientWritesAssumption DEF Kinds, Maybe, Ids
  <2> QED  BY <1>2, <1>3, <2>1, BegunFacts
<1>5. screen' \in ScreenType /\ screen'.pending = i
  <2>1. screen \in ScreenType /\ i \in Maybe(Ids)
    BY <1>1, ScreenFacts DEF Maybe
  <2> QED  BY <1>3, <2>1 DEF ScreenType
<1>6. Types'
  BY <1>1, <1>3, <1>4, <1>5 DEF Types, server
<1>7. Known'
  <2>1. /\ \A k \in network' : body'[k] # None
        /\ store' # None => body'[store'] # None
    BY <1>1, <1>3 DEF Known, Types, Maybe
  <2>2. body'[screen'.pending] # None
    BY <1>2, <1>5
  <2> QED  BY <2>1, <2>2 DEF Known
<1>8. UnknownIsKept'
  BY <1>1, <1>3, KeptUntouched
<1>9. Grown
  BY <1>3 DEF Grown, Settled
<1>10. store' = store
  BY <1>3
<1> QED  BY <1>4, <1>6, <1>7, <1>8, <1>9, <1>10, StepKeeps

LEMMA SubmitStartKeeps ==
  ASSUME WritesInv, NEW i \in Ids, SubmitStart(i)
  PROVE  WritesInv'
PROOF
<1> DEFINE b == [plan |-> i, expected |-> None]
<1>1. body \in [Ids -> Maybe(Body)] /\ Known
  BY DEF WritesInv, Types
<1>2. body' = [body EXCEPT ![i] = b] /\ Persist(i, b) /\ body[i] = None
  BY DEF SubmitStart, Fresh
<1>3. b \in Body /\ b.plan = i
  BY ClientWritesAssumption DEF Body, Plans, Ids, Maybe
<1> HIDE DEF b
<1>4. /\ body' \in [Ids -> Maybe(Body)] /\ body'[i] = b
      /\ \A k \in Ids \ {i} : body'[k] = body[k]
  BY <1>1, <1>2, <1>3 DEF Maybe
<1>5. \A k \in Ids : body[k] # None => body'[k] # None
  BY <1>2, <1>4
<1>6. \A k \in Ids : body'[k] # None =>
          body'[k].plan = k \/ body'[k].expected \in 0..(MaxRevision - 1)
  BY <1>1, <1>3, <1>4 DEF Known
<1> QED  BY <1>2, <1>3, <1>4, <1>5, <1>6, PersistKeeps

LEMMA SubmitActionKeeps ==
  ASSUME WritesInv, NEW i \in Ids, SubmitAction(i)
  PROVE  WritesInv'
PROOF
<1> DEFINE b == [plan |-> screen.plan, expected |-> Seen(screen.plan)]
<1>1. body \in [Ids -> Maybe(Body)] /\ Known /\ screen.plan \in Maybe(Plans)
  BY ScreenFacts DEF WritesInv, Types
<1>2. /\ body' = [body EXCEPT ![i] = b] /\ Persist(i, b) /\ body[i] = None
      /\ Seen(screen.plan) \in 0..(MaxRevision - 1)
  BY DEF SubmitAction, Fresh
<1>3. b \in Body /\ b.expected \in 0..(MaxRevision - 1)
  <2>1. screen.plan # None
    BY <1>2, ClientWritesAssumption DEF Seen
  <2>2. screen.plan \in Plans
    BY <1>1, <2>1 DEF Maybe
  <2> DEFINE e == Seen(screen.plan)
  <2>3. e \in 0..(MaxRevision - 1)
    BY <1>2
  <2>4. b = [plan |-> screen.plan, expected |-> e]
    OBVIOUS
  <2> HIDE DEF e, b
  <2>5. e \in Revisions
    BY <2>3, ClientWritesAssumption DEF Revisions
  <2> QED  BY <2>2, <2>3, <2>4, <2>5 DEF Body, Maybe
<1> HIDE DEF b
<1>4. /\ body' \in [Ids -> Maybe(Body)] /\ body'[i] = b
      /\ \A k \in Ids \ {i} : body'[k] = body[k]
  BY <1>1, <1>2, <1>3 DEF Maybe
<1>5. \A k \in Ids : body[k] # None => body'[k] # None
  BY <1>2, <1>4
<1>6. \A k \in Ids : body'[k] # None =>
          body'[k].plan = k \/ body'[k].expected \in 0..(MaxRevision - 1)
  BY <1>1, <1>3, <1>4 DEF Known
<1> QED  BY <1>2, <1>3, <1>4, <1>5, <1>6, PersistKeeps

LEMMA RetryPendingKeeps ==
  ASSUME WritesInv, RetryPending
  PROVE  WritesInv'
PROOF
<1> DEFINE i == screen.pending
           b == body[i]
<1>1. /\ Types /\ Known /\ body \in [Ids -> Maybe(Body)] /\ i \in Maybe(Ids)
  BY ScreenFacts DEF WritesInv, Types
<1>2. i # None /\ Persist(i, b) /\ body' = body
  BY DEF RetryPending
<1>3. i \in Ids /\ body[i] # None
  BY <1>1, <1>2 DEF Known, Maybe
<1>4. b \in Body
  BY <1>1, <1>3, BodyFacts
<1>5. \A k \in Ids : body'[k] # None =>
          body'[k].plan = k \/ body'[k].expected \in 0..(MaxRevision - 1)
  BY <1>1, <1>2 DEF Known
<1>6. body'[i] = b /\ \A k \in Ids : body[k] # None => body'[k] # None
  BY <1>2
<1>7. body' \in [Ids -> Maybe(Body)]
  BY <1>1, <1>2
<1> HIDE DEF i, b
<1> QED  BY <1>2, <1>3, <1>4, <1>5, <1>6, <1>7, PersistKeeps

LEMMA DiscardPendingKeeps ==
  ASSUME WritesInv, DiscardPending
  PROVE  WritesInv'
PROOF
<1> DEFINE i == screen.pending
           l == IF IsStart(i) THEN <<"clear">> ELSE <<"clear", "get">>
<1>1. /\ Types /\ Known /\ UnknownIsKept /\ i \in Maybe(Ids) /\ fate \in [Ids -> Fates]
  BY ScreenFacts DEF WritesInv, Types
<1>2. /\ i # None /\ Begins("discard", i, body[i].plan, l)
      /\ fate' = [fate EXCEPT ![i] = "discarded"]
      /\ UNCHANGED <<body, server, network, store, screen, cached>>
  BY DEF DiscardPending
<1>3. i \in Ids /\ body[i] # None
  BY <1>1, <1>2 DEF Known, Maybe
<1>4. body[i].plan \in Plans /\ body[i].plan # None
  BY <1>1, <1>3, BodyFacts
<1> HIDE DEF i
<1>5. /\ fate' \in [Ids -> Fates] /\ fate'[i] = "discarded"
      /\ \A k \in Ids \ {i} : fate'[k] = fate[k]
  <2>1. "discarded" \in Fates
    BY DEF Fates
  <2> QED  BY <1>1, <1>2, <1>3, <2>1
<1>6. UnknownIsKept' /\ Grown
  BY <1>1, <1>2, <1>5 DEF UnknownIsKept, Grown, Settled
<1>7. l \in Lists /\ (l = <<"clear">> \/ l = <<"clear", "get">>)
  BY ListsAre
<1> HIDE DEF l
<1>8. PICK j \in Jobs :
         /\ job' \in [Jobs -> JobType] /\ queue' \in Seq(Jobs) /\ InLine' /\ Moved(j) /\ Sound(j)'
  <2>1. /\ "discard" \in Kinds /\ body[i].plan \in Maybe(Plans) /\ body'[i] # None
        /\ fate'[i] \notin {"unsent", "sent"}
    BY <1>2, <1>3, <1>4, <1>5 DEF Kinds, Maybe
  <2> QED  BY <1>1, <1>2, <1>4, <1>7, <2>1, BegunFacts
<1>9. /\ screen' \in ScreenType /\ cached' \in [Plans -> Maybe(Revisions)]
      /\ screen'.pending \in {screen.pending, None}
  BY <1>1, <1>2 DEF Types
<1>10. UNCHANGED <<body, server, network, store>>
  BY <1>2
<1> QED  BY <1>5, <1>6, <1>8, <1>9, <1>10, SettlingStep

LEMMA ReloadKeeps ==
  ASSUME WritesInv, Reload
  PROVE  WritesInv'
PROOF
<1> DEFINE i == screen.pending
           l == IF i = None THEN <<"get">> ELSE <<"get", "clear">>
<1>1. /\ Types /\ Known /\ i \in Maybe(Ids) /\ screen \in ScreenType
      /\ screen.plan \in Maybe(Plans)
  BY ScreenFacts DEF WritesInv, Types
<1>2. /\ screen.plan # None /\ screen' = [screen EXCEPT !.failed = FALSE]
      /\ Begins("reload", i, screen.plan, l)
      /\ UNCHANGED <<body, server, network, store, cached, fate>>
  BY DEF Reload
<1>3. i # None => body'[i] # None
  BY <1>1, <1>2 DEF Known
<1>4. screen' \in ScreenType /\ screen'.pending \in {screen.pending, None}
  BY <1>1, <1>2 DEF ScreenType
<1>5. l \in Lists /\ (l = <<"get">> \/ (l = <<"get", "clear">> /\ i # None))
  BY ListsAre
<1> HIDE DEF i, l
<1>6. PICK j \in Jobs :
         /\ job' \in [Jobs -> JobType] /\ queue' \in Seq(Jobs) /\ InLine' /\ Moved(j) /\ Sound(j)'
  <2>1. "reload" \in Kinds
    BY DEF Kinds
  <2> QED  BY <1>1, <1>2, <1>3, <1>5, <2>1, BegunFacts
<1>7. cached' \in [Plans -> Maybe(Revisions)]
  BY <1>1, <1>2 DEF Types
<1> QED  BY <1>2, <1>4, <1>6, <1>7, QuietStep

(* What is under way in the storage when the screen goes, goes on.         *)
LEMMA LeaveKeeps ==
  ASSUME WritesInv, Leave, cached' \in [Plans -> Maybe(Revisions)]
  PROVE  WritesInv'
PROOF
<1>1. Types /\ Known /\ InLine /\ UnknownIsKept /\ Range(queue) = Waiting
  BY DEF WritesInv, InLine
<1>2. /\ screen' = Absent
      /\ job' = [j \in Jobs |->
                   IF j \in Waiting
                   THEN [job[j] EXCEPT !.kind = "left", !.steps = <<Head(job[j].steps)>>,
                                       !.plan = None]
                   ELSE Idle]
      /\ UNCHANGED <<body, server, network, store, queue, fate>>
  BY <1>1 DEF Leave
<1>3. ASSUME NEW j \in Jobs
      PROVE  /\ job'[j] \in JobType /\ Sound(j)'
             /\ job'[j].steps \in Saving \cup Clearing <=> j \in Waiting
  <2>1. CASE j \in Waiting
    <3> DEFINE l == <<Head(job[j].steps)>>
               w == [job[j] EXCEPT !.kind = "left", !.steps = l, !.plan = None]
    <3>1. /\ Sound(j) /\ job[j] \in JobType /\ job[j].steps \in Lists
          /\ job[j].steps \in Saving \cup Clearing
      BY <1>1, <2>1, JobFacts DEF WritesInv, Waiting
    <3>2. job'[j] = w
      BY <1>2, <2>1
    <3>3. /\ job[j].steps \in Saving => l = <<"save">>
          /\ job[j].steps \in Clearing => l = <<"clear">>
      BY <3>1, ListFacts
    <3>4. l \in Lists /\ "left" \in Kinds /\ None \in Maybe(Plans)
      BY <3>1, <3>3, ListsAre DEF Kinds, Maybe
    <3> HIDE DEF l
    <3>5. /\ w \in JobType /\ w.steps = l /\ w.id = job[j].id /\ w.at = job[j].at
          /\ w.kind = "left"
      BY <3>1, <3>4 DEF JobType
    <3> HIDE DEF w
    <3>6. job[j].id # None /\ body[job[j].id] # None
      BY <3>1 DEF Sound
    <3>7. CASE job[j].steps \in Saving
      <4>1. /\ l \in Saving /\ l # <<"save", "post">>
            /\ l \notin Clearing \cup Getting \cup Posting \cup {<<"get", "clear">>}
            /\ l # <<"clear", "get">>
        BY <3>3, <3>7 DEF Saving, Clearing, Getting, Posting
      <4>2. job[j].at = "checked" => HasTurn(j) /\ store \in {None, job[j].id}
        BY <3>1, <3>7 DEF Sound
      <4>3. HasTurn(j) => HasTurn(j)'
        BY <1>2 DEF HasTurn
      <4>4. Sound(j)'
        BY <1>2, <3>2, <3>5, <3>6, <4>1, <4>2, <4>3 DEF Sound
      <4> QED  BY <2>1, <3>2, <3>5, <4>1, <4>4
    <3>8. CASE job[j].steps \in Clearing
      <4>1. /\ l \in Clearing /\ l # <<"clear", "get">>
            /\ l \notin Saving \cup Getting \cup Posting \cup {<<"get", "clear">>}
            /\ l # <<"save", "post">>
        BY <3>3, <3>8 DEF Saving, Clearing, Getting, Posting
      <4>2. /\ job[j].at = "checked" => HasTurn(j) /\ store = job[j].id
            /\ Settled(job[j].id)
        BY <3>1, <3>8 DEF Sound
      <4>3. HasTurn(j) => HasTurn(j)'
        BY <1>2 DEF HasTurn
      <4>4. Sound(j)'
        BY <1>2, <3>2, <3>5, <3>6, <4>1, <4>2, <4>3 DEF Sound, Settled
      <4> QED  BY <2>1, <3>2, <3>5, <4>1, <4>4
    <3> QED  BY <3>1, <3>7, <3>8
  <2>2. CASE j \notin Waiting
    <3>1. job'[j] = Idle
      BY <1>2, <2>2
    <3>2. <<>> \notin Saving \cup Clearing
      BY DEF Saving, Clearing
    <3> QED  BY <2>2, <3>1, <3>2, IdleFacts, EndsSound
  <2> QED  BY <2>1, <2>2
<1>4. job' \in [Jobs -> JobType]
  BY <1>2, <1>3
<1>5. Waiting' = Waiting
  BY <1>3 DEF Waiting
<1>6. InLine'
  BY <1>1, <1>2, <1>5 DEF InLine
<1>7. Types'
  BY <1>1, <1>2, <1>4, AbsentFacts DEF Types, server
<1>8. Known'
  BY <1>1, <1>2, AbsentFacts DEF Known
<1>9. UnknownIsKept'
  BY <1>1, <1>2, KeptUntouched
<1> QED  BY <1>3, <1>6, <1>7, <1>8, <1>9 DEF WritesInv

(* Nothing is under way, as at the start.                                  *)
LEMMA NothingUnderWay ==
  ASSUME job = [j \in Jobs |-> Idle], queue = <<>>
  PROVE  /\ job \in [Jobs -> JobType] /\ queue \in Seq(Jobs) /\ InLine
         /\ \A j \in Jobs : Sound(j)
PROOF
<1>1. \A j \in Jobs : job[j] = Idle
  OBVIOUS
<1>2. <<>> \notin Saving \cup Clearing \cup Posting \cup Getting
  BY DEF Saving, Clearing, Posting, Getting
<1>3. Waiting = {}
  BY <1>1, <1>2, IdleFacts DEF Waiting
<1>4. queue \in Seq(Jobs) /\ Range(queue) = {} /\ Len(queue) = 0
  <2>1. queue \in Seq(Jobs) /\ Len(queue) = 0
    OBVIOUS
  <2>2. Range(queue) = {}
    BY DEF Range
  <2> QED  BY <2>1, <2>2
<1>5. InLine
  BY <1>3, <1>4 DEF InLine, Once
<1>6. ASSUME NEW j \in Jobs  PROVE Sound(j)
  <2>1. job[j].steps = <<>> /\ job[j].id = None
    BY <1>1, IdleFacts
  <2> QED  BY <1>2, <2>1 DEF Sound, Saving, Clearing, Getting
<1> QED  BY <1>1, <1>4, <1>5, <1>6, IdleFacts

LEMMA CrashKeeps ==
  ASSUME WritesInv, Crash
  PROVE  WritesInv'
PROOF
<1>1. Types /\ Known /\ UnknownIsKept
  BY DEF WritesInv
<1>2. /\ screen' = Absent /\ job' = [j \in Jobs |-> Idle] /\ queue' = <<>>
      /\ cached' = [p \in Plans |-> None]
      /\ UNCHANGED <<body, server, network, store, fate>>
  BY DEF Crash
<1>3. /\ job' \in [Jobs -> JobType] /\ queue' \in Seq(Jobs) /\ InLine'
      /\ \A j \in Jobs : Sound(j)'
  <2>1. /\ \A j \in Jobs : job'[j] = Idle
        /\ job' \in [Jobs -> JobType] /\ queue' \in Seq(Jobs) /\ Len(queue') = 0
    BY <1>2, IdleFacts
  <2>2. \A j \in Jobs : Sound(j)'
    BY <2>1, IdleFacts, EndsSound
  <2>3. <<>> \notin Saving \cup Clearing
    BY DEF Saving, Clearing
  <2>4. Waiting' = {}
    BY <2>1, <2>3, IdleFacts DEF Waiting
  <2>5. ASSUME NEW x  PROVE x \notin Range(queue')
    <3>1. x \in Range(queue') <=> \E a \in 1..Len(queue') : queue'[a] = x
      BY <2>1, RangeIs
    <3>2. \A a \in 1..Len(queue') : FALSE
      BY <2>1
    <3> QED  BY <3>1, <3>2
  <2>6. InLine'
    BY <2>1, <2>4, <2>5 DEF InLine, Once
  <2> QED  BY <2>1, <2>2, <2>6
<1>4. cached' \in [Plans -> Maybe(Revisions)]
  BY <1>2 DEF Maybe
<1>5. Types'
  BY <1>1, <1>2, <1>3, <1>4, AbsentFacts DEF Types, server
<1>6. Known'
  BY <1>1, <1>2, AbsentFacts DEF Known
<1>7. UnknownIsKept'
  BY <1>1, <1>2, KeptUntouched
<1> QED  BY <1>3, <1>5, <1>6, <1>7 DEF WritesInv

-----------------------------------------------------------------------------
(* The invariant is inductive.                                             *)
LEMMA WritesInvInit ==
  ASSUME Init
  PROVE  WritesInv
PROOF
<1>1. /\ job \in [Jobs -> JobType] /\ queue \in Seq(Jobs) /\ InLine
      /\ \A j \in Jobs : Sound(j)
  BY NothingUnderWay DEF Init
<1>2. /\ body = [i \in Ids |-> None] /\ journal = [i \in Ids |-> None]
      /\ revision = [p \in Plans |-> IF p = 0 THEN 0 ELSE None]
      /\ cached = [p \in Plans |-> None] /\ fate = [i \in Ids |-> "unsent"]
      /\ network = {} /\ store = None /\ screen = Absent
  BY DEF Init
<1>3. body \in [Ids -> Maybe(Body)] /\ journal \in [Ids -> Maybe(Revisions)]
  BY <1>2 DEF Maybe
<1>4. revision \in [Plans -> Maybe(Revisions)]
  <2>1. 0 \in Revisions
    BY ClientWritesAssumption DEF Revisions
  <2> QED  BY <1>2, <2>1 DEF Maybe
<1>5. cached \in [Plans -> Maybe(Revisions)] /\ fate \in [Ids -> Fates]
  BY <1>2 DEF Maybe, Fates
<1>6. store \in Maybe(Ids) /\ network \in SUBSET Ids /\ screen \in ScreenType
  BY <1>2, AbsentFacts DEF Maybe
<1>7. Types
  BY <1>1, <1>3, <1>4, <1>5, <1>6 DEF Types
<1>8. Known
  BY <1>2, AbsentFacts DEF Known
<1>9. UnknownIsKept
  BY <1>2 DEF UnknownIsKept
<1> QED  BY <1>1, <1>7, <1>8, <1>9 DEF WritesInv

LEMMA WritesInvStep ==
  ASSUME WritesInv, [Next]_vars
  PROVE  WritesInv'
PROOF
<1>1. ASSUME NEW j \in Jobs, JobStep(j)  PROVE WritesInv'
  BY <1>1, SaveChecksKeeps, SaveWritesKeeps, SaveRejectedKeeps, LooksKeeps, ClearChecksKeeps,
     ClearRemovesKeeps, ClearFailsKeeps, HydratesKeeps, HydratedKeeps, PostAnsweredKeeps,
     PostRefusedKeeps, PostTimesOutKeeps, GetServedKeeps, GetRepliesKeeps, GetFailsKeeps
     DEF JobStep
<1>2. ASSUME NEW i \in Ids, Serves(i) \/ SubmitStart(i) \/ SubmitAction(i)  PROVE WritesInv'
  BY <1>2, ServesKeeps, SubmitStartKeeps, SubmitActionKeeps
<1>3. ASSUME NEW p \in Plans, OtherDevice(p)  PROVE WritesInv'
  BY <1>3, OtherDeviceKeeps
<1>4. ASSUME NEW p \in Plans \cup {None}, Mount(p)  PROVE WritesInv'
  BY <1>4, MountKeeps
<1>5. CASE Load \/ RetryPending \/ DiscardPending \/ Reload
  BY <1>5, LoadKeeps, RetryPendingKeeps, DiscardPendingKeeps, ReloadKeeps
<1>6. CASE Exit
  <2>1. Leave
    BY <1>6 DEF Exit
  <2>2. cached' \in [Plans -> Maybe(Revisions)]
    BY <1>6 DEF Exit, WritesInv, Types
  <2> QED  BY <2>1, <2>2, LeaveKeeps
<1>7. CASE SessionChanges
  <2>1. Leave /\ cached' = [p \in Plans |-> None]
    BY <1>7 DEF SessionChanges
  <2>2. cached' \in [Plans -> Maybe(Revisions)]
    BY <2>1 DEF Maybe
  <2> QED  BY <2>1, <2>2, LeaveKeeps
<1>8. CASE Crash
  BY <1>8, CrashKeeps
<1>9. CASE UNCHANGED vars
  <2>1. UNCHANGED <<body, journal, revision, network, store, queue, job, screen, cached, fate>>
    BY <1>9 DEF vars, server
  <2>2. InLine' /\ (\A j \in Jobs : Sound(j)') /\ UnknownIsKept'
    BY <2>1, StillSound
  <2>3. Types' /\ Known'
    BY <2>1 DEF WritesInv, Types, Known
  <2> QED  BY <2>2, <2>3 DEF WritesInv
<1> QED  BY <1>1, <1>2, <1>3, <1>4, <1>5, <1>6, <1>7, <1>8, <1>9 DEF Next

(* Everything named is known, the storage's queue is the saves and clears  *)
(* under way, and what each job relies on is so, in every state.           *)
THEOREM WritesInvariant == Spec => []WritesInv
PROOF
<1>1. Init => WritesInv
  BY WritesInvInit
<1>2. WritesInv /\ [Next]_vars => WritesInv'
  BY WritesInvStep
<1> QED  BY <1>1, <1>2, PTL DEF Spec

(* Every variable has its type, and the queue of the owner's storage holds *)
(* exactly the saves and clears that were called and have not settled,     *)
(* each once, for any number of writes, of plans and of jobs.              *)
THEOREM WritesTypeCorrect == Spec => []TypeOK
PROOF
<1>1. ASSUME WritesInv  PROVE TypeOK
  <2> DEFINE Steps == {"read", "save", "post", "look", "clear", "get"}
             Queued == {j \in Jobs : job[j].steps # <<>> /\ Head(job[j].steps) \in {"save", "clear"}}
  <2>1. Types /\ Once(queue) /\ Range(queue) = Waiting
    BY <1>1 DEF WritesInv, InLine
  <2>2. \A j \in Jobs : Range(job[j].steps) \subseteq Steps
    <3>1. ASSUME NEW j \in Jobs  PROVE Range(job[j].steps) \subseteq Steps
      <4>1. job[j].steps \in Lists
        BY <2>1, JobFacts
      <4> QED  BY <4>1, ListFacts
    <3> QED  BY <3>1
  <2>3. Queued = Waiting
    <3>1. ASSUME NEW j \in Jobs  PROVE j \in Queued <=> j \in Waiting
      <4>1. job[j].steps \in Lists
        BY <2>1, JobFacts
      <4> QED  BY <4>1, ListFacts DEF Waiting
    <3>2. Waiting \subseteq Jobs /\ Queued \subseteq Jobs
      BY DEF Waiting
    <3> QED  BY <3>1, <3>2
  <2>4. Len(queue) = Cardinality(Waiting)
    <3>1. queue \in Seq(Jobs)
      BY <2>1 DEF Types
    <3>2. Len(queue) = Cardinality(Range(queue))
      BY <2>1, <3>1, OnceCounts
    <3> QED  BY <2>1, <3>2
  <2> HIDE DEF Queued, Steps
  <2>5. /\ \A j \in Jobs : Range(job[j].steps) \subseteq Steps
        /\ Range(queue) = Queued /\ Len(queue) = Cardinality(Queued)
    BY <2>1, <2>2, <2>3, <2>4
  <2> USE DEF Queued, Steps
  <2> QED  BY <2>1, <2>5 DEF TypeOK, Types, Body, Revisions, Maybe, ScreenType, Fates
<1> QED  BY <1>1, WritesInvariant, PTL

(* A write that was sent stays recorded on the device until a reply, the   *)
(* owner or a manual reload settled it: only the job whose turn it is      *)
(* changes the record, a save finds its place free, and a clear is of a    *)
(* write that is settled.                                                  *)
THEOREM UnknownStaysRecorded == Spec => []UnknownIsKept
PROOF
<1>1. WritesInv => UnknownIsKept
  BY DEF WritesInv
<1> QED  BY <1>1, WritesInvariant, PTL

-----------------------------------------------------------------------------
(* What this device was told.  The second invariant: what the server holds *)
(* only grows, a job keeps to what its kind does, and an answer is in the  *)
(* view of its plan or its record is still there.                          *)
Over          == GivenUp \cup {"refused"}
Reached(p, r) == revision[p] # None /\ revision[p] >= r

(* The server is never behind what the device knows of it.                 *)
Told ==
    /\ \A i \in Ids : fate[i] # "unsent" => body[i] # None
    /\ \A i \in Ids : journal[i] # None => body[i] # None /\ Reached(body[i].plan, journal[i])
    /\ \A p \in Ids : revision[p] # None => IsStart(p) /\ journal[p] # None
    /\ \A i \in Ids : body[i] # None /\ ~IsStart(i) => Reached(body[i].plan, body[i].expected)
    /\ \A p \in Plans : cached[p] # None => Reached(p, cached[p])
    /\ \A i \in Ids : fate[i] = "answered" => journal[i] # None
    /\ \A i \in Ids : fate[i] = "refused" => Refused(i)

(* What no step takes back.                                                *)
Onward ==
    /\ \A i \in Ids : body[i] # None => body'[i] = body[i]
    /\ \A i \in Ids : journal[i] # None => journal'[i] = journal[i]
    /\ \A p \in Plans : revision[p] # None => revision'[p] # None /\ revision'[p] >= revision[p]
    /\ \A i \in Ids : /\ fate[i] # "unsent" => fate'[i] # "unsent"
                      /\ fate[i] \in GivenUp => fate'[i] \in GivenUp
                      /\ fate[i] \in Over => fate'[i] \in Over

LEMMA NumberFacts ==
  /\ Revisions \subseteq Nat /\ None \notin Revisions /\ None \notin Ids /\ None \notin Plans
  /\ Ids \subseteq Plans /\ Ids \subseteq Nat
BY ClientWritesAssumption DEF Revisions, Ids, Plans

LEMMA RevisionFacts ==
  ASSUME Types, NEW p \in Plans, revision[p] # None
  PROVE  revision[p] \in Nat /\ revision[p] \in Revisions
BY NumberFacts DEF Types, Maybe

LEMMA ReachedOnward ==
  ASSUME Types, Types', Onward, NEW p \in Plans, NEW r \in Revisions, Reached(p, r)
  PROVE  revision'[p] # None /\ revision'[p] >= r
PROOF
<1>1. revision[p] \in Nat /\ revision'[p] # None /\ revision'[p] >= revision[p] /\ r \in Nat
  BY RevisionFacts, NumberFacts DEF Onward, Reached
<1>2. revision'[p] \in Nat
  BY <1>1, NumberFacts DEF Types, Maybe
<1> QED  BY <1>1, <1>2 DEF Reached

LEMMA FatesOnward ==
  ASSUME fate \in [Ids -> Fates], NEW i \in Ids, NEW what \in Fates \ {"unsent"},
         fate' = Fated(i, what), what = "answered" => fate[i] # "refused"
  PROVE  /\ fate' \in [Ids -> Fates]
         /\ \A k \in Ids \ {i} : fate'[k] = fate[k]
         /\ fate'[i] \in {fate[i], what} /\ fate'[i] # "unsent"
         /\ \A k \in Ids : /\ fate[k] # "unsent" => fate'[k] # "unsent"
                           /\ fate[k] \in GivenUp => fate'[k] \in GivenUp
                           /\ fate[k] \in Over => fate'[k] \in Over
PROOF
<1> DEFINE v == IF fate[i] \in GivenUp \/ (what = "sent" /\ fate[i] # "unsent")
                THEN fate[i] ELSE what
<1>1. fate' = [fate EXCEPT ![i] = v]
  BY DEF Fated, GivenUp
<1>2. v \in Fates /\ v \in {fate[i], what} /\ v # "unsent"
  BY DEF GivenUp
<1>3. /\ fate[i] \in GivenUp => v = fate[i]
      /\ fate[i] \in Over => v \in Over
  <2>1. fate[i] \in Over => fate[i] \in GivenUp \/ fate[i] = "refused"
    BY DEF Over
  <2>2. what = "refused" \/ what = "sent" \/ what \in GivenUp \/ fate[i] # "refused"
    BY DEF Fates, GivenUp
  <2> QED  BY <2>1, <2>2 DEF Over
<1> HIDE DEF v
<1>4. /\ fate' \in [Ids -> Fates] /\ fate'[i] = v
      /\ \A k \in Ids \ {i} : fate'[k] = fate[k]
  BY <1>1, <1>2
<1> QED  BY <1>2, <1>3, <1>4

LEMMA QuietOnward ==
  ASSUME Types, UNCHANGED <<body, journal, revision>>,
         \A k \in Ids : /\ fate[k] # "unsent" => fate'[k] # "unsent"
                        /\ fate[k] \in GivenUp => fate'[k] \in GivenUp
                        /\ fate[k] \in Over => fate'[k] \in Over
  PROVE  Onward
PROOF
<1>1. \A p \in Plans : revision[p] # None => revision'[p] >= revision[p]
  BY RevisionFacts
<1> QED  BY <1>1 DEF Onward

LEMMA SameOnward ==
  ASSUME Types, UNCHANGED <<body, journal, revision, fate>>
  PROVE  Onward
BY QuietOnward

(* A step that asks nothing of the server.                                 *)
LEMMA ToldQuiet ==
  ASSUME Told, UNCHANGED <<body, journal, revision>>,
         \A i \in Ids : \/ fate'[i] = fate[i]
                        \/ /\ body[i] # None
                           /\ fate'[i] = "answered" => journal[i] # None
                           /\ fate'[i] = "refused" => Refused(i),
         \A p \in Plans : \/ cached'[p] \in {cached[p], None}
                          \/ Reached(p, cached'[p])
  PROVE  Told'
PROOF
<1>1. \A i \in Ids : fate'[i] # "unsent" => body'[i] # None
  BY DEF Told
<1>2. \A i \in Ids : journal'[i] # None =>
          body'[i] # None /\ revision'[body'[i].plan] # None /\ revision'[body'[i].plan] >= journal'[i]
  BY DEF Told, Reached
<1>3. \A p \in Ids : revision'[p] # None => body'[p].plan = p /\ journal'[p] # None
  BY DEF Told, IsStart
<1>4. \A i \in Ids : body'[i] # None /\ body'[i].plan # i =>
          revision'[body'[i].plan] # None /\ revision'[body'[i].plan] >= body'[i].expected
  BY DEF Told, Reached, IsStart
<1>5. \A p \in Plans : cached'[p] # None => revision'[p] # None /\ revision'[p] >= cached'[p]
  BY DEF Told, Reached
<1>6. \A i \in Ids : fate'[i] = "answered" => journal'[i] # None
  BY DEF Told
<1>7. \A i \in Ids : fate'[i] = "refused" =>
          /\ journal'[i] = None /\ body'[i].plan # i
          /\ revision'[body'[i].plan] # body'[i].expected
  BY DEF Told, Refused, IsStart
<1> QED  BY <1>1, <1>2, <1>3, <1>4, <1>5, <1>6, <1>7 DEF Told, Reached, Refused, IsStart

LEMMA SeedReaches ==
  ASSUME Types, NEW p \in Plans, NEW r \in Revisions, Reached(p, r), Seed(p, r)
  PROVE  /\ \A q \in Plans \ {p} : cached'[q] = cached[q]
         /\ cached'[p] \in {cached[p], r} /\ cached'[p] # None
         /\ cached'[p] \in Revisions /\ cached'[p] >= r
         /\ cached[p] # None => cached'[p] >= cached[p]
         /\ \A q \in Plans : cached'[q] \in {cached[q], None} \/ Reached(q, cached'[q])
PROOF
<1>1. cached \in [Plans -> Maybe(Revisions)] /\ r \in Nat /\ r # None
  BY NumberFacts DEF Types
<1>2. cached' = [cached EXCEPT ![p] = KeepLatest(cached[p], r)]
  BY DEF Seed
<1>3. cached[p] # None => cached[p] \in Nat /\ cached[p] \in Revisions
  BY <1>1, NumberFacts DEF Maybe
<1> DEFINE v == KeepLatest(cached[p], r)
<1>4. /\ v \in {cached[p], r} /\ v # None /\ v \in Revisions /\ v >= r
      /\ cached[p] # None => v >= cached[p]
  BY <1>1, <1>3 DEF KeepLatest
<1>5. cached' = [cached EXCEPT ![p] = v]
  BY <1>2
<1> HIDE DEF v
<1>6. cached'[p] = v /\ \A q \in Plans \ {p} : cached'[q] = cached[q]
  BY <1>1, <1>5
<1> QED  BY <1>4, <1>6

-----------------------------------------------------------------------------
(* Jobs keep to what their kind does.                                      *)
Shape(j) ==
    LET w == job[j]
    IN  /\ w.kind = "write" =>
               /\ w.steps \in {<<"save", "post">>, <<"post">>, <<"look">>, <<"get", "clear">>,
                               <<"clear">>}
               /\ w.id # None /\ w.plan = body[w.id].plan
        /\ w.kind = "left" => w.steps \in {<<"save">>, <<"clear">>}
        /\ w.steps \in Saving \cup Posting \cup {<<"look">>} => w.kind \in {"write", "left"}
        /\ w.steps \in Posting => fate[w.id] # "unsent"
        /\ w.steps = <<"read">> => w.kind = "hydrate"
        /\ w.steps = <<"get", "clear">> => w.kind \in {"write", "reload"}
        /\ w.steps \in Clearing =>
               \/ w.kind \in {"write", "left"} \/ fate[w.id] \in GivenUp
               \/ w.kind = "refused" /\ fate[w.id] \in Over
        /\ w.steps \in Saving \cup Clearing => w.at # "served"
        /\ w.at = "served" => /\ w.seen \in Revisions /\ w.plan \in Plans
                              /\ Reached(w.plan, w.seen)

Left == {j \in Jobs : job[j].kind = "left"}

(* Only the screen's one write is at its request, and nothing an earlier   *)
(* screen left is before it by then.                                       *)
Pairs ==
    /\ \A j, k \in Jobs : job[j].kind = "write" /\ job[k].kind = "write" => j = k
    /\ \A j \in Jobs : job[j].kind = "write" /\ job[j].steps \notin Saving => Left = {}
    /\ \A j, k \in Jobs : job[j].kind = "write" /\ job[k].kind = "refused" =>
                              job[j].id # job[k].id

First(L, q) == \A a, b \in 1..Len(q) : a < b /\ q[b] \in L => q[a] \in L

Orderly == (\A j \in Jobs : Shape(j)) /\ Pairs /\ First(Left, queue)

LEMMA FirstTail ==
  ASSUME NEW S, NEW q \in Seq(S), NEW L, First(L, q), q # <<>>
  PROVE  First(L, Tail(q))
PROOF
<1>1. /\ Len(q) \in Nat /\ Len(Tail(q)) = Len(q) - 1
      /\ \A a \in 1..(Len(q) - 1) : Tail(q)[a] = q[a + 1]
  OBVIOUS
<1>2. ASSUME NEW a \in 1..Len(Tail(q)), NEW b \in 1..Len(Tail(q)), a < b, Tail(q)[b] \in L
      PROVE  Tail(q)[a] \in L
  <2>1. a + 1 \in 1..Len(q) /\ b + 1 \in 1..Len(q) /\ a + 1 < b + 1
    BY <1>1, <1>2
  <2>2. Tail(q)[b] = q[b + 1] /\ Tail(q)[a] = q[a + 1]
    BY <1>1, <1>2
  <2> QED  BY <1>2, <2>1, <2>2 DEF First
<1> QED  BY <1>2 DEF First

LEMMA FirstAppend ==
  ASSUME NEW S, NEW q \in Seq(S), NEW x \in S, NEW L, First(L, q), x \notin L
  PROVE  First(L, Append(q, x))
PROOF
<1> DEFINE p == Append(q, x)
<1>1. /\ Len(q) \in Nat /\ Len(p) = Len(q) + 1 /\ p[Len(q) + 1] = x
      /\ \A a \in 1..Len(q) : p[a] = q[a]
  OBVIOUS
<1> HIDE DEF p
<1>2. ASSUME NEW a \in 1..Len(p), NEW b \in 1..Len(p), a < b, p[b] \in L
      PROVE  p[a] \in L
  <2>1. b # Len(q) + 1
    BY <1>1, <1>2
  <2>2. a \in 1..Len(q) /\ b \in 1..Len(q)
    BY <1>1, <1>2, <2>1
  <2> QED  BY <1>1, <1>2, <2>2 DEF First
<1> QED  BY <1>2 DEF First, p

(* What the set holds of others than those in the sequence is the same.    *)
LEMMA FirstOthers ==
  ASSUME NEW S, NEW q \in Seq(S), NEW L, NEW M, First(L, q),
         \A x \in Range(q) : x \in L <=> x \in M
  PROVE  First(M, q)
PROOF
<1>1. \A a \in 1..Len(q) : q[a] \in Range(q)
  BY RangeIs
<1> QED  BY <1>1 DEF First

LEMMA LinesUpFirst ==
  ASSUME queue \in Seq(Jobs), InLine, NEW j \in Jobs, j \in Waiting => HasTurn(j),
         NEW steps \in Lists, LinesUp(j, steps), First(Left, queue),
         \A k \in Jobs \ {j} : job'[k] = job[k], job'[j].kind # "left"
  PROVE  First(Left', queue')
PROOF
<1> DEFINE others == IF queue # <<>> /\ Head(queue) = j THEN Tail(queue) ELSE queue
<1>1. Once(queue) /\ Range(queue) = Waiting
  BY DEF InLine
<1>2. /\ others \in Seq(Jobs) /\ First(Left, others) /\ j \notin Range(others)
      /\ Range(others) \subseteq Jobs
  <2>1. CASE HasTurn(j)
    BY <1>1, <2>1, TailRange, FirstTail DEF HasTurn, Waiting
  <2>2. CASE ~HasTurn(j)
    BY <1>1, <2>2 DEF HasTurn, Waiting
  <2> QED  BY <2>1, <2>2
<1>3. queue' = IF steps \in Saving \cup Clearing THEN Append(others, j) ELSE others
  BY ListFacts DEF LinesUp
<1> HIDE DEF others
<1>4. \A x \in Range(others) : x \in Left <=> x \in Left'
  BY <1>2 DEF Left
<1>5. First(Left', others)
  BY <1>2, <1>4, FirstOthers
<1>6. j \notin Left'
  BY DEF Left
<1>7. CASE steps \in Saving \cup Clearing
  BY <1>2, <1>3, <1>5, <1>6, <1>7, FirstAppend
<1>8. CASE steps \notin Saving \cup Clearing
  BY <1>3, <1>5, <1>8
<1> QED  BY <1>7, <1>8

LEMMA BecomesIs ==
  ASSUME WritesInv, NEW j \in Jobs, NEW kind \in Kinds, NEW l \in Lists, Becomes(j, kind, l)
  PROVE  /\ \A k \in Jobs \ {j} : job'[k] = job[k]
         /\ LinesUp(j, l) /\ job'[j].steps = l /\ job'[j].at = "start"
         /\ l = <<>> => job'[j].kind = "idle" /\ job'[j].id = None
         /\ l # <<>> => /\ job'[j].id = job[j].id /\ job'[j].plan = job[j].plan
                        /\ job'[j].kind = kind
PROOF
<1> DEFINE w == IF l = <<>> THEN Idle
                ELSE [job[j] EXCEPT !.kind = kind, !.steps = l, !.at = "start", !.seen = None]
<1>1. job \in [Jobs -> JobType] /\ job[j] \in JobType
  BY DEF Types, WritesInv
<1>2. job' = [job EXCEPT ![j] = w]
  BY <1>1 DEF Becomes
<1>3. /\ w.steps = l /\ w.at = "start"
      /\ l = <<>> => w.kind = "idle" /\ w.id = None
      /\ l # <<>> => w.id = job[j].id /\ w.plan = job[j].plan /\ w.kind = kind
  BY <1>1, IdleFacts DEF JobType
<1> HIDE DEF w
<1> QED  BY <1>1, <1>2, <1>3 DEF Becomes

(* A job that does not take the step keeps its shape.                      *)
LEMMA ShapeOthers ==
  ASSUME WritesInv, WritesInv', Onward, NEW k \in Jobs, job'[k] = job[k], Shape(k)
  PROVE  Shape(k)'
PROOF
<1> DEFINE w == job[k]
<1>1. Types /\ Types' /\ Sound(k) /\ w.id \in Maybe(Ids)
  BY JobFacts DEF WritesInv
<1>2. w.id # None => w.id \in Ids /\ body[w.id] # None /\ body'[w.id] = body[w.id]
  BY <1>1 DEF Sound, Onward, Maybe
<1>3. w.steps \in Posting \cup Clearing => w.id # None
  BY <1>1 DEF Sound
<1>4. /\ w.steps \in Posting => fate'[w.id] # "unsent"
      /\ w.steps \in Clearing =>
             \/ w.kind \in {"write", "left"} \/ fate'[w.id] \in GivenUp
             \/ w.kind = "refused" /\ fate'[w.id] \in Over
  BY <1>2, <1>3 DEF Shape, Onward
<1>5. w.at = "served" => /\ w.seen \in Revisions /\ w.plan \in Plans
                         /\ revision'[w.plan] # None /\ revision'[w.plan] >= w.seen
  BY <1>1, ReachedOnward DEF Shape
<1>6. w.kind = "write" => w.id # None /\ w.plan = body'[w.id].plan
  BY <1>2 DEF Shape
<1>7. /\ w.kind = "write" =>
               w.steps \in {<<"save", "post">>, <<"post">>, <<"look">>, <<"get", "clear">>,
                               <<"clear">>}
      /\ w.kind = "left" => w.steps \in {<<"save">>, <<"clear">>}
      /\ w.steps \in Saving \cup Posting \cup {<<"look">>} => w.kind \in {"write", "left"}
      /\ w.steps = <<"read">> => w.kind = "hydrate"
      /\ w.steps = <<"get", "clear">> => w.kind \in {"write", "reload"}
      /\ w.steps \in Saving \cup Clearing => w.at # "served"
  BY DEF Shape
<1>8. job'[k] = w
  OBVIOUS
<1> HIDE DEF w
<1> QED  BY <1>4, <1>5, <1>6, <1>7, <1>8 DEF Shape, Reached

(* With the turn of the screen's own job, nothing an earlier one left is.  *)
LEMMA NoneLeft ==
  ASSUME WritesInv, Orderly, NEW j \in Jobs, HasTurn(j), job[j].kind # "left"
  PROVE  Left = {}
PROOF
<1>1. queue \in Seq(Jobs) /\ Range(queue) = Waiting /\ queue # <<>> /\ Head(queue) = j
  BY DEF WritesInv, Types, InLine, HasTurn
<1>2. Len(queue) \in Nat /\ Len(queue) >= 1 /\ queue[1] = j
  BY <1>1
<1>3. ASSUME NEW k \in Left  PROVE FALSE
  <2>1. k \in Jobs /\ job[k].steps \in {<<"save">>, <<"clear">>}
    BY <1>3 DEF Left, Orderly, Shape
  <2>2. k \in Waiting
    BY <2>1 DEF Waiting, Saving, Clearing
  <2>3. PICK b \in 1..Len(queue) : queue[b] = k
    BY <1>1, <2>2, RangeIs
  <2>4. b # 1
    BY <1>2, <1>3, <2>3 DEF Left
  <2>5. 1 \in 1..Len(queue) /\ 1 < b
    BY <1>2, <2>4
  <2>6. j \in Left
    BY <1>2, <1>3, <2>3, <2>5 DEF Orderly, First
  <2> QED  BY <2>6 DEF Left
<1> QED  BY <1>3

LEMMA BecomesOrderly ==
  ASSUME WritesInv, WritesInv', Orderly, Onward, NEW j \in Jobs, j \in Waiting => HasTurn(j),
         NEW kind \in Kinds, NEW l \in Lists, Becomes(j, kind, l),
         kind = job[j].kind \/ (kind = "refused" /\ job[j].kind = "write"),
         kind = "left" => l = <<>>,
         l # <<>> => Shape(j)'
  PROVE  Orderly'
PROOF
<1>1. /\ \A k \in Jobs \ {j} : job'[k] = job[k]
      /\ LinesUp(j, l) /\ job'[j].steps = l /\ job'[j].at = "start"
      /\ l = <<>> => job'[j].kind = "idle" /\ job'[j].id = None
      /\ l # <<>> => /\ job'[j].id = job[j].id /\ job'[j].plan = job[j].plan
                     /\ job'[j].kind = kind
  BY BecomesIs
<1>2. Types /\ InLine /\ queue \in Seq(Jobs)
  BY DEF WritesInv, Types
<1>3. Shape(j)'
  <2>1. CASE l = <<>>
    <3>1. <<>> \notin Saving \cup Clearing \cup Posting
      BY DEF Saving, Clearing, Posting
    <3>2. job'[j].kind = "idle" /\ job'[j].steps = <<>> /\ job'[j].at = "start"
      BY <1>1, <2>1
    <3> QED  BY <3>1, <3>2 DEF Shape
  <2>2. CASE l # <<>>
    BY <2>2
  <2> QED  BY <2>1, <2>2
<1>4. \A k \in Jobs : Shape(k)'
  BY <1>1, <1>3, ShapeOthers DEF Orderly
<1>5. job'[j].kind # "left"
  BY <1>1
<1>6. First(Left', queue')
  BY <1>1, <1>2, <1>5, LinesUpFirst DEF Orderly
<1>7. /\ \A k \in Jobs : job'[k].kind = "write" => job[k].kind = "write" /\ job'[k].id = job[k].id
      /\ \A k \in Jobs : job'[k].kind = "refused" =>
             /\ job'[k].id = job[k].id
             /\ job[k].kind = "refused" \/ (k = j /\ job[k].kind = "write")
      /\ Left' \subseteq Left
  BY <1>1, <1>5 DEF Left
<1>8. ASSUME NEW k \in Jobs, job'[k].kind = "write", job'[k].steps \notin Saving
      PROVE  Left' = {}
  <2>1. CASE k # j
    BY <1>1, <1>7, <1>8, <2>1 DEF Orderly, Pairs
  <2>2. CASE k = j /\ job[j].steps \in Saving
    <3>1. HasTurn(j) /\ job[j].kind = "write"
      BY <1>7, <1>8, <2>2 DEF Waiting
    <3> QED  BY <1>7, <3>1, NoneLeft
  <2>3. CASE k = j /\ job[j].steps \notin Saving
    BY <1>7, <1>8, <2>3 DEF Orderly, Pairs
  <2> QED  BY <2>1, <2>2, <2>3
<1>9. Pairs'
  <2>1. \A a, b \in Jobs : job'[a].kind = "write" /\ job'[b].kind = "write" => a = b
    BY <1>7 DEF Orderly, Pairs
  <2>2. \A a, b \in Jobs : job'[a].kind = "write" /\ job'[b].kind = "refused" =>
            job'[a].id # job'[b].id
    <3>1. ASSUME NEW a \in Jobs, NEW b \in Jobs, job'[a].kind = "write", job'[b].kind = "refused"
          PROVE  job'[a].id # job'[b].id
      <4>1. job[a].kind = "write" /\ job'[a].id = job[a].id /\ job'[b].id = job[b].id
        BY <1>7, <3>1
      <4>2. CASE job[b].kind = "refused"
        BY <4>1, <4>2 DEF Orderly, Pairs
      <4>3. CASE b = j /\ job[b].kind = "write"
        <5>1. a = b
          BY <4>1, <4>3 DEF Orderly, Pairs
        <5> QED  BY <3>1, <5>1
      <4> QED  BY <1>7, <3>1, <4>2, <4>3
    <3> QED  BY <3>1
  <2> QED  BY <1>8, <2>1, <2>2 DEF Pairs
<1> QED  BY <1>4, <1>6, <1>9 DEF Orderly

(* A job goes on within its step.                                          *)
LEMMA WithinOrderly ==
  ASSUME WritesInv, WritesInv', Orderly, Onward, NEW j \in Jobs, queue' = queue,
         \A k \in Jobs \ {j} : job'[k] = job[k],
         job'[j].kind = job[j].kind, job'[j].steps = job[j].steps,
         job'[j].id = job[j].id \/ job[j].kind = "hydrate",
         Shape(j)'
  PROVE  Orderly'
PROOF
<1>1. \A k \in Jobs : Shape(k)'
  BY ShapeOthers DEF Orderly
<1>2. Left' = Left
  BY DEF Left
<1>3. First(Left', queue')
  BY <1>2 DEF Orderly
<1>4. \A k \in Jobs : /\ job'[k].kind = job[k].kind /\ job'[k].steps = job[k].steps
                      /\ job[k].kind # "hydrate" => job'[k].id = job[k].id
  OBVIOUS
<1>5. Pairs'
  BY <1>2, <1>4 DEF Orderly, Pairs
<1> QED  BY <1>1, <1>3, <1>5 DEF Orderly

(* A new job takes its place.                                              *)
LEMMA BeginsIs ==
  ASSUME WritesInv, NEW kind \in Kinds, NEW id \in Maybe(Ids), NEW plan \in Maybe(Plans),
         NEW l \in Lists, Begins(kind, id, plan, l)
  PROVE  \E j \in Jobs :
            /\ job[j] = Idle /\ LinesUp(j, l) /\ j \notin Waiting
            /\ \A k \in Jobs \ {j} : job'[k] = job[k]
            /\ job'[j].kind = kind /\ job'[j].id = id /\ job'[j].plan = plan
            /\ job'[j].steps = l /\ job'[j].at = "start"
PROOF
<1>1. job \in [Jobs -> JobType]
  BY DEF WritesInv, Types
<1> DEFINE j == CHOOSE f \in Jobs : job[f] = Idle
           w == [Idle EXCEPT !.kind = kind, !.id = id, !.plan = plan, !.steps = l]
<1>2. j \in Jobs /\ job[j] = Idle /\ LinesUp(j, l) /\ job' = [job EXCEPT ![j] = w]
  BY DEF Begins
<1>3. /\ w.kind = kind /\ w.id = id /\ w.plan = plan /\ w.steps = l /\ w.at = "start"
  BY IdleFacts DEF JobType
<1>4. j \notin Waiting
  <2>1. <<>> \notin Saving \cup Clearing
    BY DEF Saving, Clearing
  <2> QED  BY <1>2, <2>1, IdleFacts DEF Waiting
<1> HIDE DEF j, w
<1> QED  BY <1>1, <1>2, <1>3, <1>4

LEMMA BeginsOrderly ==
  ASSUME WritesInv, WritesInv', Orderly, Onward, NEW j \in Jobs, NEW l \in Lists,
         job[j] = Idle, LinesUp(j, l), j \notin Waiting,
         \A k \in Jobs \ {j} : job'[k] = job[k],
         job'[j].kind \notin {"left", "refused"}, job'[j].steps = l, Shape(j)',
         job'[j].kind = "write" => /\ l \in Saving
                                   /\ \A k \in Jobs : job[k].kind # "write"
                                   /\ \A k \in Jobs : job[k].kind = "refused" =>
                                          job[k].id # job'[j].id
  PROVE  Orderly'
PROOF
<1>1. \A k \in Jobs : Shape(k)'
  BY ShapeOthers DEF Orderly
<1>2. First(Left', queue')
  <2>1. queue \in Seq(Jobs) /\ InLine
    BY DEF WritesInv, Types
  <2> QED  BY <2>1, LinesUpFirst DEF Orderly
<1>3. Left' = Left
  BY IdleFacts DEF Left
<1>4. Pairs'
  <2>1. \A a, b \in Jobs : job'[a].kind = "write" /\ job'[b].kind = "write" => a = b
    BY DEF Orderly, Pairs
  <2>2. \A a \in Jobs : job'[a].kind = "write" /\ job'[a].steps \notin Saving => Left' = {}
    BY <1>3 DEF Orderly, Pairs
  <2>3. \A a, b \in Jobs : job'[a].kind = "write" /\ job'[b].kind = "refused" =>
            job'[a].id # job'[b].id
    BY DEF Orderly, Pairs
  <2> QED  BY <2>1, <2>2, <2>3 DEF Pairs
<1> QED  BY <1>1, <1>2, <1>4 DEF Orderly

-----------------------------------------------------------------------------
(* An answer is in the view of its plan, or its record is still there.     *)

(* The view of p shows revision r, or will once anything is in it.         *)
Fine(p, r) ==
    /\ cached[p] # None => cached[p] >= r
    /\ cached[p] = None =>
          \A j \in Jobs : job[j].at = "served" /\ job[j].plan = p => job[j].seen >= r

Kept == \A p \in Plans : \A k \in Answers(p) : Fine(p, journal[k]) \/ store \in {k, p}

Posts(j) == job[j].steps \in Posting => store = job[j].id \/ fate[job[j].id] \in GivenUp

(* What proves a write settled shows every answer on its plan.             *)
Proves(j) ==
    job[j].kind = "write" /\ job[j].steps = <<"get", "clear">> /\ job[j].at = "served" =>
        \A k \in Answers(job[j].plan) : job[j].seen >= journal[k]

Clears(j) ==
    job[j].steps \in Clearing =>
        \A p \in Plans : \A k \in Answers(p) :
            job[j].id \in {k, p} => Fine(p, journal[k]) \/ (job[j].id # p /\ store = p)

Unsent(i)   == fate[i] = "unsent" /\ body[i] # None /\ ~IsStart(i)
After(i, k) == body[i].expected >= journal[k]

(* A save of an action that is not sent: it was decided after every answer *)
(* on its plan, or finds the place taken.                                  *)
Saves(j) ==
    job[j].steps \in Saving /\ Unsent(job[j].id) =>
        \A k \in Answers(body[job[j].id].plan) :
            \/ After(job[j].id, k)
            \/ /\ store \in {k, body[job[j].id].plan}
               /\ \A c \in Jobs : job[c].steps \in Clearing => job[c].id # store

Reads(j) ==
    job[j].steps = <<"read">> /\ job[j].id # None /\ Unsent(job[j].id) => store = job[j].id

Own(j) == Posts(j) /\ Proves(j) /\ Clears(j) /\ Saves(j) /\ Reads(j)

StoredAfter ==
    store # None /\ Unsent(store) => \A k \in Answers(body[store].plan) : After(store, k)

PendingStored ==
    screen.pending # None /\ Unsent(screen.pending) =>
        \/ store = screen.pending
        \/ \E j \in Jobs : job[j].kind = "write" /\ job[j].id = screen.pending

Seeing == Kept /\ (\A j \in Jobs : Own(j)) /\ StoredAfter /\ PendingStored

AnswersInv == Told /\ Orderly /\ Seeing

(* What most steps do to it.                                               *)
NoneAnswered == \A i \in Ids : fate'[i] = "answered" => fate[i] = "answered"

FinesKept ==
    \A p \in Plans : \A r \in Revisions : Fine(p, r) /\ Reached(p, r) => Fine(p, r)'

AsBefore(k) ==
    /\ job'[k].kind = job[k].kind /\ job'[k].id = job[k].id /\ job'[k].plan = job[k].plan
    /\ job'[k].steps = job[k].steps /\ job'[k].seen = job[k].seen
    /\ job'[k].at = "served" => job[k].at = "served"

LEMMA AnswerFacts ==
  ASSUME WritesInv, Told, NEW p \in Plans, NEW k \in Answers(p)
  PROVE  /\ k \in Ids /\ fate[k] = "answered" /\ body[k] # None /\ body[k].plan = p
         /\ journal[k] # None /\ journal[k] \in Revisions /\ journal[k] \in Nat
         /\ Reached(p, journal[k])
         /\ k # None /\ p # None
         /\ p \in Ids => fate[p] \notin GivenUp
PROOF
<1>1. k \in Ids /\ fate[k] = "answered" /\ body[k].plan = p /\ (p \in Ids => fate[p] \notin GivenUp)
  BY DEF Answers
<1>2. body[k] # None /\ journal[k] # None /\ Reached(p, journal[k])
  BY <1>1 DEF Told
<1>3. journal[k] \in Revisions
  BY <1>1, <1>2 DEF WritesInv, Types, Maybe
<1> QED  BY <1>1, <1>2, <1>3, NumberFacts

LEMMA AnswersOnward ==
  ASSUME WritesInv, Told, Onward, NoneAnswered, NEW p \in Plans, NEW k \in Answers(p)'
  PROVE  /\ k \in Answers(p) /\ body'[k] = body[k] /\ journal'[k] = journal[k]
         /\ fate'[k] = "answered" /\ (p \in Ids => fate'[p] \notin GivenUp)
PROOF
<1>1. /\ k \in Ids /\ fate'[k] = "answered" /\ body'[k].plan = p
      /\ p \in Ids => fate'[p] \notin GivenUp
  BY DEF Answers
<1>2. fate[k] = "answered"
  BY <1>1 DEF NoneAnswered
<1>3. body[k] # None /\ journal[k] # None
  BY <1>1, <1>2 DEF Told
<1>4. body'[k] = body[k] /\ journal'[k] = journal[k]
  BY <1>1, <1>3 DEF Onward
<1>5. p \in Ids => fate[p] \notin GivenUp
  BY <1>1 DEF Onward
<1> QED  BY <1>1, <1>2, <1>4, <1>5 DEF Answers

LEMMA UnsentOnward ==
  ASSUME WritesInv, Onward, NEW i \in Ids, body[i] # None, Unsent(i)'
  PROVE  Unsent(i) /\ body'[i] = body[i] /\ body[i].plan \in Plans
PROOF
<1>1. body'[i] = body[i]
  BY DEF Onward
<1>2. fate[i] = "unsent"
  BY DEF Onward, Unsent
<1>3. body[i].plan \in Plans
  BY BodyFacts DEF WritesInv
<1> QED  BY <1>1, <1>2, <1>3 DEF Unsent, IsStart

LEMMA FinesMoved ==
  ASSUME WritesInv, WritesInv', Orderly,
         \A k \in Jobs : job'[k].at = "served" =>
             \/ /\ job[k].at = "served"
                /\ job'[k].plan = job[k].plan /\ job'[k].seen = job[k].seen
             \/ job'[k].seen = revision[job'[k].plan],
         \A p \in Plans :
             \/ cached'[p] = cached[p]
             \/ /\ cached'[p] # None
                /\ cached[p] # None => cached'[p] >= cached[p]
                /\ cached[p] = None =>
                      \/ cached'[p] = revision[p]
                      \/ \E k \in Jobs : /\ job[k].at = "served" /\ job[k].plan = p
                                         /\ cached'[p] = job[k].seen
  PROVE  FinesKept
PROOF
<1>1. SUFFICES ASSUME NEW p \in Plans, NEW r \in Revisions, Fine(p, r), Reached(p, r)
               PROVE  Fine(p, r)'
  BY DEF FinesKept
<1>2. /\ revision[p] >= r /\ r \in Nat
      /\ cached[p] # None => cached[p] \in Nat
      /\ cached'[p] # None => cached'[p] \in Nat
  <2>1. cached \in [Plans -> Maybe(Revisions)] /\ cached' \in [Plans -> Maybe(Revisions)]
    BY DEF WritesInv, Types
  <2>2. revision[p] >= r
    BY <1>1 DEF Reached
  <2>3. Revisions \subseteq Nat /\ p \in Plans /\ r \in Revisions
    BY <1>1, NumberFacts
  <2>4. cached[p] \in Maybe(Revisions) /\ cached'[p] \in Maybe(Revisions)
    BY <2>1, <2>3
  <2> QED  BY <2>2, <2>3, <2>4 DEF Maybe
<1>3. CASE cached'[p] = cached[p]
  <2>1. cached[p] # None => cached'[p] >= r
    BY <1>1, <1>3 DEF Fine
  <2>2. ASSUME cached[p] = None, NEW k \in Jobs, job'[k].at = "served", job'[k].plan = p
        PROVE  job'[k].seen >= r
    <3>1. CASE job'[k].seen = revision[job'[k].plan]
      BY <1>2, <2>2, <3>1
    <3>2. CASE job'[k].seen # revision[job'[k].plan]
      BY <1>1, <2>2, <3>2 DEF Fine
    <3> QED  BY <3>1, <3>2
  <2> QED  BY <1>3, <2>1, <2>2 DEF Fine
<1>4. CASE cached'[p] # None /\ cached[p] # None /\ cached'[p] >= cached[p]
  <2>1. cached[p] >= r
    BY <1>1, <1>4 DEF Fine
  <2>2. cached'[p] >= r
    BY <1>2, <1>4, <2>1
  <2> QED  BY <1>4, <2>2 DEF Fine
<1>5. CASE cached'[p] # None /\ cached[p] = None /\ cached'[p] = revision[p]
  BY <1>2, <1>5 DEF Fine
<1>6. CASE /\ cached'[p] # None /\ cached[p] = None
           /\ \E k \in Jobs : /\ job[k].at = "served" /\ job[k].plan = p
                              /\ cached'[p] = job[k].seen
  <2>1. cached'[p] >= r
    BY <1>1, <1>6 DEF Fine
  <2> QED  BY <1>6, <2>1 DEF Fine
<1> QED  BY <1>3, <1>4, <1>5, <1>6

LEMMA FinesSame ==
  ASSUME WritesInv, WritesInv', Orderly, cached' = cached,
         \A k \in Jobs : job'[k].at = "served" =>
             /\ job[k].at = "served"
             /\ job'[k].plan = job[k].plan /\ job'[k].seen = job[k].seen
  PROVE  FinesKept
BY FinesMoved

(* The cache is emptied, or kept, and nothing is under way to fill it.     *)
LEMMA FinesEmptied ==
  ASSUME \A p \in Plans : cached'[p] \in {cached[p], None},
         \A k \in Jobs : job'[k].at # "served"
  PROVE  FinesKept
BY DEF FinesKept, Fine

LEMMA OwnSimple ==
  ASSUME NEW j \in Jobs,
         \/ job'[j].steps \in {<<>>, <<"get">>, <<"look">>}
         \/ job'[j].steps = <<"get", "clear">> /\ job'[j].at # "served"
         \/ job'[j].steps = <<"read">> /\ job'[j].id = None
  PROVE  Own(j)'
PROOF
<1>1. /\ job'[j].steps \notin Posting \cup Clearing \cup Saving
      /\ job'[j].steps = <<"get", "clear">> => job'[j].at # "served"
      /\ job'[j].steps = <<"read">> => job'[j].id = None
  BY DEF Posting, Clearing, Saving
<1> QED  BY <1>1 DEF Own, Posts, Proves, Clears, Saves, Reads

(* Beside a write that is past its save nothing else is saved, and what is *)
(* cleared is a write that is over.                                        *)
LEMMA AloneFacts ==
  ASSUME Orderly, NEW j \in Jobs, job[j].kind = "write", job[j].steps \notin Saving
  PROVE  /\ \A k \in Jobs : job[k].steps \notin Saving
         /\ \A k \in Jobs \ {j} : job[k].steps \in Clearing => fate[job[k].id] \in Over
PROOF
<1>1. Left = {}
  BY DEF Orderly, Pairs
<1>2. \A k \in Jobs \ {j} : job[k].kind \notin {"write", "left"}
  BY <1>1 DEF Orderly, Pairs, Left
<1>3. \A k \in Jobs : /\ job[k].steps \in Saving => job[k].kind \in {"write", "left"}
                      /\ job[k].steps \in Clearing =>
                            job[k].kind \in {"write", "left"} \/ fate[job[k].id] \in Over
  BY DEF Orderly, Shape, Over
<1> QED  BY <1>2, <1>3

(* An answer the view showed is shown after such a step.                   *)
LEMMA FineOnward ==
  ASSUME WritesInv, Told, Onward, NoneAnswered, FinesKept,
         NEW p \in Plans, NEW k \in Answers(p)', Fine(p, journal[k])
  PROVE  Fine(p, journal[k])'
PROOF
<1>1. /\ k \in Answers(p) /\ journal'[k] = journal[k] /\ journal[k] \in Revisions
      /\ Reached(p, journal[k])
  BY AnswersOnward, AnswerFacts
<1>2. PICK r \in Revisions : r = journal[k]
  BY <1>1
<1>3. Fine(p, r) /\ Reached(p, r)
  BY <1>1, <1>2
<1>4. Fine(p, r)'
  BY <1>3 DEF FinesKept
<1> QED  BY <1>1, <1>2, <1>4 DEF Fine

(* A step that answers nothing and takes no record away: M holds the jobs  *)
(* that take it.                                                           *)
LEMMA SeeingStep ==
  ASSUME WritesInv, WritesInv', Told, Seeing, Onward, NoneAnswered, FinesKept,
         NEW M \in SUBSET Jobs, \A k \in Jobs \ M : AsBefore(k),
         store # None => store' = store,
         store' # store => \E j \in M : job[j].steps \in Saving /\ store' = job[j].id,
         \A j \in M : Own(j)',
         \A j \in M : job'[j].steps \in Clearing =>
             \/ job[j].steps \in Clearing /\ job'[j].id = job[j].id
             \/ fate'[job'[j].id] \in GivenUp
             \/ \A k \in Jobs \ M : job[k].steps \notin Saving,
         PendingStored'
  PROVE  Seeing'
PROOF
<1>1. /\ None \notin Ids /\ None \notin Plans /\ Ids \subseteq Plans
      /\ Types /\ Known /\ store \in Maybe(Ids) /\ store' \in Maybe(Ids)
  BY NumberFacts DEF WritesInv, Types
<1>2. ASSUME NEW p \in Plans, NEW k \in Answers(p)', Fine(p, journal[k])
      PROVE  Fine(p, journal[k])'
  BY <1>2, FineOnward
<1>3. ASSUME NEW p \in Plans, NEW k \in Answers(p)'
      PROVE  /\ k \in Answers(p) /\ k \in Ids /\ k # None /\ p # None
             /\ journal'[k] = journal[k] /\ fate'[k] \notin GivenUp
             /\ p \in Ids => fate'[p] \notin GivenUp
  <2>1. /\ k \in Answers(p) /\ journal'[k] = journal[k] /\ fate'[k] = "answered"
        /\ p \in Ids => fate'[p] \notin GivenUp
    BY <1>3, AnswersOnward
  <2>2. k \in Ids /\ k # None /\ p # None
    BY <2>1, AnswerFacts
  <2> QED  BY <2>1, <2>2 DEF GivenUp
<1>4. Kept'
  <2>1. ASSUME NEW p \in Plans, NEW k \in Answers(p)'
        PROVE  Fine(p, journal[k])' \/ store' \in {k, p}
    <3>1. k \in Answers(p) /\ k # None /\ p # None
      BY <1>3, <2>1
    <3>2. Fine(p, journal[k]) \/ store \in {k, p}
      BY <3>1 DEF Seeing, Kept
    <3> QED  BY <1>2, <2>1, <3>1, <3>2
  <2> QED  BY <2>1 DEF Kept
<1>5. ASSUME NEW i \in Ids, body[i] # None, Unsent(i)'
      PROVE  /\ Unsent(i) /\ body'[i] = body[i] /\ body[i].plan \in Plans
  BY <1>5, UnsentOnward
<1>6. ASSUME NEW i \in Ids, body[i] # None, Unsent(i)', NEW k \in Answers(body[i].plan)',
             After(i, k)
      PROVE  After(i, k)'
  <2>1. body'[i] = body[i] /\ body[i].plan \in Plans
    BY <1>5, <1>6
  <2>2. PICK p \in Plans : p = body[i].plan
    BY <2>1
  <2>3. k \in Answers(p)'
    BY <1>6, <2>1, <2>2 DEF Answers
  <2>4. journal'[k] = journal[k]
    BY <1>3, <2>3
  <2> QED  BY <1>6, <2>1, <2>4 DEF After
<1>7. ASSUME NEW j \in Jobs \ M  PROVE Own(j)'
  <2> DEFINE w == job[j]
  <2>1. /\ AsBefore(j) /\ Own(j) /\ Sound(j) /\ w.id \in Maybe(Ids) /\ w.plan \in Maybe(Plans)
    BY <1>1, <1>7, JobFacts DEF Seeing, WritesInv
  <2>2. w.id # None => w.id \in Ids /\ body[w.id] # None
    BY <2>1 DEF Sound, Maybe
  <2>3. w.steps \in Saving \cup Clearing \cup Posting => w.id # None
    BY <2>1 DEF Sound
  <2>4. /\ job'[j].kind = w.kind /\ job'[j].id = w.id /\ job'[j].plan = w.plan
        /\ job'[j].steps = w.steps /\ job'[j].seen = w.seen
        /\ job'[j].at = "served" => w.at = "served"
    BY <2>1 DEF AsBefore
  <2>5. Posts(j)'
    <3>1. ASSUME w.steps \in Posting  PROVE store' = w.id \/ fate'[w.id] \in GivenUp
      BY <2>1, <2>2, <2>3, <3>1 DEF Own, Posts, Onward
    <3> QED  BY <2>4, <3>1 DEF Posts
  <2>6. Proves(j)'
    <3>1. ASSUME w.kind = "write", w.steps = <<"get", "clear">>, w.at = "served",
                 NEW k \in Answers(w.plan)', job'[j].plan = w.plan
          PROVE  w.seen >= journal'[k]
      <4>1. w.plan # None
        BY <2>1, <3>1 DEF Sound, Getting
      <4>2. PICK p \in Plans : p = w.plan
        BY <2>1, <4>1 DEF Maybe
      <4>3. k \in Answers(p)'
        BY <2>4, <3>1, <4>2 DEF Answers
      <4>4. k \in Answers(p) /\ journal'[k] = journal[k]
        BY <1>3, <4>3
      <4>5. k \in Answers(w.plan)
        BY <4>2, <4>4 DEF Answers
      <4> QED  BY <2>1, <3>1, <4>4, <4>5 DEF Own, Proves
    <3> QED  BY <2>4, <3>1 DEF Proves
  <2>7. Clears(j)'
    <3>1. ASSUME w.steps \in Clearing, NEW p \in Plans, NEW k \in Answers(p)', w.id \in {k, p}
          PROVE  Fine(p, journal[k])' \/ (w.id # p /\ store' = p)
      <4>1. k \in Answers(p) /\ p # None
        BY <1>3, <3>1
      <4>2. Fine(p, journal[k]) \/ (w.id # p /\ store = p)
        BY <2>1, <3>1, <4>1 DEF Own, Clears
      <4> QED  BY <1>2, <3>1, <4>1, <4>2
    <3> QED  BY <2>4, <3>1 DEF Clears
  <2>8. Saves(j)'
    <3> SUFFICES ASSUME job'[j].steps \in Saving, Unsent(job[j].id)',
                        NEW k \in Answers(body[job[j].id].plan)'
                 PROVE  \/ After(job[j].id, k)'
                        \/ /\ store' \in {k, body'[job'[j].id].plan}
                           /\ \A c \in Jobs : job'[c].steps \in Clearing => job'[c].id # store'
      BY DEF Saves
    <3>1. PICK i \in Ids : i = w.id /\ body[i] # None
      BY <2>2, <2>3, <2>4
    <3>2. Unsent(i)' /\ job'[j].id = i
      BY <2>4, <3>1 DEF Unsent, IsStart
    <3>3. Unsent(i) /\ body'[i] = body[i] /\ body[i].plan \in Plans
      BY <1>5, <3>1, <3>2
    <3>4. PICK p \in Plans : p = body[i].plan
      BY <3>3
    <3>5. k \in Answers(p)'
      BY <3>2, <3>3, <3>4 DEF Answers
    <3>6. /\ k \in Answers(p) /\ k \in Ids /\ k # None /\ p # None
          /\ journal'[k] = journal[k] /\ fate'[k] \notin GivenUp
          /\ p \in Ids => fate'[p] \notin GivenUp
      BY <1>3, <3>5
    <3>7. \/ After(i, k)
          \/ /\ store \in {k, p}
             /\ \A c \in Jobs : job[c].steps \in Clearing => job[c].id # store
      <4>1. Unsent(w.id) /\ k \in Answers(body[w.id].plan) /\ w.steps \in Saving
        BY <2>4, <3>1, <3>3, <3>4, <3>6
      <4>2. \/ After(w.id, k)
            \/ /\ store \in {k, body[w.id].plan}
               /\ \A c \in Jobs : job[c].steps \in Clearing => job[c].id # store
        BY <2>1, <4>1 DEF Own, Saves
      <4> QED  BY <3>1, <3>4, <4>2
    <3>8. CASE After(i, k)
      BY <3>2, <3>3, <3>6, <3>8 DEF After
    <3>9. CASE /\ store \in {k, p}
               /\ \A c \in Jobs : job[c].steps \in Clearing => job[c].id # store
      <4>1. store' = store /\ store \in {k, p} /\ fate'[store] \notin GivenUp
        <5>1. store # None
          BY <3>6, <3>9
        <5>2. store \in Ids
          BY <1>1, <5>1 DEF Maybe
        <5> QED  BY <3>6, <3>9, <5>1, <5>2
      <4>2. ASSUME NEW c \in Jobs, job'[c].steps \in Clearing, job'[c].id = store
            PROVE  FALSE
        <5>1. CASE c \notin M
          <6>1. job[c].steps \in Clearing /\ job[c].id = store
            BY <4>2, <5>1 DEF AsBefore
          <6> QED  BY <3>9, <6>1
        <5>2. CASE c \in M
          BY <2>4, <3>9, <4>1, <4>2, <5>2
        <5> QED  BY <5>1, <5>2
      <4> QED  BY <3>2, <3>3, <3>4, <4>1, <4>2
    <3> QED  BY <3>7, <3>8, <3>9
  <2>9. Reads(j)'
    <3> SUFFICES ASSUME job'[j].steps = <<"read">>, job'[j].id # None, Unsent(job[j].id)'
                 PROVE  store' = job'[j].id
      BY DEF Reads
    <3>1. PICK i \in Ids : i = w.id /\ body[i] # None
      BY <2>2, <2>4
    <3>2. Unsent(i)'
      BY <2>4, <3>1 DEF Unsent, IsStart
    <3>3. store = i /\ i # None
      BY <1>1, <1>5, <2>1, <2>4, <3>1, <3>2 DEF Own, Reads
    <3> QED  BY <2>4, <3>1, <3>3
  <2> QED  BY <2>5, <2>6, <2>7, <2>8, <2>9 DEF Own
<1>8. StoredAfter'
  <2> SUFFICES ASSUME store' # None, Unsent(store)', NEW k \in Answers(body[store].plan)'
               PROVE  After(store, k)'
    BY DEF StoredAfter
  <2>1. PICK i \in Ids : i = store'
    BY <1>1 DEF Maybe
  <2>2. Unsent(i)' /\ k \in Answers(body[i].plan)'
    BY <2>1 DEF Unsent, IsStart, Answers
  <2>3. CASE store' = store
    <3>1. store = i /\ body[i] # None
      BY <1>1, <2>1, <2>3 DEF Known
    <3>2. Unsent(i) /\ body'[i] = body[i] /\ body[i].plan \in Plans
      BY <1>5, <2>2, <3>1
    <3>3. PICK p \in Plans : p = body[i].plan
      BY <3>2
    <3>4. k \in Answers(p)'
      BY <2>2, <3>2, <3>3 DEF Answers
    <3>5. k \in Answers(body[i].plan)
      BY <1>3, <3>3, <3>4
    <3>6. After(i, k)
      BY <1>1, <3>1, <3>2, <3>5 DEF Seeing, StoredAfter
    <3>7. After(i, k)'
      BY <1>6, <2>2, <3>1, <3>6
    <3> QED  BY <2>1, <3>7 DEF After
  <2>4. CASE store' # store
    <3>1. PICK j \in M : job[j].steps \in Saving /\ i = job[j].id
      BY <2>1, <2>4
    <3>2. store = None /\ Own(j) /\ body[i] # None
      BY <2>1, <2>4, <3>1 DEF Seeing, WritesInv, Sound
    <3>3. Unsent(i) /\ body'[i] = body[i] /\ body[i].plan \in Plans
      BY <1>5, <2>2, <3>2
    <3>4. PICK p \in Plans : p = body[i].plan
      BY <3>3
    <3>5. k \in Answers(p)'
      BY <2>2, <3>3, <3>4 DEF Answers
    <3>6. k \in Answers(body[i].plan) /\ k # None /\ p # None
      BY <1>3, <3>4, <3>5
    <3>7. After(i, k)
      BY <3>1, <3>2, <3>3, <3>4, <3>6 DEF Own, Saves
    <3>8. After(i, k)'
      BY <1>6, <2>2, <3>2, <3>7
    <3> QED  BY <2>1, <3>8 DEF After
  <2> QED  BY <2>3, <2>4
<1> QED  BY <1>4, <1>7, <1>8 DEF Seeing

-----------------------------------------------------------------------------
(* The steps.                                                              *)
LEMMA WriteUnsent ==
  ASSUME WritesInv, Orderly, NEW j \in Jobs, job[j].kind = "write",
         job[j].steps \notin {<<"save", "post">>, <<"look">>}
  PROVE  /\ job[j].id \in Ids /\ body[job[j].id] # None /\ job[j].plan = body[job[j].id].plan
         /\ fate[job[j].id] # "unsent" /\ job[j].steps \notin Saving
PROOF
<1>1. /\ job[j].steps \in {<<"post">>, <<"get", "clear">>, <<"clear">>}
      /\ job[j].id # None /\ job[j].plan = body[job[j].id].plan
  BY DEF Orderly, Shape
<1>2. job[j].id \in Ids
  BY <1>1, JobFacts DEF WritesInv, Maybe
<1>3. body[job[j].id] # None
  BY <1>1 DEF WritesInv, Sound
<1>4. fate[job[j].id] # "unsent"
  <2>1. CASE job[j].steps = <<"post">>
    BY <2>1 DEF Orderly, Shape, Posting
  <2>2. CASE job[j].steps \in {<<"get", "clear">>, <<"clear">>}
    BY <2>2 DEF WritesInv, Sound, Settled, Clearing
  <2> QED  BY <1>1, <2>1, <2>2
<1>5. job[j].steps \notin Saving
  BY <1>1 DEF Saving
<1> QED  BY <1>1, <1>2, <1>3, <1>4, <1>5

LEMMA PendingOnward ==
  ASSUME WritesInv, Onward, PendingStored, screen'.pending \in {screen.pending, None},
         store # None => store' = store,
         \A k \in Jobs : \/ job'[k].kind = job[k].kind /\ job'[k].id = job[k].id
                         \/ job[k].kind # "write"
                         \/ store' = job[k].id
                         \/ fate[job[k].id] # "unsent"
  PROVE  PendingStored'
PROOF
<1> SUFFICES ASSUME screen'.pending # None, Unsent(screen.pending)'
             PROVE  \/ store' = screen'.pending
                    \/ \E j \in Jobs : job'[j].kind = "write" /\ job'[j].id = screen'.pending
  BY DEF PendingStored
<1>1. screen'.pending = screen.pending /\ screen.pending \in Maybe(Ids)
  BY ScreenFacts DEF WritesInv
<1>2. PICK i \in Ids : i = screen.pending
  BY <1>1 DEF Maybe
<1>3. body[i] # None /\ i # None
  BY <1>1, <1>2, NumberFacts DEF WritesInv, Known
<1>4. Unsent(i)'
  BY <1>1, <1>2 DEF Unsent, IsStart
<1>5. Unsent(i)
  BY <1>3, <1>4, UnsentOnward
<1>6. CASE store = i
  BY <1>1, <1>2, <1>3, <1>6
<1>7. CASE \E j \in Jobs : job[j].kind = "write" /\ job[j].id = i
  BY <1>1, <1>2, <1>5, <1>7 DEF Unsent
<1> QED  BY <1>2, <1>3, <1>5, <1>6, <1>7 DEF PendingStored

(* A job goes on with a read, a look, or ends.                             *)
LEMMA QuietBecomes ==
  ASSUME WritesInv, WritesInv', AnswersInv, NEW j \in Jobs, j \in Waiting => HasTurn(j),
         UNCHANGED <<body, journal, revision, fate, cached>>,
         NEW l \in {<<>>, <<"get">>, <<"look">>}, Becomes(j, job[j].kind, l),
         l = <<"get">> => job[j].kind \notin {"write", "left"},
         l = <<"look">> => job[j].kind = "write",
         store # None => store' = store,
         store' # store => job[j].steps \in Saving /\ store' = job[j].id,
         \/ PendingStored'
         \/ /\ screen'.pending \in {screen.pending, None}
            /\ (job[j].kind = "write" /\ job[j].steps \in {<<"save", "post">>, <<"look">>}) =>
                  l = <<"look">> \/ store' = job[j].id
  PROVE  AnswersInv'
PROOF
<1>1. /\ Types /\ Told /\ Orderly /\ Seeing /\ job[j].kind \in Kinds /\ l \in Lists
  BY ListsAre, JobFacts DEF WritesInv, AnswersInv
<1>2. Onward
  BY <1>1, SameOnward
<1>3. Told'
  BY <1>1, ToldQuiet
<1>4. /\ \A k \in Jobs \ {j} : job'[k] = job[k]
      /\ job'[j].steps = l /\ job'[j].at = "start"
      /\ l # <<>> => /\ job'[j].id = job[j].id /\ job'[j].plan = job[j].plan
                     /\ job'[j].kind = job[j].kind
  BY <1>1, BecomesIs
<1>5. ASSUME l # <<>>  PROVE Shape(j)'
  <2>1. /\ l \notin Posting \cup Clearing \cup {<<"read">>, <<"get", "clear">>} \cup Saving
    BY <1>5 DEF Posting, Clearing, Saving
  <2>2. job[j].kind = "write" => l = <<"look">> /\ job[j].id # None
                                  /\ job[j].plan = body[job[j].id].plan
    BY <1>1, <1>5 DEF Orderly, Shape
  <2>3. job[j].kind # "left" /\ (l = <<"look">> => job[j].kind = "write")
    BY <1>5
  <2> QED  BY <1>4, <1>5, <2>1, <2>2, <2>3 DEF Shape
<1>6. Orderly'
  <2>1. job[j].kind = "left" => l = <<>>
    OBVIOUS
  <2> QED  BY <1>1, <1>2, <1>5, <2>1, BecomesOrderly
<1>7. FinesKept /\ NoneAnswered
  <2>1. \A k \in Jobs : job'[k].at = "served" => job[k].at = "served" /\ job'[k] = job[k]
    BY <1>4
  <2> QED  BY <1>1, <2>1, FinesSame DEF NoneAnswered
<1>8. Own(j)'
  BY <1>4, OwnSimple
<1>9. PendingStored'
  <2>1. CASE ~PendingStored'
    <3>1. \/ job'[j].kind = job[j].kind /\ job'[j].id = job[j].id
          \/ job[j].kind # "write"
          \/ store' = job[j].id
          \/ fate[job[j].id] # "unsent"
      <4>1. CASE job[j].kind = "write" /\ job[j].steps \in {<<"save", "post">>, <<"look">>}
        <5>1. l = <<"look">> \/ store' = job[j].id
          BY <2>1, <4>1
        <5>2. <<"look">> # <<>>
          OBVIOUS
        <5> QED  BY <1>4, <5>1, <5>2
      <4>2. CASE job[j].kind = "write" /\ job[j].steps \notin {<<"save", "post">>, <<"look">>}
        BY <1>1, <4>2, WriteUnsent
      <4> QED  BY <4>1, <4>2
    <3> QED  BY <1>1, <1>2, <1>4, <2>1, <3>1, PendingOnward DEF Seeing
  <2> QED  BY <2>1
<1>10. Seeing'
  <2> DEFINE M == {j}
  <2>1. /\ M \in SUBSET Jobs /\ \A k \in Jobs \ M : AsBefore(k)
    BY <1>4 DEF AsBefore
  <2>2. store' # store => \E i \in M : job[i].steps \in Saving /\ store' = job[i].id
    OBVIOUS
  <2>3. \A i \in M : Own(i)' /\ job'[i].steps \notin Clearing
    BY <1>4, <1>8 DEF Clearing
  <2> HIDE DEF M
  <2> QED  BY <1>1, <1>2, <1>7, <1>9, <2>1, <2>2, <2>3, SeeingStep
<1> QED  BY <1>3, <1>6, <1>10 DEF AnswersInv

LEMMA TurnsAnswers ==
  ASSUME WritesInv, WritesInv', AnswersInv, NEW j \in Jobs, Turns(j, "checked"),
         UNCHANGED <<body, journal, revision, store, screen, fate, cached>>
  PROVE  AnswersInv'
PROOF
<1>1. Types /\ InLine /\ Told /\ Orderly /\ Seeing /\ PendingStored
  BY DEF WritesInv, AnswersInv, Seeing
<1>2. Onward
  BY <1>1, SameOnward
<1>3. Told'
  BY <1>1, ToldQuiet
<1> DEFINE w == [job[j] EXCEPT !.at = "checked"]
<1>4. job' = [job EXCEPT ![j] = w] /\ queue' = queue /\ job \in [Jobs -> JobType]
  BY <1>1 DEF Turns, Types
<1>5. /\ w.id = job[j].id /\ w.plan = job[j].plan /\ w.kind = job[j].kind
      /\ w.steps = job[j].steps /\ w.at = "checked" /\ w.seen = job[j].seen
  BY <1>1, JobFacts DEF JobType
<1> HIDE DEF w
<1>6. job'[j] = w /\ \A k \in Jobs \ {j} : job'[k] = job[k]
  BY <1>4
<1>7. \A k \in Jobs : AsBefore(k)
  BY <1>5, <1>6 DEF AsBefore
<1>8. Shape(j)'
  <2>1. Shape(j)
    BY <1>1 DEF Orderly
  <2>2. "checked" # "served"
    OBVIOUS
  <2> QED  BY <1>5, <1>6, <2>1, <2>2 DEF Shape
<1>9. Orderly'
  BY <1>1, <1>2, <1>4, <1>5, <1>6, <1>8, WithinOrderly
<1>10. FinesKept /\ NoneAnswered
  <2>1. \A k \in Jobs : job'[k].at = "served" =>
            /\ job[k].at = "served"
            /\ job'[k].plan = job[k].plan /\ job'[k].seen = job[k].seen
    BY <1>7 DEF AsBefore
  <2> QED  BY <1>1, <2>1, FinesSame DEF NoneAnswered
<1>11. PendingStored'
  BY <1>1, <1>2, <1>7, PendingOnward DEF AsBefore
<1>12. Seeing'
  <2> DEFINE M == {}
  <2>1. M \in SUBSET Jobs /\ \A k \in Jobs \ M : AsBefore(k)
    BY <1>7
  <2>2. \A i \in M : FALSE
    OBVIOUS
  <2> HIDE DEF M
  <2> QED  BY <1>1, <1>2, <1>10, <1>11, <2>1, <2>2, SeeingStep
<1> QED  BY <1>3, <1>9, <1>12 DEF AnswersInv

(* A save that is refused, or fails, of the screen or of an earlier one.   *)
LEMMA SaveFailsAnswers ==
  ASSUME WritesInv, WritesInv', AnswersInv, NEW j \in Jobs, job[j].steps \in Saving, HasTurn(j),
         SaveFails(j), UNCHANGED <<body, journal, revision, screen, fate, cached>>,
         store # None => store' = store, store' # store => store' = job[j].id
  PROVE  AnswersInv'
PROOF
<1>1. job[j].kind \in {"write", "left"}
  BY DEF AnswersInv, Orderly, Shape
<1>2. CASE job[j].kind = "left"
  <2>1. Becomes(j, job[j].kind, <<>>)
    BY <1>2 DEF SaveFails, Goes
  <2> QED  BY <1>2, <2>1, QuietBecomes
<1>3. CASE job[j].kind # "left"
  <2>1. Becomes(j, job[j].kind, <<"look">>)
    BY <1>3 DEF SaveFails, Goes
  <2> QED  BY <1>1, <1>3, <2>1, QuietBecomes
<1> QED  BY <1>2, <1>3

LEMMA SaveChecksAnswers ==
  ASSUME WritesInv, WritesInv', AnswersInv, NEW j \in Jobs, SaveChecks(j)
  PROVE  AnswersInv'
PROOF
<1>1. UNCHANGED <<body, journal, revision, store, screen, fate, cached>>
  BY DEF SaveChecks, server
<1>2. job[j].steps \in Saving /\ HasTurn(j)
  BY DoingFacts, TurnMeans DEF SaveChecks, WritesInv
<1>3. CASE Free(j)
  <2>1. Turns(j, "checked")
    BY <1>3 DEF SaveChecks
  <2> QED  BY <1>1, <2>1, TurnsAnswers
<1>4. CASE ~Free(j)
  <2>1. SaveFails(j)
    BY <1>4 DEF SaveChecks
  <2> QED  BY <1>1, <1>2, <2>1, SaveFailsAnswers
<1> QED  BY <1>3, <1>4

LEMMA SaveRejectedAnswers ==
  ASSUME WritesInv, WritesInv', AnswersInv, NEW j \in Jobs, SaveRejected(j)
  PROVE  AnswersInv'
PROOF
<1>1. /\ UNCHANGED <<body, journal, revision, screen, fate, cached>> /\ SaveFails(j)
      /\ store' \in {store, job[j].id}
  BY DEF SaveRejected, server
<1>2. job[j].steps \in Saving /\ job[j].at = "checked" /\ HasTurn(j)
  BY DoingFacts, TurnMeans DEF SaveRejected, WritesInv
<1>3. store \in {None, job[j].id}
  BY <1>2 DEF WritesInv, Sound
<1> QED  BY <1>1, <1>2, <1>3, SaveFailsAnswers

LEMMA LooksAnswers ==
  ASSUME WritesInv, WritesInv', AnswersInv, NEW j \in Jobs, Looks(j)
  PROVE  AnswersInv'
PROOF
<1>1. /\ UNCHANGED <<body, journal, revision, store, fate, cached>>
      /\ Becomes(j, job[j].kind, <<>>)
  BY DEF Looks, server, Ends, Goes
<1>2. j \notin Waiting
  BY DoingFacts DEF Looks, WritesInv
<1>3. PICK found \in {store, None} : screen' = [screen EXCEPT !.pending = found]
  BY DEF Looks
<1>4. screen'.pending \in {store, None}
  <2>1. screen \in ScreenType
    BY DEF WritesInv, Types
  <2> QED  BY <1>3, <2>1 DEF ScreenType
<1>5. PendingStored'
  BY <1>1, <1>4 DEF PendingStored
<1> QED  BY <1>1, <1>2, <1>5, QuietBecomes

LEMMA ClearedAnswers ==
  ASSUME WritesInv, WritesInv', AnswersInv, NEW j \in Jobs, job[j].steps \in Clearing,
         HasTurn(j), Cleared(j),
         UNCHANGED <<body, journal, revision, store, fate, cached>>
  PROVE  AnswersInv'
PROOF
<1>1. /\ job[j].steps \in Lists /\ screen'.pending \in {screen.pending, None}
      /\ job[j].steps \notin {<<"save", "post">>, <<"look">>}
  BY JobFacts, ClearedFacts DEF WritesInv, Clearing
<1>2. Becomes(j, job[j].kind, Tail(job[j].steps))
  BY DEF Cleared, Goes
<1>3. Tail(job[j].steps) = IF job[j].steps = <<"clear", "get">> THEN <<"get">> ELSE <<>>
  BY <1>1, ListFacts
<1>4. CASE job[j].steps = <<"clear", "get">>
  <2>1. Becomes(j, job[j].kind, <<"get">>)
    BY <1>2, <1>3, <1>4
  <2>2. job[j].kind \notin {"write", "left"}
    BY <1>4 DEF AnswersInv, Orderly, Shape
  <2> QED  BY <1>1, <2>1, <2>2, QuietBecomes
<1>5. CASE job[j].steps # <<"clear", "get">>
  <2>1. Becomes(j, job[j].kind, <<>>)
    BY <1>2, <1>3, <1>5
  <2> QED  BY <1>1, <2>1, QuietBecomes
<1> QED  BY <1>4, <1>5

LEMMA ClearChecksAnswers ==
  ASSUME WritesInv, WritesInv', AnswersInv, NEW j \in Jobs, ClearChecks(j)
  PROVE  AnswersInv'
PROOF
<1>1. UNCHANGED <<body, journal, revision, store, fate, cached>>
  BY DEF ClearChecks, server
<1>2. job[j].steps \in Clearing /\ HasTurn(j)
  BY DoingFacts, TurnMeans DEF ClearChecks, WritesInv
<1>3. CASE store = job[j].id
  <2>1. Turns(j, "checked") /\ UNCHANGED screen
    BY <1>3 DEF ClearChecks
  <2> QED  BY <1>1, <2>1, TurnsAnswers
<1>4. CASE store # job[j].id
  <2>1. Cleared(j)
    BY <1>4 DEF ClearChecks
  <2> QED  BY <1>1, <1>2, <2>1, ClearedAnswers
<1> QED  BY <1>3, <1>4

LEMMA ClearFailsAnswers ==
  ASSUME WritesInv, WritesInv', AnswersInv, NEW j \in Jobs, ClearFails(j)
  PROVE  AnswersInv'
PROOF
<1>1. /\ UNCHANGED <<body, journal, revision, store, fate, cached>>
      /\ Becomes(j, job[j].kind, <<>>)
  BY DEF ClearFails, server, Ends, Goes
<1>2. job[j].steps \in Clearing /\ HasTurn(j)
  <2>1. PICK at \in {"start", "checked"} : Doing(j, "clear", at) /\ Turn(j)
    BY DEF ClearFails
  <2> QED  BY <2>1, DoingFacts, TurnMeans DEF WritesInv
<1>3. fate[job[j].id] # "unsent" /\ job[j].steps \notin {<<"save", "post">>, <<"look">>}
  BY <1>2 DEF WritesInv, Sound, Settled, Clearing
<1>4. screen'.pending \in {screen.pending, job[j].id}
  <2>1. screen \in ScreenType
    BY DEF WritesInv, Types
  <2>2. screen' = screen \/ \E p, f : screen' = [screen EXCEPT !.pending = job[j].id,
                                                              !.plan = p, !.failed = f]
    BY DEF ClearFails, Sets
  <2> QED  BY <2>1, <2>2 DEF ScreenType
<1>5. CASE screen'.pending = screen.pending
  BY <1>1, <1>2, <1>3, <1>5, QuietBecomes
<1>6. CASE screen'.pending = job[j].id
  <2>1. PendingStored'
    BY <1>1, <1>3, <1>6 DEF PendingStored, Unsent
  <2> QED  BY <1>1, <1>2, <2>1, QuietBecomes
<1> QED  BY <1>4, <1>5, <1>6

LEMMA HydratedAnswers ==
  ASSUME WritesInv, WritesInv', AnswersInv, NEW j \in Jobs, Hydrated(j)
  PROVE  AnswersInv'
PROOF
<1> DEFINE i == job[j].id
           p == IF i = None \/ screen.plan # None THEN screen.plan
                ELSE IF IsStart(i) THEN None ELSE body[i].plan
           n == IF screen.pending # None THEN screen.pending ELSE i
<1>1. /\ UNCHANGED <<body, journal, revision, store, fate, cached>>
      /\ Becomes(j, job[j].kind, <<>>)
      /\ screen' = IF i = None THEN screen ELSE [screen EXCEPT !.plan = p, !.pending = n]
  BY DEF Hydrated, server, Ends, Goes
<1>2. job[j].steps = <<"read">> /\ j \notin Waiting
  <2>1. job[j].steps \in Lists /\ job[j].steps # <<>> /\ Head(job[j].steps) = "read"
    BY JobFacts DEF WritesInv, Hydrated, Doing
  <2>2. job[j].steps \in Asking /\ j \notin Waiting
    BY DoingFacts DEF Hydrated, WritesInv
  <2>3. job[j].steps # <<"look">>
    BY <2>1
  <2> QED  BY <2>2, <2>3 DEF Asking
<1>3. job[j].kind = "hydrate" /\ Reads(j)
  BY <1>2 DEF AnswersInv, Orderly, Shape, Seeing, Own
<1> HIDE DEF p
<1>4. screen'.pending \in {screen.pending, i}
  <2>1. screen \in ScreenType
    BY DEF WritesInv, Types
  <2> QED  BY <1>1, <2>1 DEF ScreenType
<1>5. CASE screen'.pending = screen.pending
  BY <1>1, <1>2, <1>3, <1>5, QuietBecomes
<1>6. CASE screen'.pending = i
  <2>1. PendingStored'
    BY <1>1, <1>2, <1>3, <1>6 DEF PendingStored, Unsent, Reads, IsStart
  <2> QED  BY <1>1, <1>2, <2>1, QuietBecomes
<1> QED  BY <1>4, <1>5, <1>6

LEMMA PostTimesOutAnswers ==
  ASSUME WritesInv, WritesInv', AnswersInv, NEW j \in Jobs, PostTimesOut(j)
  PROVE  AnswersInv'
PROOF
<1>1. /\ UNCHANGED <<body, journal, revision, store, screen, fate, cached>>
      /\ Becomes(j, job[j].kind, <<>>)
  BY DEF PostTimesOut, server, Ends, Goes
<1>2. j \notin Waiting /\ job[j].steps \notin {<<"save", "post">>, <<"look">>}
  BY DoingFacts DEF PostTimesOut, WritesInv, Posting
<1> QED  BY <1>1, <1>2, QuietBecomes

LEMMA GetFailsAnswers ==
  ASSUME WritesInv, WritesInv', AnswersInv, NEW j \in Jobs, GetFails(j)
  PROVE  AnswersInv'
PROOF
<1> DEFINE f == screen.failed \/ job[j].kind # "load"
           c == Chosen(j)
           u == screen.unloaded \/ (job[j].kind \in {"load", "reload"}
                                      /\ Seen(screen.plan) = None)
<1>1. /\ UNCHANGED <<body, journal, revision, store, fate, cached>>
      /\ Becomes(j, job[j].kind, <<>>)
      /\ screen' = [screen EXCEPT !.failed = f, !.plan = c, !.unloaded = u]
  BY DEF GetFails, server, Ends, Goes
<1>2. j \notin Waiting /\ job[j].steps \notin {<<"save", "post">>, <<"look">>}
  BY DoingFacts DEF GetFails, WritesInv, Getting
<1> HIDE DEF f, c, u
<1>3. screen'.pending = screen.pending
  <2>1. screen \in ScreenType
    BY DEF WritesInv, Types
  <2> QED  BY <1>1, <2>1 DEF ScreenType
<1> QED  BY <1>1, <1>2, <1>3, QuietBecomes

LEMMA SaveWritesAnswers ==
  ASSUME WritesInv, WritesInv', AnswersInv, NEW j \in Jobs, SaveWrites(j)
  PROVE  AnswersInv'
PROOF
<1> DEFINE i == job[j].id
<1>1. /\ UNCHANGED <<body, journal, revision, screen, cached>> /\ store' = i
      /\ job[j].kind = "left" => fate' = fate
      /\ job[j].kind # "left" => fate' = Fated(i, "sent")
      /\ Becomes(j, job[j].kind, Tail(job[j].steps))
  BY DEF SaveWrites, server, Goes
<1>2. job[j].steps \in Saving /\ job[j].at = "checked" /\ HasTurn(j) /\ job[j].steps \in Lists
  BY DoingFacts, TurnMeans, JobFacts DEF SaveWrites, WritesInv
<1>3. /\ i # None /\ store \in {None, i} /\ i \in Ids /\ body[i] # None
  <2>1. i # None /\ store \in {None, i} /\ i \in Maybe(Ids) /\ body[i] # None
    BY <1>2, JobFacts DEF WritesInv, Sound
  <2> QED  BY <2>1 DEF Maybe
<1>4. /\ Types /\ Told /\ Orderly /\ Seeing /\ Shape(j) /\ job[j].kind \in {"write", "left"}
      /\ fate \in [Ids -> Fates]
  BY <1>2 DEF WritesInv, Types, AnswersInv, Orderly, Shape
<1>5. Tail(job[j].steps) = IF job[j].steps = <<"save", "post">> THEN <<"post">> ELSE <<>>
  BY <1>2, ListFacts
<1>6. CASE job[j].kind = "left"
  <2>1. job[j].steps # <<"save", "post">>
    BY <1>4, <1>6 DEF Shape
  <2>2. Becomes(j, job[j].kind, <<>>) /\ fate' = fate
    BY <1>1, <1>5, <1>6, <2>1
  <2>3. store # None => store' = store
    BY <1>1, <1>3
  <2> QED  BY <1>1, <1>2, <1>6, <2>2, <2>3, QuietBecomes
<1>7. CASE job[j].kind = "write"
  <2>1. job[j].steps = <<"save", "post">> /\ job[j].plan = body[i].plan
    BY <1>2, <1>4, <1>7 DEF Shape, Saving
  <2>2. Becomes(j, "write", <<"post">>)
    BY <1>1, <1>5, <1>7, <2>1
  <2>3. "write" \in Kinds /\ <<"post">> \in Lists
    BY ListsAre DEF Kinds
  <2>4. /\ \A k \in Jobs \ {j} : job'[k] = job[k]
        /\ job'[j].steps = <<"post">> /\ job'[j].at = "start"
        /\ job'[j].id = i /\ job'[j].plan = job[j].plan /\ job'[j].kind = "write"
    BY <2>2, <2>3, BecomesIs
  <2>5. /\ \A k \in Ids \ {i} : fate'[k] = fate[k]
        /\ fate'[i] \in {fate[i], "sent"} /\ fate'[i] # "unsent"
        /\ \A k \in Ids : /\ fate[k] # "unsent" => fate'[k] # "unsent"
                          /\ fate[k] \in GivenUp => fate'[k] \in GivenUp
                          /\ fate[k] \in Over => fate'[k] \in Over
    <3>1. "sent" \in Fates \ {"unsent"} /\ fate' = Fated(i, "sent")
      BY <1>1, <1>7 DEF Fates
    <3> QED  BY <1>3, <1>4, <3>1, FatesOnward
  <2>6. Onward
    BY <1>1, <1>4, <2>5, QuietOnward
  <2>7. Told'
    <3>1. \A k \in Ids : \/ fate'[k] = fate[k]
                         \/ body[k] # None /\ fate'[k] = "sent"
      BY <1>3, <2>5
    <3> QED  BY <1>1, <1>4, <3>1, ToldQuiet
  <2>8. NoneAnswered
    BY <2>5 DEF NoneAnswered
  <2>9. <<"post">> \notin Clearing \cup Saving /\ <<"post">> \in Posting
    BY DEF Clearing, Saving, Posting
  <2>10. Shape(j)'
    BY <1>1, <1>3, <2>1, <2>4, <2>5, <2>9 DEF Shape
  <2>11. Orderly'
    BY <1>2, <1>4, <1>7, <2>2, <2>3, <2>6, <2>10, BecomesOrderly
  <2>12. FinesKept
    <3>1. \A k \in Jobs : job'[k].at = "served" => job[k].at = "served" /\ job'[k] = job[k]
      BY <2>4
    <3> QED  BY <1>1, <1>4, <3>1, FinesSame
  <2>13. Own(j)'
    BY <1>1, <2>4, <2>9 DEF Own, Posts, Proves, Clears, Saves, Reads
  <2>14. PendingStored'
    <3>1. \A k \in Jobs : job'[k].kind = job[k].kind /\ job'[k].id = job[k].id
      BY <1>7, <2>4
    <3>2. store # None => store' = store
      BY <1>1, <1>3
    <3> QED  BY <1>1, <1>4, <2>6, <3>1, <3>2, PendingOnward DEF Seeing
  <2>15. Seeing'
    <3> DEFINE M == {j}
    <3>1. M \in SUBSET Jobs /\ \A k \in Jobs \ M : AsBefore(k)
      BY <2>4 DEF AsBefore
    <3>2. \A k \in M : Own(k)' /\ job'[k].steps \notin Clearing
      BY <2>4, <2>9, <2>13
    <3>3. /\ store # None => store' = store
          /\ store' # store => \E k \in M : job[k].steps \in Saving /\ store' = job[k].id
      BY <1>1, <1>2, <1>3
    <3> HIDE DEF M
    <3> QED  BY <1>4, <2>6, <2>7, <2>8, <2>12, <2>14, <3>1, <3>2, <3>3, SeeingStep
  <2> QED  BY <2>7, <2>11, <2>15 DEF AnswersInv
<1> QED  BY <1>4, <1>6, <1>7

(* A job that waits for the server or the storage is told.                 *)
LEMMA WithinAnswers ==
  ASSUME WritesInv, WritesInv', AnswersInv, NEW j \in Jobs, queue' = queue,
         UNCHANGED <<body, journal, revision, store, screen, fate, cached>>,
         \A k \in Jobs \ {j} : job'[k] = job[k],
         job'[j].kind = job[j].kind, job'[j].steps = job[j].steps,
         job'[j].id = job[j].id \/ job[j].kind = "hydrate",
         job[j].steps \notin Clearing,
         job'[j].at = "served" => job'[j].seen = revision[job'[j].plan],
         Shape(j)', Own(j)'
  PROVE  AnswersInv'
PROOF
<1>1. Types /\ Told /\ Orderly /\ Seeing /\ PendingStored
  BY DEF WritesInv, AnswersInv, Seeing
<1>2. Onward /\ Told' /\ NoneAnswered
  BY <1>1, SameOnward, ToldQuiet DEF NoneAnswered
<1>3. Orderly'
  BY <1>1, <1>2, WithinOrderly
<1>4. FinesKept
  <2>1. \A k \in Jobs : job'[k].at = "served" =>
            \/ /\ job[k].at = "served"
               /\ job'[k].plan = job[k].plan /\ job'[k].seen = job[k].seen
            \/ job'[k].seen = revision[job'[k].plan]
    OBVIOUS
  <2> QED  BY <1>1, <2>1, FinesMoved
<1>5. PendingStored'
  <2>1. \A k \in Jobs : \/ job'[k].kind = job[k].kind /\ job'[k].id = job[k].id
                        \/ job[k].kind # "write"
    OBVIOUS
  <2> QED  BY <1>1, <1>2, <2>1, PendingOnward
<1>6. Seeing'
  <2> DEFINE M == {j}
  <2>1. M \in SUBSET Jobs /\ \A k \in Jobs \ M : AsBefore(k)
    BY DEF AsBefore
  <2>2. \A k \in M : Own(k)' /\ job'[k].steps \notin Clearing
    OBVIOUS
  <2> HIDE DEF M
  <2> QED  BY <1>1, <1>2, <1>4, <1>5, <2>1, <2>2, SeeingStep
<1> QED  BY <1>2, <1>3, <1>6 DEF AnswersInv

LEMMA HydratesAnswers ==
  ASSUME WritesInv, WritesInv', AnswersInv, NEW j \in Jobs, Hydrates(j)
  PROVE  AnswersInv'
PROOF
<1>1. PICK found \in {store, None} :
         job' = [job EXCEPT ![j].at = "read", ![j].id = found] /\ queue' = queue
  BY DEF Hydrates
<1>2. UNCHANGED <<body, journal, revision, store, screen, cached, fate>>
  BY DEF Hydrates, server
<1> DEFINE w == [job[j] EXCEPT !.at = "read", !.id = found]
<1>3. /\ w.at = "read" /\ w.id = found /\ w.steps = job[j].steps /\ w.kind = job[j].kind
      /\ job' = [job EXCEPT ![j] = w] /\ job \in [Jobs -> JobType]
  BY <1>1, JobFacts DEF JobType, WritesInv, Types
<1> HIDE DEF w
<1>4. job'[j] = w /\ \A k \in Jobs \ {j} : job'[k] = job[k]
  BY <1>3
<1>5. job[j].steps = <<"read">>
  <2>1. job[j].steps \in Lists /\ job[j].steps # <<>> /\ Head(job[j].steps) = "read"
    BY JobFacts DEF WritesInv, Hydrates, Doing
  <2>2. job[j].steps \in Asking
    BY DoingFacts DEF Hydrates, WritesInv
  <2>3. job[j].steps # <<"look">>
    BY <2>1
  <2> QED  BY <2>2, <2>3 DEF Asking
<1>6. <<"read">> \notin Posting \cup Clearing \cup Saving
  BY DEF Posting, Clearing, Saving
<1>7. job[j].kind = "hydrate"
  BY <1>5 DEF AnswersInv, Orderly, Shape
<1>8. Shape(j)'
  BY <1>3, <1>4, <1>5, <1>6, <1>7 DEF Shape
<1>9. Own(j)'
  BY <1>1, <1>2, <1>3, <1>4, <1>5, <1>6 DEF Own, Posts, Proves, Clears, Saves, Reads
<1> QED  BY <1>1, <1>2, <1>3, <1>4, <1>5, <1>6, <1>7, <1>8, <1>9, WithinAnswers

LEMMA GetServedAnswers ==
  ASSUME WritesInv, WritesInv', AnswersInv, NEW j \in Jobs, GetServed(j)
  PROVE  AnswersInv'
PROOF
<1> DEFINE r == revision[job[j].plan]
           w == [job[j] EXCEPT !.at = "served", !.seen = r]
<1>1. /\ UNCHANGED <<body, journal, revision, store, queue, screen, cached, fate>>
      /\ job' = [job EXCEPT ![j].at = "served", ![j].seen = r] /\ r # None
  BY DEF GetServed, server
<1>2. /\ Types /\ Sound(j) /\ Told /\ Shape(j) /\ job[j] \in JobType
      /\ job[j].plan \in Maybe(Plans)
  BY JobFacts DEF WritesInv, AnswersInv, Orderly
<1>3. job[j].steps \in Getting
  BY DoingFacts DEF GetServed, WritesInv
<1>4. job[j].plan \in Plans
  BY <1>2, <1>3 DEF Sound, Maybe
<1>5. r \in Revisions /\ r \in Nat
  BY <1>1, <1>2, <1>4, RevisionFacts
<1>6. job' = [job EXCEPT ![j] = w]
  BY <1>1, <1>2 DEF Types
<1> HIDE DEF r
<1>7. /\ w.at = "served" /\ w.seen = r /\ w.id = job[j].id /\ w.steps = job[j].steps
      /\ w.kind = job[j].kind /\ w.plan = job[j].plan
  BY <1>2 DEF JobType
<1> HIDE DEF w
<1>8. job'[j] = w /\ \A k \in Jobs \ {j} : job'[k] = job[k]
  BY <1>2, <1>6 DEF Types
<1>9. job[j].steps \notin Posting \cup Clearing \cup Saving \cup {<<"read">>}
  BY <1>3 DEF Getting, Posting, Clearing, Saving
<1>10. Shape(j)'
  <2>1. revision'[job'[j].plan] # None /\ revision'[job'[j].plan] >= job'[j].seen
    BY <1>1, <1>5, <1>7, <1>8 DEF r
  <2> QED  BY <1>1, <1>2, <1>4, <1>5, <1>7, <1>8, <1>9, <2>1 DEF Shape, Reached
<1>11. Own(j)'
  <2>1. ASSUME NEW k \in Answers(job[j].plan)', job'[j].plan = job[j].plan
        PROVE  job'[j].seen >= journal'[k]
    <3>1. PICK p \in Plans : p = job[j].plan
      BY <1>4
    <3>2. k \in Answers(p)
      BY <1>1, <2>1, <3>1 DEF Answers
    <3>3. Reached(p, journal[k])
      BY <1>2, <3>2, AnswerFacts
    <3>4. r >= journal[k]
      BY <3>1, <3>3 DEF Reached, r
    <3> QED  BY <1>1, <1>7, <1>8, <3>4
  <2> QED  BY <1>7, <1>8, <1>9, <2>1 DEF Own, Posts, Proves, Clears, Saves, Reads
<1>12. job'[j].seen = revision[job'[j].plan]
  BY <1>7, <1>8 DEF r
<1> QED  BY <1>1, <1>7, <1>8, <1>9, <1>10, <1>11, <1>12, WithinAnswers

(* The record of a write that is settled is removed.                       *)
LEMMA ClearRemovesAnswers ==
  ASSUME WritesInv, WritesInv', AnswersInv, NEW j \in Jobs, ClearRemoves(j)
  PROVE  AnswersInv'
PROOF
<1> DEFINE i == job[j].id
<1>1. /\ UNCHANGED <<body, journal, revision, cached, fate>> /\ store' = None
      /\ Cleared(j) /\ Becomes(j, job[j].kind, Tail(job[j].steps))
  BY DEF ClearRemoves, server, Cleared, Goes
<1>2. job[j].steps \in Clearing /\ job[j].at = "checked" /\ HasTurn(j)
  BY DoingFacts, TurnMeans DEF ClearRemoves, WritesInv
<1>3. /\ Types /\ Told /\ Orderly /\ Seeing /\ Sound(j) /\ Shape(j) /\ Own(j)
      /\ job[j].steps \in Lists /\ job[j].kind \in Kinds
  BY JobFacts DEF WritesInv, AnswersInv, Orderly, Seeing
<1>4. store = i /\ fate[i] \notin {"unsent", "sent"} /\ i # None
  BY <1>2, <1>3 DEF Sound, Settled
<1>5. screen'.pending \in {screen.pending, None}
  BY <1>1, <1>2, ClearedFacts
<1>6. PICK l \in {<<>>, <<"get">>} :
         /\ Becomes(j, job[j].kind, l)
         /\ l = <<"get">> => job[j].steps = <<"clear", "get">>
  <2>1. Tail(job[j].steps) = IF job[j].steps = <<"clear", "get">> THEN <<"get">> ELSE <<>>
    BY <1>2, <1>3, ListFacts
  <2>2. CASE job[j].steps = <<"clear", "get">>
    <3>1. Becomes(j, job[j].kind, <<"get">>)
      BY <1>1, <2>1, <2>2
    <3> QED  BY <2>2, <3>1
  <2>3. CASE job[j].steps # <<"clear", "get">>
    <3>1. Becomes(j, job[j].kind, <<>>) /\ <<>> # <<"get">>
      BY <1>1, <2>1, <2>3
    <3> QED  BY <3>1
  <2> QED  BY <2>2, <2>3
<1>7. l \in Lists /\ l \notin Posting \cup Clearing \cup Saving \cup {<<"read">>, <<"look">>,
                                                                    <<"get", "clear">>}
  <2>1. CASE l = <<>>
    BY <2>1, ListsAre DEF Posting, Clearing, Saving
  <2>2. CASE l = <<"get">>
    BY <2>2, ListsAre DEF Posting, Clearing, Saving
  <2> QED  BY <1>6, <2>1, <2>2
<1>8. /\ \A k \in Jobs \ {j} : job'[k] = job[k]
      /\ job'[j].steps = l /\ job'[j].at = "start"
      /\ l # <<>> => /\ job'[j].id = job[j].id /\ job'[j].plan = job[j].plan
                     /\ job'[j].kind = job[j].kind
  BY <1>3, <1>6, <1>7, BecomesIs
<1>9. Onward
  BY <1>1, <1>3, SameOnward
<1>10. Told' /\ NoneAnswered
  BY <1>1, <1>3, ToldQuiet DEF NoneAnswered
<1>11. l # <<>> => job[j].kind \notin {"write", "left"}
  BY <1>3, <1>6 DEF Shape
<1>12. Orderly'
  <2>1. ASSUME l # <<>>  PROVE Shape(j)'
    BY <1>7, <1>8, <1>11, <2>1 DEF Shape
  <2> QED  BY <1>2, <1>3, <1>6, <1>7, <1>9, <1>11, <2>1, BecomesOrderly
<1>13. FinesKept
  <2>1. \A k \in Jobs : job'[k].at = "served" => job[k].at = "served" /\ job'[k] = job[k]
    BY <1>8
  <2> QED  BY <1>1, <1>3, <2>1, FinesSame
<1>14. ASSUME NEW p \in Plans, NEW k \in Answers(p)', Fine(p, journal[k])
       PROVE  Fine(p, journal[k])'
  BY <1>3, <1>9, <1>10, <1>13, <1>14, FineOnward
<1>15. ASSUME NEW p \in Plans, NEW k \in Answers(p)', i \in {k, p}
       PROVE  Fine(p, journal[k])
  <2>1. k \in Answers(p)
    BY <1>1, <1>15 DEF Answers
  <2> QED  BY <1>2, <1>3, <1>4, <1>15, <2>1 DEF Own, Clears
<1>16. Kept'
  <2>1. ASSUME NEW p \in Plans, NEW k \in Answers(p)'
        PROVE  Fine(p, journal[k])'
    <3>1. k \in Answers(p)
      BY <1>1, <2>1 DEF Answers
    <3>2. Fine(p, journal[k]) \/ i \in {k, p}
      BY <1>3, <1>4, <3>1 DEF Seeing, Kept
    <3> QED  BY <1>14, <1>15, <2>1, <3>2
  <2> QED  BY <2>1 DEF Kept
<1>17. ASSUME NEW c \in Jobs \ {j}  PROVE Own(c)'
  <2>1. Own(c) /\ Shape(c) /\ job'[c] = job[c] /\ Sound(c)
    BY <1>3, <1>8, <1>17 DEF Seeing, Orderly, WritesInv
  <2>2. Posts(c)'
    <3>1. ASSUME job[c].steps \in Posting, job[c].id = i  PROVE fate[i] \in GivenUp
      <4>1. job[c].kind = "write" /\ job[c].steps \notin Saving
        <5>1. job[c].kind \in {"write", "left"} /\ job[c].steps = <<"post">>
          BY <2>1, <3>1 DEF Shape, Posting
        <5> QED  BY <2>1, <5>1 DEF Shape, Saving
      <4>2. job[j].kind \notin {"write", "left"}
        BY <1>3, <4>1 DEF Orderly, Pairs, Left
      <4>3. job[j].kind # "refused"
        BY <1>3, <3>1, <4>1 DEF Orderly, Pairs
      <4> QED  BY <1>2, <1>3, <4>2, <4>3 DEF Shape
    <3> QED  BY <1>1, <1>4, <2>1, <3>1 DEF Own, Posts
  <2>3. Proves(c)'
    <3>1. \A k : k \in Answers(job[c].plan)' => k \in Answers(job[c].plan)
      BY <1>1, <2>1 DEF Answers
    <3> QED  BY <1>1, <2>1, <3>1 DEF Own, Proves
  <2>4. Clears(c)'
    <3>1. ASSUME job[c].steps \in Clearing, NEW p \in Plans, NEW k \in Answers(p)',
                 job[c].id \in {k, p}
          PROVE  Fine(p, journal[k])'
      <4>1. k \in Answers(p)
        BY <1>1, <3>1 DEF Answers
      <4>2. Fine(p, journal[k]) \/ store = p
        BY <2>1, <3>1, <4>1 DEF Own, Clears
      <4> QED  BY <1>4, <1>14, <1>15, <3>1, <4>2
    <3> QED  BY <2>1, <3>1 DEF Clears
  <2>5. Saves(c)'
    <3> SUFFICES ASSUME job'[c].steps \in Saving, Unsent(job[c].id)',
                        NEW k \in Answers(body[job[c].id].plan)'
                 PROVE  After(job[c].id, k)'
      BY DEF Saves
    <3>1. /\ job[c].steps \in Saving /\ Unsent(job[c].id)
          /\ k \in Answers(body[job[c].id].plan)
      BY <1>1, <2>1 DEF Unsent, Answers, IsStart
    <3>2. After(job[c].id, k)
      BY <1>2, <1>4, <2>1, <3>1 DEF Own, Saves
    <3> QED  BY <1>1, <2>1, <3>2 DEF After
  <2>6. Reads(c)'
    <3>1. ASSUME job[c].steps = <<"read">>, job[c].id # None, Unsent(job[c].id)  PROVE FALSE
      BY <1>4, <2>1, <3>1 DEF Own, Reads, Unsent
    <3>2. Unsent(job[c].id)' => Unsent(job[c].id)
      BY <1>1, <2>1 DEF Unsent, IsStart
    <3> QED  BY <2>1, <3>1, <3>2 DEF Reads
  <2> QED  BY <2>2, <2>3, <2>4, <2>5, <2>6 DEF Own
<1>18. Own(j)'
  BY <1>8, OwnSimple
<1>19. StoredAfter'
  BY <1>1 DEF StoredAfter
<1>20. PendingStored'
  <2> SUFFICES ASSUME screen'.pending # None, Unsent(screen.pending)'
               PROVE  \E c \in Jobs : job'[c].kind = "write" /\ job'[c].id = screen'.pending
    BY DEF PendingStored
  <2>1. screen'.pending = screen.pending /\ Unsent(screen.pending)
    BY <1>1, <1>5 DEF Unsent, IsStart
  <2>2. screen.pending # i
    BY <1>4, <2>1 DEF Unsent
  <2>3. PICK c \in Jobs : job[c].kind = "write" /\ job[c].id = screen.pending
    BY <1>3, <1>4, <2>1, <2>2 DEF Seeing, PendingStored
  <2> QED  BY <1>8, <2>1, <2>2, <2>3
<1>21. Seeing'
  BY <1>16, <1>17, <1>18, <1>19, <1>20 DEF Seeing
<1> QED  BY <1>10, <1>12, <1>21 DEF AnswersInv

(* A stale step is refused: its record has nothing more to say.            *)
LEMMA PostRefusedAnswers ==
  ASSUME WritesInv, WritesInv', AnswersInv, NEW j \in Jobs, PostRefused(j)
  PROVE  AnswersInv'
PROOF
<1> DEFINE i == job[j].id
<1>1. /\ UNCHANGED <<body, journal, revision, store, cached>> /\ Refused(i)
      /\ fate' = Fated(i, "refused") /\ Becomes(j, "refused", <<"clear", "get">>)
      /\ screen' = [screen EXCEPT !.failed = FALSE]
  BY DEF PostRefused, server
<1>2. /\ Types /\ Told /\ Orderly /\ Seeing /\ PendingStored /\ Shape(j)
      /\ fate \in [Ids -> Fates]
  BY DEF WritesInv, Types, AnswersInv, Orderly, Seeing
<1>3. job[j].steps = <<"post">> /\ job[j].kind = "write" /\ j \notin Waiting
  <2>1. job[j].steps \in Posting /\ j \notin Waiting
    BY DoingFacts DEF PostRefused, WritesInv
  <2> QED  BY <1>2, <2>1 DEF Shape, Posting
<1>4. /\ i \in Ids /\ i # None /\ body[i] # None /\ fate[i] # "unsent"
      /\ job[j].steps \notin Saving
  <2>1. <<"post">> \notin {<<"save", "post">>, <<"look">>}
    OBVIOUS
  <2> QED  BY <1>2, <1>3, <2>1, WriteUnsent, NumberFacts
<1>5. /\ "refused" \in Kinds /\ <<"clear", "get">> \in Lists
      /\ <<"clear", "get">> \in Clearing
      /\ <<"clear", "get">> \notin Saving \cup Posting \cup {<<"look">>, <<"read">>,
                                                             <<"get", "clear">>}
  BY ListsAre DEF Kinds, Clearing, Saving, Posting
<1>6. /\ \A k \in Jobs \ {j} : job'[k] = job[k]
      /\ job'[j].steps = <<"clear", "get">> /\ job'[j].at = "start"
      /\ job'[j].id = i /\ job'[j].kind = "refused"
  BY <1>1, <1>5, BecomesIs
<1>7. /\ \A k \in Ids \ {i} : fate'[k] = fate[k]
      /\ fate'[i] \in {fate[i], "refused"}
      /\ \A k \in Ids : /\ fate[k] # "unsent" => fate'[k] # "unsent"
                        /\ fate[k] \in GivenUp => fate'[k] \in GivenUp
                        /\ fate[k] \in Over => fate'[k] \in Over
  <2>1. "refused" \in Fates \ {"unsent"}
    BY DEF Fates
  <2> QED  BY <1>1, <1>2, <1>4, <2>1, FatesOnward
<1>8. fate'[i] \in Over
  BY <1>1, <1>2, <1>4 DEF Fated, Over, GivenUp
<1>9. Onward
  BY <1>1, <1>2, <1>7, QuietOnward
<1>10. Told' /\ NoneAnswered
  <2>1. \A k \in Ids : \/ fate'[k] = fate[k]
                       \/ body[k] # None /\ fate'[k] = "refused" /\ Refused(k)
    BY <1>1, <1>4, <1>7
  <2> QED  BY <1>1, <1>2, <2>1, ToldQuiet DEF NoneAnswered
<1>11. Shape(j)'
  BY <1>5, <1>6, <1>8 DEF Shape
<1>12. Orderly'
  BY <1>1, <1>2, <1>3, <1>5, <1>9, <1>11, BecomesOrderly
<1>13. FinesKept
  <2>1. \A k \in Jobs : job'[k].at = "served" => job[k].at = "served" /\ job'[k] = job[k]
    BY <1>6
  <2> QED  BY <1>1, <1>2, <2>1, FinesSame
<1>14. Own(j)'
  <2>1. ASSUME NEW p \in Plans, NEW k \in Answers(p)', i \in {k, p}  PROVE FALSE
    <3>1. k \in Answers(p)
      BY <1>2, <1>9, <1>10, AnswersOnward
    <3>2. journal[k] # None /\ revision[p] # None
      BY <1>2, <3>1, AnswerFacts DEF Reached
    <3> QED  BY <1>1, <1>2, <1>4, <2>1, <3>2 DEF Refused, Told
  <2> QED  BY <1>5, <1>6, <2>1 DEF Own, Posts, Proves, Clears, Saves, Reads
<1>15. PendingStored'
  <2>1. screen'.pending = screen.pending
    BY <1>1, <1>2, ScreenFacts DEF ScreenType
  <2> QED  BY <1>1, <1>2, <1>4, <1>6, <1>9, <2>1, PendingOnward
<1>16. Seeing'
  <2> DEFINE M == {j}
  <2>1. M \in SUBSET Jobs /\ \A k \in Jobs \ M : AsBefore(k)
    BY <1>6 DEF AsBefore
  <2>2. \A k \in M : Own(k)'
    BY <1>14
  <2>3. \A k \in Jobs \ M : job[k].steps \notin Saving
    BY <1>2, <1>3, <1>4, AloneFacts
  <2> HIDE DEF M
  <2> QED  BY <1>1, <1>2, <1>9, <1>10, <1>13, <1>15, <2>1, <2>2, <2>3, SeeingStep
<1> QED  BY <1>10, <1>12, <1>16 DEF AnswersInv

(* The plan is read, and the cache shows it.                               *)
LEMMA GetRepliesAnswers ==
  ASSUME WritesInv, WritesInv', AnswersInv, NEW j \in Jobs, GetReplies(j)
  PROVE  AnswersInv'
PROOF
<1> DEFINE i == job[j].id
           q == job[j].plan
           r == job[j].seen
<1>1. /\ UNCHANGED <<body, journal, revision, store>> /\ Seed(q, r)
      /\ fate' = IF job[j].kind = "reload" /\ i # None THEN Fated(i, "reloaded") ELSE fate
      /\ Becomes(j, job[j].kind, Tail(job[j].steps))
  BY DEF GetReplies, server, Goes
<1>2. /\ Types /\ Told /\ Orderly /\ Seeing /\ PendingStored /\ Shape(j) /\ Sound(j) /\ Own(j)
      /\ fate \in [Ids -> Fates] /\ job[j].kind \in Kinds /\ job[j].steps \in Lists
      /\ i \in Maybe(Ids)
  BY JobFacts DEF WritesInv, Types, AnswersInv, Orderly, Seeing
<1>3. job[j].steps \in Getting /\ job[j].at = "served" /\ j \notin Waiting
  BY DoingFacts DEF GetReplies, WritesInv
<1>4. r \in Revisions /\ q \in Plans /\ Reached(q, r)
  BY <1>2, <1>3 DEF Shape
<1>5. i # None => i \in Ids /\ body[i] # None
  BY <1>2 DEF Sound, Maybe
<1>6. PICK l \in {<<>>, <<"clear">>} :
         /\ Becomes(j, job[j].kind, l)
         /\ l = <<"clear">> <=> job[j].steps = <<"get", "clear">>
  <2>1. Tail(job[j].steps) = IF job[j].steps = <<"get", "clear">> THEN <<"clear">> ELSE <<>>
    BY <1>2, <1>3, ListFacts
  <2>2. CASE job[j].steps = <<"get", "clear">>
    <3>1. Becomes(j, job[j].kind, <<"clear">>)
      BY <1>1, <2>1, <2>2
    <3> QED  BY <2>2, <3>1
  <2>3. CASE job[j].steps # <<"get", "clear">>
    <3>1. Becomes(j, job[j].kind, <<>>) /\ <<>> # <<"clear">>
      BY <1>1, <2>1, <2>3
    <3> QED  BY <2>3, <3>1
  <2> QED  BY <2>2, <2>3
<1>7. l \in Lists
  BY <1>6, ListsAre
<1>8. /\ \A k \in Jobs \ {j} : job'[k] = job[k]
      /\ job'[j].steps = l /\ job'[j].at = "start"
      /\ l # <<>> => job'[j].id = i /\ job'[j].plan = q /\ job'[j].kind = job[j].kind
  BY <1>2, <1>6, <1>7, BecomesIs
<1>9. /\ job[j].kind # "left" /\ job[j].steps \notin Saving
      /\ job[j].kind = "write" => l = <<"clear">>
      /\ l = <<"clear">> => job[j].kind \in {"write", "reload"} /\ i # None
  <2>1. job[j].steps \notin {<<"save", "post">>, <<"save">>, <<"post">>, <<"look">>,
                             <<"clear">>}
    BY <1>3 DEF Getting
  <2>2. l = <<"clear">> => i # None
    BY <1>2, <1>6 DEF Sound
  <2> QED  BY <1>2, <1>6, <2>1, <2>2 DEF Shape, Saving
<1>10. /\ \A k \in Ids : \/ fate'[k] = fate[k]
                         \/ body[k] # None /\ fate'[k] = "reloaded"
       /\ \A k \in Ids : /\ fate[k] # "unsent" => fate'[k] # "unsent"
                         /\ fate[k] \in GivenUp => fate'[k] \in GivenUp
                         /\ fate[k] \in Over => fate'[k] \in Over
       /\ job[j].kind = "reload" /\ i # None => fate'[i] \in GivenUp
  <2>1. CASE job[j].kind = "reload" /\ i # None
    <3>1. "reloaded" \in Fates \ {"unsent"} /\ fate' = Fated(i, "reloaded") /\ i \in Ids
      BY <1>1, <1>5, <2>1 DEF Fates
    <3>2. /\ \A k \in Ids \ {i} : fate'[k] = fate[k]
          /\ fate'[i] \in {fate[i], "reloaded"}
          /\ \A k \in Ids : /\ fate[k] # "unsent" => fate'[k] # "unsent"
                            /\ fate[k] \in GivenUp => fate'[k] \in GivenUp
                            /\ fate[k] \in Over => fate'[k] \in Over
      BY <1>2, <3>1, FatesOnward
    <3>3. fate'[i] \in GivenUp
      BY <1>2, <3>1 DEF Fated, GivenUp
    <3> QED  BY <1>5, <2>1, <3>2, <3>3
  <2>2. CASE ~(job[j].kind = "reload" /\ i # None)
    BY <1>1, <2>2
  <2> QED  BY <2>1, <2>2
<1>11. /\ \A p \in Plans \ {q} : cached'[p] = cached[p]
       /\ cached'[q] \in {cached[q], r} /\ cached'[q] # None
       /\ cached'[q] \in Revisions /\ cached'[q] >= r
       /\ cached[q] # None => cached'[q] >= cached[q]
       /\ \A p \in Plans : cached'[p] \in {cached[p], None} \/ Reached(p, cached'[p])
  <2> HIDE DEF q, r
  <2> QED  BY <1>1, <1>2, <1>4, SeedReaches
<1>12. Onward
  BY <1>1, <1>2, <1>10, QuietOnward
<1>13. Told' /\ NoneAnswered
  BY <1>1, <1>2, <1>10, <1>11, ToldQuiet DEF NoneAnswered
<1>14. ASSUME l # <<>>  PROVE Shape(j)'
  <2>1. /\ l = <<"clear">> /\ job'[j].steps = l /\ job'[j].at = "start" /\ job'[j].id = i
        /\ job'[j].plan = q /\ job'[j].kind = job[j].kind /\ i # None
        /\ job[j].kind \in {"write", "reload"} /\ job[j].steps = <<"get", "clear">>
    BY <1>6, <1>8, <1>9, <1>14
  <2>2. <<"clear">> \notin Saving \cup Posting \cup {<<"look">>, <<"read">>, <<"get", "clear">>}
    BY DEF Saving, Posting
  <2>3. job[j].kind = "write" => q = body'[i].plan
    BY <1>1, <1>2 DEF Shape
  <2>4. job[j].kind = "reload" => fate'[i] \in GivenUp
    BY <1>10, <2>1
  <2> HIDE DEF i, q
  <2> QED  BY <2>1, <2>2, <2>3, <2>4 DEF Shape
<1>15. Orderly'
  BY <1>2, <1>3, <1>6, <1>7, <1>9, <1>12, <1>14, BecomesOrderly
<1>16. FinesKept
  <2>1. \A k \in Jobs : job'[k].at = "served" => job[k].at = "served" /\ job'[k] = job[k]
    BY <1>8
  <2>2. \A p \in Plans :
             \/ cached'[p] = cached[p]
             \/ /\ cached'[p] # None
                /\ cached[p] # None => cached'[p] >= cached[p]
                /\ cached[p] = None =>
                      \/ cached'[p] = revision[p]
                      \/ \E k \in Jobs : /\ job[k].at = "served" /\ job[k].plan = p
                                         /\ cached'[p] = job[k].seen
    BY <1>3, <1>11
  <2> HIDE DEF i, q, r
  <2> QED  BY <1>2, <2>1, <2>2, FinesMoved
<1>17. Own(j)'
  <2>1. CASE l = <<>>
    BY <1>8, <2>1, OwnSimple
  <2>2. CASE l = <<"clear">>
    <3>1. ASSUME NEW p \in Plans, NEW k \in Answers(p)', i \in {k, p}
          PROVE  Fine(p, journal[k])'
      <4>1. /\ k \in Answers(p) /\ fate'[k] = "answered" /\ journal'[k] = journal[k]
            /\ p \in Ids => fate'[p] \notin GivenUp
        BY <1>2, <1>12, <1>13, AnswersOnward
      <4>2. /\ k \in Ids /\ body[k].plan = p /\ revision[p] # None /\ journal[k] \in Nat
        BY <1>2, <4>1, AnswerFacts DEF Reached
      <4>3. i \in Ids /\ i # None /\ job[j].steps = <<"get", "clear">>
        BY <1>5, <1>6, <1>9, <2>2
      <4>4. job[j].kind = "write"
        <5>1. fate'[i] \notin GivenUp
          BY <3>1, <4>1, <4>3 DEF GivenUp
        <5> QED  BY <1>9, <1>10, <2>2, <4>3, <5>1
      <4>5. q = p
        <5>1. q = body[i].plan
          BY <1>2, <4>4 DEF Shape
        <5>2. CASE i = k
          BY <4>2, <5>1, <5>2
        <5>3. CASE i = p
          BY <1>2, <4>2, <4>3, <5>1, <5>3 DEF Told, IsStart
        <5> QED  BY <3>1, <5>2, <5>3
      <4>6. r >= journal[k]
        BY <1>2, <1>3, <4>1, <4>3, <4>4, <4>5 DEF Own, Proves
      <4>7. cached'[p] # None /\ cached'[p] >= journal'[k]
        <5>1. cached'[p] \in Nat /\ r \in Nat /\ cached'[p] >= r /\ cached'[p] # None
          BY <1>4, <1>11, <4>5, NumberFacts
        <5> QED  BY <4>1, <4>2, <4>6, <5>1
      <4> QED  BY <4>7 DEF Fine
    <3>2. <<"clear">> \notin Posting \cup Saving \cup {<<"get", "clear">>, <<"read">>}
      BY DEF Posting, Saving
    <3>3. job'[j].steps = <<"clear">> /\ job'[j].id = i
      BY <1>8, <2>2
    <3> QED  BY <3>1, <3>2, <3>3 DEF Own, Posts, Proves, Clears, Saves, Reads
  <2> QED  BY <1>6, <2>1, <2>2
<1>18. PendingStored'
  <2>1. screen'.pending \in {screen.pending, None}
    <3> DEFINE n == IF job[j].kind = "refused" THEN None ELSE screen.pending
    <3>1. \E f, u : screen' = [screen EXCEPT !.pending = n, !.failed = f, !.unloaded = u]
      BY DEF GetReplies
    <3> QED  BY <1>2, <3>1, ScreenFacts DEF ScreenType
  <2>2. \A k \in Jobs : \/ job'[k].kind = job[k].kind /\ job'[k].id = job[k].id
                        \/ job[k].kind # "write"
    <3>1. <<"clear">> # <<>>
      OBVIOUS
    <3> QED  BY <1>8, <1>9, <3>1
  <2> HIDE DEF i, q, r
  <2> QED  BY <1>1, <1>2, <1>12, <2>1, <2>2, PendingOnward
<1>19. Seeing'
  <2> DEFINE M == {j}
  <2>1. M \in SUBSET Jobs /\ \A k \in Jobs \ M : AsBefore(k)
    BY <1>8 DEF AsBefore
  <2>2. \A k \in M : Own(k)'
    BY <1>17
  <2>3. \A k \in M : job'[k].steps \in Clearing =>
            \/ fate'[job'[k].id] \in GivenUp
            \/ \A m \in Jobs \ M : job[m].steps \notin Saving
    <3>1. ASSUME job'[j].steps \in Clearing
          PROVE  \/ fate'[job'[j].id] \in GivenUp
                 \/ \A m \in Jobs : job[m].steps \notin Saving
      <4>1. <<>> \notin Clearing /\ <<"clear">> # <<>>
        BY DEF Clearing
      <4>2. l = <<"clear">> /\ job'[j].id = i
        BY <1>6, <1>8, <3>1, <4>1
      <4>3. CASE job[j].kind = "reload"
        BY <1>9, <1>10, <4>2, <4>3
      <4>4. CASE job[j].kind = "write"
        BY <1>2, <1>9, <4>4, AloneFacts
      <4> QED  BY <1>9, <4>2, <4>3, <4>4
    <3> QED  BY <3>1
  <2> HIDE DEF M, i, q, r
  <2> QED  BY <1>1, <1>2, <1>12, <1>13, <1>16, <1>18, <2>1, <2>2, <2>3, SeeingStep
<1> QED  BY <1>13, <1>15, <1>19 DEF AnswersInv

(* A write is answered: its record stays until its plan has been read.     *)
LEMMA PostAnsweredAnswers ==
  ASSUME WritesInv, WritesInv', AnswersInv, NEW j \in Jobs, PostAnswered(j)
  PROVE  AnswersInv'
PROOF
<1> DEFINE i == job[j].id
           r == journal[i]
<1>1. /\ UNCHANGED <<body, journal, revision, store>> /\ r # None
      /\ fate' = Fated(i, "answered") /\ Becomes(j, job[j].kind, <<"get", "clear">>)
      /\ IF IsStart(i) THEN Seed(i, r) ELSE cached' = cached
      /\ screen' = [screen EXCEPT !.failed = FALSE]
  BY DEF PostAnswered, server, Goes, Proven
<1>2. /\ Types /\ Told /\ Orderly /\ Seeing /\ PendingStored /\ Shape(j) /\ Posts(j)
      /\ fate \in [Ids -> Fates] /\ Told
  BY DEF WritesInv, Types, AnswersInv, Orderly, Seeing, Own
<1>3. job[j].steps = <<"post">> /\ job[j].kind = "write" /\ j \notin Waiting
  <2>1. job[j].steps \in Posting /\ j \notin Waiting
    BY DoingFacts DEF PostAnswered, WritesInv
  <2> QED  BY <1>2, <2>1 DEF Shape, Posting
<1>4. /\ i \in Ids /\ i # None /\ body[i] # None /\ fate[i] # "unsent"
      /\ job[j].plan = body[i].plan /\ job[j].steps \notin Saving
  <2>1. <<"post">> \notin {<<"save", "post">>, <<"look">>}
    OBVIOUS
  <2> QED  BY <1>2, <1>3, <2>1, WriteUnsent, NumberFacts
<1>5. r \in Revisions /\ Reached(body[i].plan, r) /\ i \in Plans
  BY <1>1, <1>2, <1>4, NumberFacts DEF Told, Types, Maybe
<1>6. /\ "write" \in Kinds /\ <<"get", "clear">> \in Lists
      /\ <<"get", "clear">> \notin Clearing \cup Saving \cup Posting \cup {<<"look">>, <<"read">>}
  BY ListsAre DEF Kinds, Clearing, Saving, Posting
<1>7. /\ \A k \in Jobs \ {j} : job'[k] = job[k]
      /\ job'[j].steps = <<"get", "clear">> /\ job'[j].at = "start"
      /\ job'[j].id = i /\ job'[j].plan = job[j].plan /\ job'[j].kind = "write"
  BY <1>1, <1>3, <1>6, BecomesIs
<1>8. /\ \A k \in Ids \ {i} : fate'[k] = fate[k]
      /\ fate'[i] \in {fate[i], "answered"} /\ fate'[i] # "unsent"
      /\ \A k \in Ids : /\ fate[k] # "unsent" => fate'[k] # "unsent"
                        /\ fate[k] \in GivenUp => fate'[k] \in GivenUp
                        /\ fate[k] \in Over => fate'[k] \in Over
  <2>1. "answered" \in Fates \ {"unsent"}
    BY DEF Fates
  <2>2. fate[i] # "refused"
    BY <1>1, <1>2, <1>4 DEF Told, Refused
  <2> QED  BY <1>1, <1>2, <1>4, <2>1, <2>2, FatesOnward
<1>9. /\ \A p \in Plans : \/ cached'[p] = cached[p]
                          \/ /\ p = i /\ IsStart(i) /\ cached'[p] # None
                             /\ cached[p] # None => cached'[p] >= cached[p]
      /\ \A p \in Plans : cached'[p] \in {cached[p], None} \/ Reached(p, cached'[p])
  <2>1. CASE IsStart(i)
    <3>1. Seed(i, r) /\ Reached(i, r)
      BY <1>1, <1>5, <2>1 DEF IsStart
    <3> HIDE DEF i, r
    <3> QED  BY <1>2, <1>5, <2>1, <3>1, SeedReaches
  <2>2. CASE ~IsStart(i)
    BY <1>1, <2>2
  <2> QED  BY <2>1, <2>2
<1>10. Onward
  BY <1>1, <1>2, <1>8, QuietOnward
<1>11. Told'
  <2>1. \A k \in Ids : \/ fate'[k] = fate[k]
                       \/ body[k] # None /\ fate'[k] = "answered" /\ journal[k] # None
    BY <1>1, <1>4, <1>8
  <2> QED  BY <1>1, <1>2, <1>9, <2>1, ToldQuiet
<1>12. Shape(j)'
  BY <1>1, <1>4, <1>6, <1>7 DEF Shape
<1>13. Orderly'
  BY <1>1, <1>2, <1>3, <1>6, <1>10, <1>12, BecomesOrderly
<1>14. ASSUME NEW p \in Plans, NEW k \in Answers(p)'
       PROVE  /\ k \in Ids /\ k # None /\ body[k].plan = p /\ fate'[k] = "answered"
              /\ journal'[k] = journal[k] /\ journal[k] \in Nat
              /\ revision[p] # None
              /\ p \in Ids => fate[p] \notin GivenUp /\ fate'[p] \notin GivenUp
              /\ k \in Answers(p) \/ (k = i /\ store = i)
  <2>1. /\ k \in Ids /\ fate'[k] = "answered" /\ body[k].plan = p
        /\ p \in Ids => fate'[p] \notin GivenUp
    BY <1>1, <1>14 DEF Answers
  <2>2. p \in Ids => fate[p] \notin GivenUp
    BY <1>8, <2>1
  <2>3. journal[k] # None /\ revision[p] # None /\ journal'[k] = journal[k]
    BY <1>1, <1>2, <1>11, <2>1 DEF Told, Reached
  <2>4. journal[k] \in Nat /\ k # None
    BY <1>2, <2>1, <2>3, NumberFacts DEF Types, Maybe
  <2>5. CASE k = i
    <3>1. fate[i] \notin GivenUp
      BY <1>4, <1>8, <2>1, <2>5 DEF GivenUp
    <3>2. store = i
      BY <1>2, <1>3, <3>1 DEF Posts, Posting
    <3> QED  BY <2>1, <2>2, <2>3, <2>4, <2>5, <3>2
  <2>6. CASE k # i
    <3>1. fate[k] = "answered"
      BY <1>8, <2>1, <2>6
    <3>2. k \in Answers(p)
      BY <2>1, <2>2, <3>1 DEF Answers
    <3> QED  BY <2>1, <2>2, <2>3, <2>4, <3>2
  <2> QED  BY <2>5, <2>6
<1>15. ASSUME NEW p \in Plans, NEW k \in Answers(p)', Fine(p, journal[k])
       PROVE  Fine(p, journal[k])' \/ store = p
  <2>1. /\ journal'[k] = journal[k] /\ journal[k] \in Nat
        /\ p \in Ids => fate[p] \notin GivenUp
    BY <1>14, <1>15
  <2>2. /\ cached[p] # None => cached[p] \in Nat
        /\ cached'[p] # None => cached'[p] \in Nat
    BY NumberFacts DEF WritesInv, Types, Maybe
  <2>3. CASE cached'[p] = cached[p]
    <3>1. \A c \in Jobs : job'[c].at = "served" => job'[c] = job[c]
      BY <1>7
    <3>2. cached'[p] # None => cached'[p] >= journal'[k]
      BY <1>15, <2>1, <2>3 DEF Fine
    <3>3. cached'[p] = None =>
              \A c \in Jobs : job'[c].at = "served" /\ job'[c].plan = p =>
                                  job'[c].seen >= journal'[k]
      BY <1>15, <2>1, <2>3, <3>1 DEF Fine
    <3> QED  BY <3>2, <3>3 DEF Fine
  <2>4. CASE cached'[p] # None /\ cached[p] # None /\ cached'[p] >= cached[p]
    <3>1. cached[p] >= journal[k]
      BY <1>15, <2>4 DEF Fine
    <3>2. cached'[p] >= journal'[k]
      BY <2>1, <2>2, <2>4, <3>1
    <3> QED  BY <2>4, <3>2 DEF Fine
  <2>5. CASE p = i
    <3>1. fate[i] \notin GivenUp
      BY <1>4, <2>1, <2>5
    <3> QED  BY <1>2, <1>3, <2>5, <3>1 DEF Posts, Posting
  <2> QED  BY <1>9, <2>3, <2>4, <2>5
<1>16. Kept'
  <2>1. ASSUME NEW p \in Plans, NEW k \in Answers(p)'
        PROVE  Fine(p, journal[k])' \/ store' \in {k, p}
    <3>1. k \in Answers(p) \/ store = k
      BY <1>14, <2>1
    <3>2. Fine(p, journal[k]) \/ store \in {k, p}
      BY <1>2, <3>1 DEF Seeing, Kept
    <3> QED  BY <1>1, <1>15, <2>1, <3>2
  <2> QED  BY <2>1 DEF Kept
<1>17. ASSUME NEW c \in Jobs \ {j}  PROVE Own(c)'
  <2>1. Own(c) /\ Sound(c) /\ job'[c] = job[c] /\ job[c].id \in Maybe(Ids)
    BY <1>2, <1>7, <1>17, JobFacts DEF Seeing, WritesInv
  <2>2. job[c].id # None => job[c].id \in Ids /\ body[job[c].id] # None
    BY <2>1 DEF Sound, Maybe
  <2>3. job[c].steps \notin Saving /\ (job[c].steps \in Clearing => fate[job[c].id] \in Over)
    BY <1>2, <1>3, <1>4, <1>17, AloneFacts
  <2>4. job[c].kind # "write"
    BY <1>2, <1>3, <1>17 DEF Orderly, Pairs
  <2>5. Posts(c)'
    <3>1. job[c].steps \in Posting => job[c].id # None
      BY <2>1 DEF Sound
    <3> QED  BY <1>1, <1>8, <2>1, <2>2, <3>1 DEF Own, Posts
  <2>6. Clears(c)'
    <3>1. ASSUME job[c].steps \in Clearing, NEW p \in Plans, NEW k \in Answers(p)',
                 job[c].id \in {k, p}
          PROVE  FALSE
      <4>1. job[c].id \in Ids
        BY <2>1, <2>2, <3>1 DEF Sound
      <4>2. fate'[job[c].id] \in Over
        BY <1>8, <2>3, <3>1, <4>1
      <4>3. /\ fate'[k] = "answered" /\ revision[p] # None
            /\ p \in Ids => fate'[p] \notin GivenUp
        BY <1>14, <3>1
      <4>4. job[c].id = p /\ fate'[p] = "refused"
        BY <3>1, <4>1, <4>2, <4>3 DEF Over, GivenUp
      <4>5. journal'[p] = None
        BY <1>11, <4>1, <4>4 DEF Told, Refused
      <4> QED  BY <1>1, <1>2, <4>1, <4>3, <4>4, <4>5 DEF Told
    <3> QED  BY <2>1, <3>1 DEF Clears
  <2>7. Reads(c)'
    <3> SUFFICES ASSUME job'[c].steps = <<"read">>, job'[c].id # None, Unsent(job[c].id)'
                 PROVE  store' = job'[c].id
      BY DEF Reads
    <3>1. PICK d \in Ids : d = job[c].id /\ body[d] # None
      BY <2>1, <2>2
    <3>2. Unsent(d)'
      BY <2>1, <3>1 DEF Unsent, IsStart
    <3>3. Unsent(d)
      BY <1>10, <3>1, <3>2, UnsentOnward
    <3> QED  BY <1>1, <2>1, <3>1, <3>3 DEF Own, Reads
  <2> QED  BY <2>1, <2>3, <2>4, <2>5, <2>6, <2>7 DEF Own, Proves, Saves
<1>18. Own(j)'
  BY <1>7, OwnSimple
<1>19. StoredAfter'
  <2> SUFFICES ASSUME store' # None, Unsent(store)', NEW k \in Answers(body[store].plan)'
               PROVE  After(store, k)'
    BY DEF StoredAfter
  <2>1. PICK d \in Ids : d = store /\ body[d] # None
    BY <1>1, <1>2 DEF WritesInv, Types, Known, Maybe
  <2>2. Unsent(d)'
    BY <1>1, <2>1 DEF Unsent, IsStart
  <2>3. Unsent(d) /\ body'[d] = body[d] /\ body[d].plan \in Plans
    BY <1>10, <2>1, <2>2, UnsentOnward
  <2>4. PICK p \in Plans : p = body[d].plan
    BY <2>3
  <2>5. k \in Answers(p)'
    BY <1>1, <2>1, <2>4 DEF Answers
  <2>6. d # i
    BY <1>8, <2>2 DEF Unsent
  <2>7. k \in Answers(p) /\ journal'[k] = journal[k]
    BY <1>14, <2>1, <2>5, <2>6
  <2>8. After(d, k)
    BY <1>2, <2>1, <2>3, <2>4, <2>7, NumberFacts DEF Seeing, StoredAfter
  <2> QED  BY <1>1, <2>1, <2>7, <2>8 DEF After
<1>20. PendingStored'
  <2>1. screen'.pending = screen.pending
    BY <1>1, <1>2, ScreenFacts DEF ScreenType
  <2>2. \A k \in Jobs : job'[k].kind = job[k].kind /\ job'[k].id = job[k].id
    BY <1>3, <1>7
  <2> QED  BY <1>1, <1>2, <1>10, <2>1, <2>2, PendingOnward
<1>21. Seeing'
  BY <1>16, <1>17, <1>18, <1>19, <1>20 DEF Seeing
<1> QED  BY <1>11, <1>13, <1>21 DEF AnswersInv

(* The server goes on, and the device is as it was.                        *)
LEMMA ServerGrows ==
  ASSUME WritesInv, WritesInv', AnswersInv,
         UNCHANGED <<body, store, queue, job, screen, cached, fate>>,
         \A q \in Plans : revision[q] # None =>
             revision'[q] # None /\ revision'[q] >= revision[q],
         \A k \in Ids : journal[k] # None => journal'[k] = journal[k],
         \A k \in Ids : journal'[k] # journal[k] =>
             /\ ~Refused(k) /\ body[k] # None
             /\ revision'[body[k].plan] = journal'[k],
         \A q \in Ids : revision[q] = None /\ revision'[q] # None =>
             IsStart(q) /\ journal'[q] # None
  PROVE  AnswersInv'
PROOF
<1>1. /\ Types /\ Types' /\ Known /\ Told /\ Orderly /\ Seeing /\ PendingStored
  BY DEF WritesInv, AnswersInv, Seeing
<1>2. Onward
  BY DEF Onward
<1>3. ASSUME NEW k \in Ids, body[k] # None
      PROVE  /\ body[k].plan \in Plans
             /\ ~IsStart(k) => body[k].expected \in Revisions /\ body[k].expected \in Nat
  <2>1. body[k].plan \in Plans /\ (IsStart(k) \/ body[k].expected \in 0..(MaxRevision - 1))
    BY <1>1, <1>3, BodyFacts DEF Known, IsStart
  <2> QED  BY <2>1, ClientWritesAssumption DEF Revisions
<1>4. \A k \in Ids : journal'[k] # None =>
          body'[k] # None /\ revision'[body'[k].plan] # None
                          /\ revision'[body'[k].plan] >= journal'[k]
  <2>1. ASSUME NEW k \in Ids, journal'[k] # None, journal'[k] = journal[k]
        PROVE  body[k] # None /\ revision'[body[k].plan] # None
                              /\ revision'[body[k].plan] >= journal'[k]
    <3>1. body[k] # None /\ Reached(body[k].plan, journal[k]) /\ journal[k] \in Revisions
      BY <1>1, <2>1 DEF Told, Types, Maybe
    <3>2. PICK p \in Plans : p = body[k].plan
      BY <1>3, <3>1
    <3>3. PICK r \in Revisions : r = journal[k]
      BY <3>1
    <3> QED  BY <1>1, <1>2, <2>1, <3>1, <3>2, <3>3, ReachedOnward
  <2>2. ASSUME NEW k \in Ids, journal'[k] # None, journal'[k] # journal[k]
        PROVE  body[k] # None /\ revision'[body[k].plan] # None
                              /\ revision'[body[k].plan] >= journal'[k]
    <3>1. journal'[k] \in Nat
      BY <1>1, <2>2, NumberFacts DEF Types, Maybe
    <3> QED  BY <2>2, <3>1
  <2> QED  BY <2>1, <2>2
<1>5. \A q \in Ids : revision'[q] # None => body'[q].plan = q /\ journal'[q] # None
  BY <1>1 DEF Told, IsStart
<1>6. ASSUME NEW k \in Ids, body[k] # None, ~IsStart(k)
      PROVE  revision'[body[k].plan] # None /\ revision'[body[k].plan] >= body[k].expected
  <2>1. PICK p \in Plans : p = body[k].plan
    BY <1>3, <1>6
  <2>2. PICK r \in Revisions : r = body[k].expected
    BY <1>3, <1>6
  <2>3. Reached(p, r)
    BY <1>1, <1>6, <2>1, <2>2 DEF Told
  <2> QED  BY <1>1, <1>2, <2>1, <2>2, <2>3, ReachedOnward
<1>7. \A p \in Plans : cached'[p] # None => revision'[p] # None /\ revision'[p] >= cached'[p]
  <2>1. ASSUME NEW p \in Plans, cached[p] # None
        PROVE  revision'[p] # None /\ revision'[p] >= cached[p]
    <3>1. cached[p] \in Revisions /\ Reached(p, cached[p])
      BY <1>1, <2>1 DEF Told, Types, Maybe
    <3>2. PICK r \in Revisions : r = cached[p]
      BY <3>1
    <3> QED  BY <1>1, <1>2, <3>1, <3>2, ReachedOnward
  <2> QED  BY <2>1
<1>8. ASSUME NEW k \in Ids, fate[k] = "refused"
      PROVE  /\ journal'[k] = None /\ body[k].plan # k
             /\ revision'[body[k].plan] # body[k].expected
  <2>1. Refused(k) /\ body[k] # None
    BY <1>1, <1>8 DEF Told
  <2>2. journal'[k] = None /\ ~IsStart(k)
    BY <2>1 DEF Refused
  <2>3. PICK p \in Plans : p = body[k].plan
    BY <1>3, <2>1
  <2>4. /\ revision[p] # None /\ revision[p] >= body[k].expected
        /\ revision[p] # body[k].expected
    BY <1>1, <2>1, <2>2, <2>3 DEF Told, Reached, Refused
  <2>5. /\ revision[p] \in Nat /\ revision'[p] \in Nat /\ body[k].expected \in Nat
        /\ revision'[p] >= revision[p]
    <3>1. revision'[p] # None /\ revision'[p] >= revision[p]
      BY <2>4
    <3>2. revision'[p] \in Nat
      BY <1>1, <3>1, NumberFacts DEF Types, Maybe
    <3> QED  BY <1>1, <1>3, <2>1, <2>2, <2>4, <3>1, <3>2, RevisionFacts
  <2> QED  BY <2>2, <2>3, <2>4, <2>5 DEF IsStart
<1>9. Told'
  <2>1. \A k \in Ids : fate'[k] # "unsent" => body'[k] # None
    BY <1>1 DEF Told
  <2>2. \A k \in Ids : fate'[k] = "answered" => journal'[k] # None
    BY <1>1 DEF Told
  <2>3. \A k \in Ids : body'[k] # None /\ body'[k].plan # k =>
            revision'[body'[k].plan] # None /\ revision'[body'[k].plan] >= body'[k].expected
    BY <1>6 DEF IsStart
  <2>4. \A k \in Ids : fate'[k] = "refused" =>
            /\ journal'[k] = None /\ body'[k].plan # k
            /\ revision'[body'[k].plan] # body'[k].expected
    BY <1>8
  <2> QED  BY <1>4, <1>5, <1>7, <2>1, <2>2, <2>3, <2>4 DEF Told, Reached, Refused, IsStart
<1>10. Orderly'
  <2>1. \A k \in Jobs : Shape(k)'
    BY <1>1, <1>2, ShapeOthers DEF Orderly
  <2>2. Left' = Left /\ First(Left', queue')
    BY <1>1 DEF Left, Orderly
  <2> QED  BY <1>1, <2>1, <2>2 DEF Orderly, Pairs
<1>11. FinesKept /\ NoneAnswered
  BY <1>1, FinesSame DEF NoneAnswered
<1>12. PendingStored'
  BY <1>1, <1>2, PendingOnward
<1>13. Seeing'
  <2> DEFINE M == {}
  <2>1. M \in SUBSET Jobs /\ \A k \in Jobs \ M : AsBefore(k)
    BY DEF AsBefore
  <2>2. \A k \in M : FALSE
    OBVIOUS
  <2> HIDE DEF M
  <2> QED  BY <1>1, <1>2, <1>11, <1>12, <2>1, <2>2, SeeingStep
<1> QED  BY <1>9, <1>10, <1>13 DEF AnswersInv

LEMMA ServesAnswers ==
  ASSUME WritesInv, WritesInv', AnswersInv, NEW i \in Ids, Serves(i)
  PROVE  AnswersInv'
PROOF
<1> DEFINE p == body[i].plan
           applied == journal[i] = None /\ (IsStart(i) \/ revision[p] = body[i].expected)
           next == IF IsStart(i) THEN 0 ELSE revision[p] + 1
<1>1. /\ UNCHANGED <<body, store, queue, job, screen, cached, fate>>
      /\ journal' = IF applied THEN [journal EXCEPT ![i] = next] ELSE journal
      /\ revision' = IF applied THEN [revision EXCEPT ![p] = next] ELSE revision
      /\ body[i] # None
  BY DEF Serves, WritesInv, Known
<1>2. /\ Types /\ Told /\ body[i].plan \in Plans
      /\ journal \in [Ids -> Maybe(Revisions)] /\ revision \in [Plans -> Maybe(Revisions)]
  BY <1>1, BodyFacts DEF WritesInv, AnswersInv, Types
<1>3. CASE applied
  <2>1. /\ journal[i] = None /\ ~Refused(i)
        /\ IsStart(i) => p = i /\ revision[i] = None
        /\ ~IsStart(i) => revision[p] # None
    BY <1>1, <1>2, <1>3 DEF Told, Refused, IsStart, Reached
  <2>2. /\ next \in Nat /\ next # None
        /\ revision[p] # None => next >= revision[p]
    <3>1. CASE IsStart(i)
      BY <2>1, <3>1, ClientWritesAssumption
    <3>2. CASE ~IsStart(i)
      <4>1. revision[p] \in Nat
        BY <1>2, <2>1, <3>2, RevisionFacts
      <4> QED  BY <3>2, <4>1, ClientWritesAssumption
    <3> QED  BY <3>1, <3>2
  <2>3. /\ journal' = [journal EXCEPT ![i] = next] /\ revision' = [revision EXCEPT ![p] = next]
    BY <1>1, <1>3
  <2>4. IsStart(i) <=> p = i
    BY DEF IsStart
  <2> HIDE DEF next, applied, p
  <2>5. /\ journal'[i] = next /\ \A k \in Ids \ {i} : journal'[k] = journal[k]
        /\ revision'[p] = next /\ \A q \in Plans \ {p} : revision'[q] = revision[q]
    BY <1>2, <2>3 DEF p
  <2>6. \A q \in Plans : revision[q] # None =>
             revision'[q] # None /\ revision'[q] >= revision[q]
    BY <1>2, <2>2, <2>5, RevisionFacts
  <2>7. \A q \in Ids : revision[q] = None /\ revision'[q] # None =>
             IsStart(q) /\ journal'[q] # None
    BY <2>1, <2>2, <2>5, NumberFacts
  <2>8. \A k \in Ids : journal'[k] # journal[k] =>
             /\ ~Refused(k) /\ body[k] # None
             /\ revision'[body[k].plan] = journal'[k]
    BY <1>1, <2>1, <2>5 DEF p
  <2>9. \A k \in Ids : journal[k] # None => journal'[k] = journal[k]
    BY <2>1, <2>5
  <2> QED  BY <1>1, <2>6, <2>7, <2>8, <2>9, ServerGrows
<1>4. CASE ~applied
  <2>1. journal' = journal /\ revision' = revision
    BY <1>1, <1>4
  <2>2. \A q \in Plans : revision[q] # None => revision'[q] >= revision[q]
    BY <1>2, <2>1, RevisionFacts
  <2> QED  BY <1>1, <2>1, <2>2, ServerGrows
<1> QED  BY <1>3, <1>4

LEMMA OtherDeviceAnswers ==
  ASSUME WritesInv, WritesInv', AnswersInv, NEW p \in Plans, OtherDevice(p)
  PROVE  AnswersInv'
PROOF
<1>1. /\ UNCHANGED <<body, journal, store, queue, job, screen, cached, fate>>
      /\ revision' = [revision EXCEPT ![p] = revision[p] + 1]
      /\ revision \in [Plans -> Maybe(Revisions)] /\ Types
  BY DEF OtherDevice, WritesInv, Types
<1>2. revision[p] \in 0..(MaxRevision - 1)
  BY ClientWritesAssumption DEF OtherDevice
<1>3. revision[p] \in Nat /\ revision[p] # None /\ revision[p] + 1 # None
  BY <1>2, ClientWritesAssumption
<1>4. revision'[p] = revision[p] + 1 /\ \A q \in Plans \ {p} : revision'[q] = revision[q]
  BY <1>1
<1>5. \A q \in Plans : revision[q] # None =>
           revision'[q] # None /\ revision'[q] >= revision[q]
  BY <1>1, <1>3, <1>4, RevisionFacts
<1>6. \A q \in Ids : revision[q] = None => revision'[q] = None
  BY <1>3, <1>4, NumberFacts
<1> QED  BY <1>1, <1>5, <1>6, ServerGrows

(* A job begins.                                                           *)
LEMMA BeginsAnswers ==
  ASSUME WritesInv, WritesInv', AnswersInv, Told', Onward, NoneAnswered, store' = store,
         NEW kind \in Kinds \ {"left", "refused"}, NEW id \in Maybe(Ids),
         NEW plan \in Maybe(Plans),
         NEW l \in {<<"read">>, <<"get">>, <<"save", "post">>, <<"clear">>, <<"clear", "get">>,
                    <<"get", "clear">>},
         Begins(kind, id, plan, l),
         kind = "write" <=> l = <<"save", "post">>,
         l = <<"read">> => kind = "hydrate" /\ id = None,
         l = <<"get", "clear">> => kind = "reload",
         l \in {<<"clear">>, <<"clear", "get">>} => fate'[id] \in GivenUp,
         kind = "write" => /\ id # None /\ plan = body'[id].plan
                           /\ \A k \in Jobs : /\ job[k].kind # "write"
                                              /\ job[k].kind = "refused" => job[k].id # id,
         kind = "write" /\ Unsent(id)' =>
             \A k \in Answers(plan)' :
                \/ After(id, k)'
                \/ /\ store \in {k, plan}
                   /\ \A c \in Jobs : job[c].steps \in Clearing => job[c].id # store,
         \/ screen'.pending \in {screen.pending, None}
         \/ kind = "write" /\ screen'.pending = id,
         \A p \in Plans :
             \/ cached'[p] = cached[p]
             \/ /\ cached'[p] # None
                /\ cached[p] # None => cached'[p] >= cached[p]
                /\ cached[p] = None => cached'[p] = revision[p]
  PROVE  AnswersInv'
PROOF
<1>1. Types /\ Told /\ Orderly /\ Seeing /\ PendingStored
  BY DEF WritesInv, AnswersInv, Seeing
<1>2. /\ l \in Lists /\ l \notin Posting \cup {<<"look">>}
      /\ l \in Saving <=> l = <<"save", "post">>
      /\ l \in Clearing <=> l \in {<<"clear">>, <<"clear", "get">>}
  BY ListsAre DEF Saving, Clearing, Posting
<1>3. PICK j \in Jobs :
         /\ job[j] = Idle /\ LinesUp(j, l) /\ j \notin Waiting
         /\ \A k \in Jobs \ {j} : job'[k] = job[k]
         /\ job'[j].kind = kind /\ job'[j].id = id /\ job'[j].plan = plan
         /\ job'[j].steps = l /\ job'[j].at = "start"
  <2>1. kind \in Kinds
    OBVIOUS
  <2> QED  BY <1>2, <2>1, BeginsIs
<1>4. Shape(j)'
  BY <1>2, <1>3 DEF Shape
<1>5. Orderly'
  BY <1>1, <1>2, <1>3, <1>4, BeginsOrderly
<1>6. FinesKept
  <2>1. \A k \in Jobs : job'[k].at = "served" => job[k].at = "served" /\ job'[k] = job[k]
    BY <1>3
  <2> QED  BY <1>1, <2>1, FinesMoved
<1>7. Own(j)'
  <2>1. CASE l \in {<<"read">>, <<"get">>, <<"get", "clear">>}
    BY <1>3, <2>1, OwnSimple
  <2>2. CASE l \in {<<"clear">>, <<"clear", "get">>}
    <3>1. ASSUME NEW p \in Plans, NEW k \in Answers(p)', id \in {k, p}  PROVE FALSE
      <4>1. /\ k \in Ids /\ fate'[k] = "answered" /\ (p \in Ids => fate'[p] \notin GivenUp)
        BY <3>1 DEF Answers
      <4>2. id # None
        <5>1. p # None /\ k # None
          BY <4>1, NumberFacts
        <5> QED  BY <3>1, <5>1
      <4>3. id \in Ids /\ fate'[id] \in GivenUp
        BY <2>2, <4>2 DEF Maybe
      <4> QED  BY <3>1, <4>1, <4>3 DEF GivenUp
    <3>2. l \notin Saving \cup Posting \cup {<<"get", "clear">>, <<"read">>}
      BY <1>2, <2>2
    <3> QED  BY <1>3, <3>1, <3>2 DEF Own, Posts, Proves, Clears, Saves, Reads
  <2>3. CASE l = <<"save", "post">>
    <3>1. Saves(j)'
      <4> SUFFICES ASSUME Unsent(job[j].id)', NEW k \in Answers(body[job[j].id].plan)'
                   PROVE  \/ After(job[j].id, k)'
                          \/ /\ store' \in {k, body'[job'[j].id].plan}
                             /\ \A c \in Jobs : job'[c].steps \in Clearing => job'[c].id # store'
        BY DEF Saves
      <4>1. Unsent(id)' /\ plan = body'[id].plan
        BY <1>3, <2>3 DEF Unsent, IsStart
      <4>2. k \in Answers(plan)'
        BY <1>3, <4>1 DEF Answers
      <4>3. \/ After(id, k)'
            \/ /\ store \in {k, plan}
               /\ \A c \in Jobs : job[c].steps \in Clearing => job[c].id # store
        BY <2>3, <4>1, <4>2
      <4>4. \A c \in Jobs : job'[c].steps \in Clearing =>
                                job[c].steps \in Clearing /\ job'[c].id = job[c].id
        BY <1>2, <1>3, <2>3
      <4> QED  BY <1>3, <4>1, <4>3, <4>4 DEF After
    <3>2. l \notin Clearing \cup Posting \cup {<<"get", "clear">>, <<"read">>}
      BY <1>2, <2>3
    <3> QED  BY <1>3, <3>1, <3>2 DEF Own, Posts, Proves, Clears, Reads
  <2> QED  BY <2>1, <2>2, <2>3
<1>8. PendingStored'
  <2>1. CASE screen'.pending \in {screen.pending, None}
    <3>1. \A k \in Jobs : \/ job'[k].kind = job[k].kind /\ job'[k].id = job[k].id
                          \/ job[k].kind # "write"
      BY <1>3, IdleFacts
    <3> QED  BY <1>1, <2>1, <3>1, PendingOnward
  <2>2. CASE kind = "write" /\ screen'.pending = id
    BY <1>3, <2>2 DEF PendingStored
  <2> QED  BY <2>1, <2>2
<1>9. Seeing'
  <2> DEFINE M == {j}
  <2>1. M \in SUBSET Jobs /\ \A k \in Jobs \ M : AsBefore(k)
    BY <1>3 DEF AsBefore
  <2>2. \A k \in M : Own(k)'
    BY <1>7
  <2>3. \A k \in M : job'[k].steps \in Clearing => fate'[job'[k].id] \in GivenUp
    BY <1>2, <1>3
  <2> HIDE DEF M
  <2> QED  BY <1>1, <1>6, <1>8, <2>1, <2>2, <2>3, SeeingStep
<1> QED  BY <1>5, <1>9 DEF AnswersInv

LEMMA MountAnswers ==
  ASSUME WritesInv, WritesInv', AnswersInv, NEW p \in Plans \cup {None}, Mount(p)
  PROVE  AnswersInv'
PROOF
<1>1. /\ screen' = [Absent EXCEPT !.up = TRUE, !.plan = p]
      /\ Begins("hydrate", None, None, <<"read">>)
      /\ cached' = cached \/ (p # None /\ revision[p] # None /\ Seed(p, revision[p]))
      /\ UNCHANGED <<body, journal, revision, network, store, fate>>
  BY DEF Mount, server
<1>2. Types /\ Told
  BY DEF WritesInv, AnswersInv
<1>3. /\ \A q \in Plans :
             \/ cached'[q] = cached[q]
             \/ /\ cached'[q] # None
                /\ cached[q] # None => cached'[q] >= cached[q]
                /\ cached[q] = None => cached'[q] = revision[q]
      /\ \A q \in Plans : cached'[q] \in {cached[q], None} \/ Reached(q, cached'[q])
  <2>1. CASE cached' = cached
    BY <2>1
  <2>2. CASE p # None /\ revision[p] # None /\ Seed(p, revision[p])
    <3>1. p \in Plans
      BY <2>2
    <3>2. revision[p] \in Nat /\ revision[p] \in Revisions
      BY <1>2, <2>2, <3>1, RevisionFacts
    <3>3. Reached(p, revision[p])
      BY <2>2, <3>2 DEF Reached
    <3> QED  BY <1>2, <2>2, <3>1, <3>2, <3>3, SeedReaches
  <2> QED  BY <1>1, <2>1, <2>2
<1>4. Onward
  BY <1>1, <1>2, SameOnward
<1>5. Told' /\ NoneAnswered
  BY <1>1, <1>2, <1>3, ToldQuiet DEF NoneAnswered
<1>6. screen'.pending = None
  BY <1>1, AbsentFacts DEF ScreenType
<1>7. /\ "hydrate" \in Kinds \ {"left", "refused"} /\ None \in Maybe(Ids)
      /\ None \in Maybe(Plans)
  BY DEF Kinds, Maybe
<1>8. <<"read">> \notin {<<"save", "post">>, <<"get", "clear">>, <<"clear">>, <<"clear", "get">>}
  OBVIOUS
<1> QED  BY <1>1, <1>3, <1>4, <1>5, <1>6, <1>7, <1>8, BeginsAnswers

LEMMA LoadAnswers ==
  ASSUME WritesInv, WritesInv', AnswersInv, Load
  PROVE  AnswersInv'
PROOF
<1>1. /\ Begins("load", None, screen.plan, <<"get">>)
      /\ UNCHANGED <<body, journal, revision, network, store, screen, cached, fate>>
  BY DEF Load, server
<1>2. Types /\ Told
  BY DEF WritesInv, AnswersInv
<1>3. Onward /\ Told' /\ NoneAnswered
  BY <1>1, <1>2, SameOnward, ToldQuiet DEF NoneAnswered
<1>4. /\ "load" \in Kinds \ {"left", "refused"} /\ None \in Maybe(Ids)
      /\ screen.plan \in Maybe(Plans)
  BY <1>2, ScreenFacts DEF Kinds, Maybe
<1>5. <<"get">> \notin {<<"read">>, <<"save", "post">>, <<"get", "clear">>, <<"clear">>,
                        <<"clear", "get">>}
  OBVIOUS
<1> QED  BY <1>1, <1>3, <1>4, <1>5, BeginsAnswers

LEMMA ReloadAnswers ==
  ASSUME WritesInv, WritesInv', AnswersInv, Reload
  PROVE  AnswersInv'
PROOF
<1>1. PICK l \in {<<"get">>, <<"get", "clear">>} :
         Begins("reload", screen.pending, screen.plan, l)
  BY DEF Reload
<1>2. /\ UNCHANGED <<body, journal, revision, network, store, cached, fate>>
      /\ screen' = [screen EXCEPT !.failed = FALSE]
  BY DEF Reload, server
<1>3. Types /\ Told
  BY DEF WritesInv, AnswersInv
<1>4. Onward /\ Told' /\ NoneAnswered
  BY <1>2, <1>3, SameOnward, ToldQuiet DEF NoneAnswered
<1>5. /\ "reload" \in Kinds \ {"left", "refused"} /\ screen.pending \in Maybe(Ids)
      /\ screen.plan \in Maybe(Plans)
  BY <1>3, ScreenFacts DEF Kinds
<1>6. screen'.pending = screen.pending
  BY <1>2, <1>3, ScreenFacts DEF ScreenType
<1>7. /\ <<"get">> \notin {<<"read">>, <<"save", "post">>, <<"clear">>, <<"clear", "get">>}
      /\ <<"get", "clear">> \notin {<<"read">>, <<"save", "post">>, <<"clear">>,
                                    <<"clear", "get">>}
  OBVIOUS
<1>8. l \notin {<<"read">>, <<"save", "post">>, <<"clear">>, <<"clear", "get">>}
  BY <1>1, <1>7
<1>9. l \in {<<"read">>, <<"get">>, <<"save", "post">>, <<"clear">>, <<"clear", "get">>,
             <<"get", "clear">>}
  BY <1>1
<1> QED  BY <1>1, <1>2, <1>4, <1>5, <1>6, <1>8, <1>9, BeginsAnswers

LEMMA RetryPendingAnswers ==
  ASSUME WritesInv, WritesInv', AnswersInv, RetryPending
  PROVE  AnswersInv'
PROOF
<1>1. PICK i \in Ids : i = screen.pending
  BY ScreenFacts DEF RetryPending, WritesInv, Maybe
<1>2. /\ screen' = [screen EXCEPT !.pending = i]
      /\ Begins("write", i, body[i].plan, <<"save", "post">>)
      /\ UNCHANGED <<body, journal, revision, network, store, cached, fate>>
      /\ ~Busy /\ ~Reconciling
  BY <1>1 DEF RetryPending, Persist, server
<1>3. Types /\ Told /\ Seeing /\ i # None /\ body[i] # None
  BY <1>1, NumberFacts DEF WritesInv, AnswersInv, Known
<1>4. Onward /\ Told' /\ NoneAnswered
  BY <1>2, <1>3, SameOnward, ToldQuiet DEF NoneAnswered
<1>5. body[i].plan \in Plans
  BY <1>3, BodyFacts DEF WritesInv
<1>6. \A k \in Jobs : job[k].kind \notin {"write", "refused"}
  BY <1>2 DEF Busy, Reconciling, Here
<1>7. ASSUME Unsent(i)', NEW k \in Answers(body[i].plan)'  PROVE After(i, k)'
  <2>1. Unsent(i) /\ k \in Answers(body[i].plan)
    BY <1>2, <1>7 DEF Unsent, IsStart, Answers
  <2>2. store = i
    BY <1>1, <1>3, <1>6, <2>1 DEF Seeing, PendingStored
  <2>3. After(i, k)
    BY <1>3, <2>1, <2>2 DEF Seeing, StoredAfter
  <2> QED  BY <1>2, <2>3 DEF After
<1>8. PICK p \in Plans : p = body[i].plan
  BY <1>5
<1>9. ASSUME Unsent(i)', NEW k \in Answers(p)'  PROVE After(i, k)'
  <2>1. k \in Answers(body[i].plan)'
    BY <1>2, <1>8, <1>9 DEF Answers
  <2> QED  BY <1>7, <1>9, <2>1
<1>10. /\ Begins("write", i, p, <<"save", "post">>) /\ p = body'[i].plan
       /\ screen'.pending = i
  BY <1>2, <1>3, <1>8, ScreenFacts DEF ScreenType
<1>11. /\ "write" \in Kinds \ {"left", "refused"} /\ i \in Maybe(Ids) /\ p \in Maybe(Plans)
  BY DEF Kinds, Maybe
<1>12. <<"save", "post">> \notin {<<"read">>, <<"get", "clear">>, <<"clear">>, <<"clear", "get">>}
  OBVIOUS
<1> QED
  BY <1>2, <1>3, <1>4, <1>6, <1>9, <1>10, <1>11, <1>12, BeginsAnswers

LEMMA DiscardPendingAnswers ==
  ASSUME WritesInv, WritesInv', AnswersInv, DiscardPending
  PROVE  AnswersInv'
PROOF
<1>1. PICK i \in Ids : i = screen.pending
  BY ScreenFacts DEF DiscardPending, WritesInv, Maybe
<1>2. /\ fate' = [fate EXCEPT ![i] = "discarded"]
      /\ UNCHANGED <<body, journal, revision, network, store, screen, cached>>
  BY <1>1 DEF DiscardPending, server
<1>3. PICK l \in {<<"clear">>, <<"clear", "get">>} : Begins("discard", i, body[i].plan, l)
  BY <1>1 DEF DiscardPending
<1>4. /\ Types /\ Told /\ i # None /\ body[i] # None /\ fate \in [Ids -> Fates]
  BY <1>1, NumberFacts DEF WritesInv, AnswersInv, Known, Types
<1>5. fate'[i] = "discarded" /\ \A k \in Ids \ {i} : fate'[k] = fate[k]
  BY <1>2, <1>4
<1>6. Onward
  <2>1. \A k \in Ids : /\ fate[k] # "unsent" => fate'[k] # "unsent"
                       /\ fate[k] \in GivenUp => fate'[k] \in GivenUp
                       /\ fate[k] \in Over => fate'[k] \in Over
    BY <1>5 DEF GivenUp, Over
  <2> QED  BY <1>2, <1>4, <2>1, QuietOnward
<1>7. Told' /\ NoneAnswered
  <2>1. \A k \in Ids : \/ fate'[k] = fate[k]
                       \/ body[k] # None /\ fate'[k] = "discarded"
    BY <1>4, <1>5
  <2> QED  BY <1>2, <1>4, <2>1, ToldQuiet DEF NoneAnswered
<1>8. PICK p \in Plans : p = body[i].plan
  BY <1>4, BodyFacts DEF WritesInv
<1>9. Begins("discard", i, p, l) /\ fate'[i] \in GivenUp
  BY <1>3, <1>5, <1>8 DEF GivenUp
<1>10. /\ "discard" \in Kinds \ {"left", "refused"} /\ i \in Maybe(Ids) /\ p \in Maybe(Plans)
  BY DEF Kinds, Maybe
<1>11. /\ <<"clear">> \notin {<<"read">>, <<"save", "post">>, <<"get", "clear">>}
       /\ <<"clear", "get">> \notin {<<"read">>, <<"save", "post">>, <<"get", "clear">>}
  OBVIOUS
<1>12. l \notin {<<"read">>, <<"save", "post">>, <<"get", "clear">>}
  BY <1>3, <1>11
<1>13. l \in {<<"read">>, <<"get">>, <<"save", "post">>, <<"clear">>, <<"clear", "get">>,
              <<"get", "clear">>}
  BY <1>3
<1> QED
  BY <1>2, <1>6, <1>7, <1>9, <1>10, <1>12, <1>13, BeginsAnswers

(* A write is made: nothing was known of its id.                           *)
LEMMA NewWrite ==
  ASSUME WritesInv, WritesInv', Told, NEW i \in Ids, body[i] = None,
         \A k \in Ids \ {i} : body'[k] = body[k],
         UNCHANGED <<journal, revision, fate, cached>>,
         body'[i] # None,
         body'[i].plan # i => Reached(body'[i].plan, body'[i].expected)
  PROVE  Onward /\ Told' /\ NoneAnswered /\ fate[i] = "unsent" /\ revision[i] = None
PROOF
<1>1. fate[i] = "unsent" /\ journal[i] = None /\ revision[i] = None
  BY DEF Told
<1>2. \A p \in Plans : revision[p] # None => revision'[p] >= revision[p]
  BY RevisionFacts DEF WritesInv
<1>3. Onward
  BY <1>2 DEF Onward
<1>4. /\ \A k \in Ids : fate'[k] # "unsent" => body'[k] # None
      /\ \A k \in Ids : journal'[k] # None =>
             body'[k] # None /\ revision'[body'[k].plan] # None
                             /\ revision'[body'[k].plan] >= journal'[k]
  BY <1>1 DEF Told, Reached
<1>5. \A q \in Ids : revision'[q] # None => body'[q].plan = q /\ journal'[q] # None
  BY <1>1 DEF Told, IsStart
<1>6. \A k \in Ids : body'[k] # None /\ body'[k].plan # k =>
          revision'[body'[k].plan] # None /\ revision'[body'[k].plan] >= body'[k].expected
  BY DEF Told, Reached, IsStart
<1>7. /\ \A p \in Plans : cached'[p] # None => revision'[p] # None /\ revision'[p] >= cached'[p]
      /\ \A k \in Ids : fate'[k] = "answered" => journal'[k] # None
  BY DEF Told, Reached
<1>8. \A k \in Ids : fate'[k] = "refused" =>
          /\ journal'[k] = None /\ body'[k].plan # k
          /\ revision'[body'[k].plan] # body'[k].expected
  BY <1>1 DEF Told, Refused, IsStart
<1>9. Told'
  BY <1>4, <1>5, <1>6, <1>7, <1>8 DEF Told, Reached, Refused, IsStart
<1> QED  BY <1>1, <1>3, <1>9 DEF NoneAnswered

LEMMA SubmitStartAnswers ==
  ASSUME WritesInv, WritesInv', AnswersInv, NEW i \in Ids, SubmitStart(i)
  PROVE  AnswersInv'
PROOF
<1> DEFINE b == [plan |-> i, expected |-> None]
<1>1. /\ body' = [body EXCEPT ![i] = b] /\ body[i] = None /\ b.plan = i
      /\ screen' = [screen EXCEPT !.pending = i]
      /\ Begins("write", i, i, <<"save", "post">>)
      /\ UNCHANGED <<journal, revision, network, store, cached, fate>> /\ ~Busy
  BY DEF SubmitStart, Fresh, Persist, server
<1>2. /\ Types /\ Told /\ body \in [Ids -> Maybe(Body)] /\ i # None /\ i \in Plans
      /\ \A k \in Jobs : Sound(k)
  BY NumberFacts DEF WritesInv, AnswersInv, Types
<1>3. b # None
  BY <1>2, ClientWritesAssumption DEF Plans, Ids
<1> HIDE DEF b
<1>4. body'[i] = b /\ \A k \in Ids \ {i} : body'[k] = body[k]
  BY <1>1, <1>2
<1>5. /\ Onward /\ Told' /\ NoneAnswered
  <2>1. body'[i] # None /\ body'[i].plan = i
    BY <1>1, <1>3, <1>4
  <2> QED  BY <1>1, <1>2, <1>4, <2>1, NewWrite
<1>6. \A k \in Jobs : /\ job[k].kind # "write"
                      /\ job[k].kind = "refused" => job[k].id # i
  BY <1>1, <1>2 DEF Busy, Here, Sound
<1>7. /\ i = body'[i].plan /\ ~Unsent(i)' /\ screen'.pending = i
  BY <1>1, <1>2, <1>4, ScreenFacts DEF ScreenType, Unsent, IsStart
<1>8. /\ "write" \in Kinds \ {"left", "refused"} /\ i \in Maybe(Ids) /\ i \in Maybe(Plans)
  BY <1>2 DEF Kinds, Maybe
<1>9. <<"save", "post">> \notin {<<"read">>, <<"get", "clear">>, <<"clear">>, <<"clear", "get">>}
  OBVIOUS
<1> QED  BY <1>1, <1>2, <1>5, <1>6, <1>7, <1>8, <1>9, BeginsAnswers

(* An action is decided from the view: what the view does not show has its *)
(* record there, and no clear of that record is under way.                 *)
LEMMA SubmitActionAnswers ==
  ASSUME WritesInv, WritesInv', AnswersInv, NEW i \in Ids, SubmitAction(i)
  PROVE  AnswersInv'
PROOF
<1> DEFINE e == Seen(screen.plan)
           b == [plan |-> screen.plan, expected |-> e]
<1>1. /\ body' = [body EXCEPT ![i] = b] /\ body[i] = None
      /\ b.plan = screen.plan /\ b.expected = e
      /\ screen' = [screen EXCEPT !.pending = i]
      /\ Begins("write", i, screen.plan, <<"save", "post">>)
      /\ UNCHANGED <<journal, revision, network, store, cached, fate>>
      /\ ~Busy /\ ~Reconciling /\ e \in 0..(MaxRevision - 1)
  BY DEF SubmitAction, Fresh, Persist, server
<1>2. /\ Types /\ Told /\ Seeing /\ body \in [Ids -> Maybe(Body)] /\ i # None /\ i \in Plans
      /\ \A k \in Jobs : Sound(k)
  BY NumberFacts DEF WritesInv, AnswersInv, Types
<1>3. e \in Nat /\ e # None
  BY <1>1, ClientWritesAssumption
<1>4. PICK p \in Plans : p = screen.plan /\ e = cached[p] /\ p # None
  <2>1. screen.plan # None
    BY <1>3 DEF Seen
  <2>2. screen.plan \in Plans
    BY <1>2, <2>1, ScreenFacts DEF Maybe
  <2> QED  BY <2>1, <2>2 DEF Seen
<1>5. b # None
  <2> DEFINE x == cached[p]
  <2>1. x \in Revisions
    BY <1>2, <1>3, <1>4 DEF Types, Maybe
  <2>2. b = [plan |-> p, expected |-> x]
    BY <1>4
  <2> HIDE DEF x, b
  <2> QED  BY <2>1, <2>2, ClientWritesAssumption DEF Plans, Revisions
<1> HIDE DEF b, e
<1>6. body'[i] = b /\ \A k \in Ids \ {i} : body'[k] = body[k]
  BY <1>1, <1>2
<1>7. /\ body'[i] # None /\ body'[i].plan = p /\ body'[i].expected = cached[p]
      /\ Reached(p, cached[p]) /\ cached[p] \in Nat /\ cached[p] # None
  BY <1>1, <1>2, <1>3, <1>4, <1>5, <1>6 DEF Told
<1>8. Onward /\ Told' /\ NoneAnswered /\ fate[i] = "unsent"
  BY <1>1, <1>2, <1>6, <1>7, NewWrite
<1>9. \A k \in Jobs : /\ job[k].kind # "write"
                      /\ job[k].kind = "refused" => job[k].id # i
  BY <1>1, <1>2 DEF Busy, Here, Sound
<1>10. ASSUME NEW k \in Answers(p)'
       PROVE  \/ After(i, k)'
              \/ /\ store \in {k, p}
                 /\ \A c \in Jobs : job[c].steps \in Clearing => job[c].id # store
  <2>1. /\ k \in Answers(p) /\ journal'[k] = journal[k] /\ journal[k] \in Nat
        /\ k # None
    BY <1>2, <1>8, AnswersOnward, AnswerFacts
  <2>2. Fine(p, journal[k]) => After(i, k)'
    BY <1>7, <2>1 DEF Fine, After
  <2>3. Fine(p, journal[k]) \/ store \in {k, p}
    BY <1>2, <2>1 DEF Seeing, Kept
  <2>4. ASSUME store \in {k, p}, NEW c \in Jobs, job[c].steps \in Clearing, job[c].id = store
        PROVE  Fine(p, journal[k])
    <3>1. Clears(c)
      BY <1>2 DEF Seeing, Own
    <3> QED  BY <2>1, <2>4, <3>1 DEF Clears
  <2> QED  BY <2>2, <2>3, <2>4
<1>11. /\ p = body'[i].plan /\ screen'.pending = i
       /\ Begins("write", i, p, <<"save", "post">>)
  BY <1>1, <1>2, <1>4, <1>7, ScreenFacts DEF ScreenType
<1>12. /\ "write" \in Kinds \ {"left", "refused"} /\ i \in Maybe(Ids) /\ p \in Maybe(Plans)
  BY <1>2 DEF Kinds, Maybe
<1>13. <<"save", "post">> \notin {<<"read">>, <<"get", "clear">>, <<"clear">>, <<"clear", "get">>}
  OBVIOUS
<1> QED  BY <1>1, <1>2, <1>8, <1>9, <1>10, <1>11, <1>12, <1>13, BeginsAnswers

(* The screen goes: what it left running answers nothing.                  *)
LEMMA LeaveAnswers ==
  ASSUME WritesInv, WritesInv', AnswersInv, Leave, cached' \in {cached, [p \in Plans |-> None]}
  PROVE  AnswersInv'
PROOF
<1>1. /\ Types /\ Told /\ Orderly /\ Seeing /\ queue \in Seq(Jobs) /\ Range(queue) = Waiting
      /\ Waiting \subseteq Jobs
  BY DEF WritesInv, AnswersInv, Types, InLine, Waiting
<1>2. /\ screen' = Absent
      /\ job' = [j \in Jobs |->
                   IF j \in Waiting
                   THEN [job[j] EXCEPT !.kind = "left", !.steps = <<Head(job[j].steps)>>,
                                       !.plan = None]
                   ELSE Idle]
      /\ UNCHANGED <<body, journal, revision, network, store, queue, fate>>
      /\ \A p \in Plans : cached'[p] \in {cached[p], None}
  BY <1>1 DEF Leave, server
<1>3. ASSUME NEW j \in Waiting
      PROVE  /\ job'[j].kind = "left" /\ job'[j].id = job[j].id /\ job'[j].at # "served"
             /\ job[j].steps \in Saving => job'[j].steps = <<"save">>
             /\ job[j].steps \in Clearing => job'[j].steps = <<"clear">>
             /\ job[j].steps \in Saving \cup Clearing
  <2>1. /\ j \in Jobs /\ job[j] \in JobType /\ job[j].steps \in Lists
        /\ job[j].steps \in Saving \cup Clearing /\ job[j].at # "served"
    BY <1>1, JobFacts DEF Waiting, Orderly, Shape
  <2> DEFINE l == <<Head(job[j].steps)>>
             w == [job[j] EXCEPT !.kind = "left", !.steps = l, !.plan = None]
  <2>2. /\ job[j].steps \in Saving => l = <<"save">>
        /\ job[j].steps \in Clearing => l = <<"clear">>
    BY <2>1, ListFacts
  <2>3. job'[j] = w
    BY <1>2, <2>1
  <2> HIDE DEF l
  <2>4. w.kind = "left" /\ w.id = job[j].id /\ w.at = job[j].at /\ w.steps = l
    BY <2>1 DEF JobType
  <2> HIDE DEF w
  <2> QED  BY <2>1, <2>2, <2>3, <2>4
<1>4. \A j \in Jobs \ Waiting : job'[j] = Idle
  BY <1>2
<1>5. /\ <<"save">> \notin Clearing \cup Posting \cup {<<"look">>, <<"read">>, <<"get", "clear">>,
                                                       <<>>}
      /\ <<"clear">> \notin Saving \cup Posting \cup {<<"look">>, <<"read">>, <<"get", "clear">>}
      /\ <<>> \notin Saving \cup Clearing \cup Posting
      /\ Saving \cap Clearing = {}
  BY DEF Saving, Clearing, Posting
<1>6. Onward
  BY <1>1, <1>2, SameOnward
<1>7. Told' /\ NoneAnswered
  BY <1>1, <1>2, ToldQuiet DEF NoneAnswered
<1>8. \A j \in Jobs : /\ job'[j].kind \in {"left", "idle"} /\ job'[j].at # "served"
                      /\ j \in Waiting <=> job'[j].kind = "left"
  BY <1>3, <1>4, IdleFacts
<1>9. ASSUME NEW j \in Jobs  PROVE Shape(j)'
  <2>1. CASE j \in Waiting
    BY <1>3, <1>5, <2>1 DEF Shape
  <2>2. CASE j \notin Waiting
    <3>1. job'[j].steps = <<>> /\ job'[j].kind = "idle" /\ job'[j].at = "start"
      BY <1>4, <2>2, IdleFacts
    <3> QED  BY <1>5, <3>1 DEF Shape
  <2> QED  BY <2>1, <2>2
<1>10. Orderly'
  <2>1. \A x \in Range(queue) : x \in Left'
    BY <1>1, <1>8 DEF Left
  <2>2. First(Left', queue')
    <3>1. \A a \in 1..Len(queue) : queue[a] \in Range(queue)
      BY <1>1, RangeIs
    <3> QED  BY <1>2, <2>1, <3>1 DEF First
  <2>3. Pairs'
    BY <1>8 DEF Pairs
  <2> QED  BY <1>9, <2>2, <2>3 DEF Orderly
<1>11. FinesKept
  BY <1>2, <1>8, FinesEmptied
<1>12. ASSUME NEW j \in Jobs  PROVE Own(j)'
  <2>1. CASE j \notin Waiting
    BY <1>4, <2>1, IdleFacts, OwnSimple
  <2>2. CASE j \in Waiting /\ job[j].steps \in Clearing
    <3>1. job'[j].steps = <<"clear">> /\ job'[j].id = job[j].id /\ job'[j].kind = "left"
      BY <1>3, <2>2
    <3>2. ASSUME NEW p \in Plans, NEW k \in Answers(p)', job[j].id \in {k, p}
          PROVE  Fine(p, journal[k])' \/ (job[j].id # p /\ store = p)
      <4>1. k \in Answers(p)
        BY <1>2, <3>2 DEF Answers
      <4>2. Fine(p, journal[k]) \/ (job[j].id # p /\ store = p)
        BY <1>1, <2>2, <3>2, <4>1 DEF Seeing, Own, Clears
      <4> QED  BY <1>1, <1>6, <1>7, <1>11, <3>2, <4>2, FineOnward
    <3> QED  BY <1>2, <1>5, <3>1, <3>2 DEF Own, Posts, Proves, Clears, Saves, Reads
  <2>3. CASE j \in Waiting /\ job[j].steps \in Saving
    <3>1. job'[j].steps = <<"save">> /\ job'[j].id = job[j].id /\ job'[j].kind = "left"
      BY <1>3, <2>3
    <3>2. \A c \in Jobs : job'[c].steps \in Clearing =>
                              job[c].steps \in Clearing /\ job'[c].id = job[c].id
      BY <1>3, <1>4, <1>5, IdleFacts
    <3>3. Saves(j)'
      <4> SUFFICES ASSUME Unsent(job[j].id)', NEW k \in Answers(body[job[j].id].plan)'
                   PROVE  \/ After(job[j].id, k)'
                          \/ /\ store' \in {k, body'[job'[j].id].plan}
                             /\ \A c \in Jobs : job'[c].steps \in Clearing => job'[c].id # store'
        BY DEF Saves
      <4>1. Unsent(job[j].id) /\ k \in Answers(body[job[j].id].plan)
        BY <1>2, <3>1 DEF Unsent, IsStart, Answers
      <4>2. \/ After(job[j].id, k)
            \/ /\ store \in {k, body[job[j].id].plan}
               /\ \A c \in Jobs : job[c].steps \in Clearing => job[c].id # store
        BY <1>1, <2>3, <4>1 DEF Seeing, Own, Saves
      <4> QED  BY <1>2, <3>1, <3>2, <4>2 DEF After
    <3> QED  BY <1>5, <3>1, <3>3 DEF Own, Posts, Proves, Clears, Reads
  <2> QED  BY <1>3, <2>1, <2>2, <2>3
<1>13. PendingStored'
  BY <1>2, AbsentFacts DEF PendingStored
<1>14. Seeing'
  <2>1. Jobs \in SUBSET Jobs /\ \A k \in Jobs \ Jobs : AsBefore(k)
    OBVIOUS
  <2>2. \A j \in Jobs : job'[j].steps \in Clearing =>
             job[j].steps \in Clearing /\ job'[j].id = job[j].id
    BY <1>3, <1>4, <1>5, IdleFacts
  <2> QED  BY <1>1, <1>2, <1>6, <1>7, <1>11, <1>12, <1>13, <2>1, <2>2, SeeingStep
<1> QED  BY <1>7, <1>10, <1>14 DEF AnswersInv

(* Nothing is under way: nothing is out of order.                          *)
LEMMA NothingOrderly ==
  ASSUME \A j \in Jobs : job[j] = Idle, queue = <<>>
  PROVE  Orderly
PROOF
<1>1. \A j \in Jobs : job[j].kind = "idle" /\ job[j].steps = <<>> /\ job[j].at = "start"
  BY IdleFacts
<1>2. <<>> \notin Saving \cup Clearing \cup Posting
  BY DEF Saving, Clearing, Posting
<1>3. \A j \in Jobs : Shape(j)
  BY <1>1, <1>2 DEF Shape
<1>4. Pairs
  BY <1>1 DEF Pairs
<1>5. First(Left, queue)
  BY DEF First
<1> QED  BY <1>3, <1>4, <1>5 DEF Orderly

LEMMA CrashAnswers ==
  ASSUME WritesInv, WritesInv', AnswersInv, Crash
  PROVE  AnswersInv'
PROOF
<1>1. Types /\ Told /\ Seeing
  BY DEF WritesInv, AnswersInv
<1>2. /\ screen' = Absent /\ queue' = <<>> /\ \A j \in Jobs : job'[j] = Idle
      /\ UNCHANGED <<body, journal, revision, network, store, fate>>
      /\ \A p \in Plans : cached'[p] = None
  BY DEF Crash, server
<1>3. Onward
  BY <1>1, <1>2, SameOnward
<1>4. Told' /\ NoneAnswered
  BY <1>1, <1>2, ToldQuiet DEF NoneAnswered
<1>5. Orderly'
  <2>1. \A j \in Jobs : job'[j].kind = "idle" /\ job'[j].steps = <<>> /\ job'[j].at = "start"
    BY <1>2, IdleFacts
  <2>2. <<>> \notin Saving \cup Clearing \cup Posting
    BY DEF Saving, Clearing, Posting
  <2>3. \A j \in Jobs : Shape(j)'
    BY <2>1, <2>2 DEF Shape
  <2>4. Pairs'
    BY <2>1 DEF Pairs
  <2>5. First(Left', queue')
    BY <1>2 DEF First
  <2> QED  BY <2>3, <2>4, <2>5 DEF Orderly
<1>6. FinesKept
  BY <1>2, IdleFacts, FinesEmptied
<1>7. \A j \in Jobs : Own(j)' /\ job'[j].steps \notin Clearing
  <2>1. <<>> \notin Clearing
    BY DEF Clearing
  <2> QED  BY <1>2, <2>1, IdleFacts, OwnSimple
<1>8. PendingStored'
  BY <1>2, AbsentFacts DEF PendingStored
<1>9. Seeing'
  <2>1. Jobs \in SUBSET Jobs /\ \A k \in Jobs \ Jobs : AsBefore(k)
    OBVIOUS
  <2> QED  BY <1>1, <1>2, <1>3, <1>4, <1>6, <1>7, <1>8, <2>1, SeeingStep
<1> QED  BY <1>4, <1>5, <1>9 DEF AnswersInv

-----------------------------------------------------------------------------
(* The second invariant is inductive.                                      *)
LEMMA AnswersInvInit ==
  ASSUME Init
  PROVE  AnswersInv
PROOF
<1>1. /\ \A i \in Ids : body[i] = None /\ journal[i] = None /\ fate[i] = "unsent"
      /\ \A p \in Ids : revision[p] = None
      /\ \A p \in Plans : cached[p] = None
      /\ \A j \in Jobs : job[j] = Idle
      /\ queue = <<>> /\ store = None /\ screen.pending = None
  BY AbsentFacts DEF Init, Ids, Plans
<1>2. Told
  BY <1>1 DEF Told
<1>3. Orderly
  BY <1>1, NothingOrderly
<1>4. \A p : Answers(p) = {}
  BY <1>1 DEF Answers
<1>5. \A j \in Jobs : Own(j)
  <2>1. <<>> \notin Saving \cup Clearing \cup Posting
    BY DEF Saving, Clearing, Posting
  <2> QED  BY <1>1, <2>1, IdleFacts DEF Own, Posts, Proves, Clears, Saves, Reads
<1>6. Seeing
  BY <1>1, <1>4, <1>5 DEF Seeing, Kept, StoredAfter, PendingStored
<1> QED  BY <1>2, <1>3, <1>6 DEF AnswersInv

LEMMA StillAnswers ==
  ASSUME WritesInv, WritesInv', AnswersInv, UNCHANGED vars
  PROVE  AnswersInv'
PROOF
<1>1. UNCHANGED <<body, journal, revision, store, queue, job, screen, cached, fate>>
  BY DEF vars, server
<1>2. \A q \in Plans : revision[q] # None => revision'[q] >= revision[q]
  BY <1>1, RevisionFacts DEF WritesInv
<1> QED  BY <1>1, <1>2, ServerGrows

LEMMA AnswersInvStep ==
  ASSUME WritesInv, WritesInv', AnswersInv, [Next]_vars
  PROVE  AnswersInv'
PROOF
<1>1. ASSUME NEW j \in Jobs, JobStep(j)  PROVE AnswersInv'
  BY <1>1, SaveChecksAnswers, SaveWritesAnswers, SaveRejectedAnswers, LooksAnswers,
     ClearChecksAnswers, ClearRemovesAnswers, ClearFailsAnswers, HydratesAnswers,
     HydratedAnswers, PostAnsweredAnswers, PostRefusedAnswers, PostTimesOutAnswers,
     GetServedAnswers, GetRepliesAnswers, GetFailsAnswers DEF JobStep
<1>2. ASSUME NEW i \in Ids, Serves(i) \/ SubmitStart(i) \/ SubmitAction(i)  PROVE AnswersInv'
  BY <1>2, ServesAnswers, SubmitStartAnswers, SubmitActionAnswers
<1>3. ASSUME NEW p \in Plans, OtherDevice(p)  PROVE AnswersInv'
  BY <1>3, OtherDeviceAnswers
<1>4. ASSUME NEW p \in Plans \cup {None}, Mount(p)  PROVE AnswersInv'
  BY <1>4, MountAnswers
<1>5. CASE Load \/ RetryPending \/ DiscardPending \/ Reload
  BY <1>5, LoadAnswers, RetryPendingAnswers, DiscardPendingAnswers, ReloadAnswers
<1>6. CASE Exit \/ SessionChanges
  BY <1>6, LeaveAnswers DEF Exit, SessionChanges
<1>7. CASE Crash
  BY <1>7, CrashAnswers
<1>8. CASE UNCHANGED vars
  BY <1>8, StillAnswers
<1> QED  BY <1>1, <1>2, <1>3, <1>4, <1>5, <1>6, <1>7, <1>8 DEF Next

(* The server is never behind what the device knows of it, jobs keep to    *)
(* what their kind does, and every answer this device was given on a plan  *)
(* is in its view, or the record of it or of the plan's start is there.    *)
THEOREM AnswersInvariant == Spec => []AnswersInv
PROOF
<1>1. Init => AnswersInv
  BY AnswersInvInit
<1>2. WritesInv /\ WritesInv' /\ AnswersInv /\ [Next]_vars => AnswersInv'
  BY AnswersInvStep
<1> QED  BY <1>1, <1>2, WritesInvariant, PTL DEF Spec

(* Only the save of a write sends it.                                      *)
LEMMA SentBySave ==
  ASSUME WritesInv, [Next]_vars, NEW i \in Ids, fate[i] = "unsent", fate'[i] = "sent"
  PROVE  \E j \in Jobs : SaveWrites(j) /\ job[j].id = i
PROOF
<1>1. fate \in [Ids -> Fates]
  BY DEF WritesInv, Types
<1>2. ASSUME NEW k, NEW what, fate' = Fated(k, what)  PROVE what = "sent" /\ k = i
  BY <1>1, <1>2 DEF Fated
<1>3. ASSUME NEW j \in Jobs, JobStep(j)  PROVE SaveWrites(j) /\ job[j].id = i
  <2>1. CASE SaveWrites(j)
    BY <1>2, <2>1 DEF SaveWrites
  <2>2. CASE PostAnswered(j) \/ PostRefused(j) \/ GetReplies(j)
    <3>1. \/ fate' = fate
          \/ \E what \in {"answered", "refused", "reloaded"} : fate' = Fated(job[j].id, what)
      BY <2>2 DEF PostAnswered, PostRefused, GetReplies
    <3> QED  BY <1>2, <3>1
  <2>3. CASE ~(SaveWrites(j) \/ PostAnswered(j) \/ PostRefused(j) \/ GetReplies(j))
    BY <1>3, <2>3 DEF JobStep, SaveChecks, SaveRejected, Looks, ClearChecks, ClearRemoves,
       ClearFails, Hydrates, Hydrated, PostTimesOut, GetServed, GetFails
  <2> QED  BY <2>1, <2>2, <2>3
<1>4. CASE DiscardPending
  BY <1>1, <1>4 DEF DiscardPending
<1>5. CASE \/ \E k \in Ids : Serves(k) \/ SubmitStart(k) \/ SubmitAction(k)
           \/ \E p \in Plans : OtherDevice(p)
           \/ \E p \in Plans \cup {None} : Mount(p)
           \/ Load \/ RetryPending \/ Reload \/ Exit \/ SessionChanges \/ Crash
           \/ UNCHANGED vars
  BY <1>5 DEF Serves, SubmitStart, SubmitAction, OtherDevice, Mount, Load, RetryPending, Reload,
     Exit, SessionChanges, Leave, Crash, Persist, vars
<1> QED  BY <1>3, <1>4, <1>5 DEF Next

(* No action is sent from a view older than an answer this device was      *)
(* given and has not given up: when the save that sends it finds its place *)
(* free, no record holds back an answer, so the view it was decided from   *)
(* showed them all.                                                        *)
THEOREM AnswersStaySeen == Spec => OwnAnswersSeen
PROOF
<1>1. ASSUME WritesInv, AnswersInv, [Next]_vars, NEW i \in Ids,
             fate[i] = "unsent", fate'[i] = "sent", ~IsStart(i),
             NEW k \in Answers(body[i].plan)
      PROVE  body[i].expected >= journal[k]
  <2>1. PICK j \in Jobs : SaveWrites(j) /\ job[j].id = i
    BY <1>1, SentBySave
  <2>2. job[j].steps \in Saving /\ job[j].at = "checked"
    BY <1>1, <2>1, DoingFacts DEF SaveWrites, WritesInv
  <2>3. store \in {None, i} /\ body[i] # None /\ Saves(j)
    BY <1>1, <2>1, <2>2, NumberFacts DEF WritesInv, Sound, AnswersInv, Seeing, Own
  <2>4. PICK p \in Plans : p = body[i].plan
    BY <1>1, <2>3, BodyFacts DEF WritesInv
  <2>5. fate[k] = "answered" /\ k # None /\ p # None
    BY <1>1, <2>4, AnswerFacts DEF AnswersInv
  <2>6. store \notin {k, p}
    BY <1>1, <2>3, <2>4, <2>5 DEF IsStart
  <2> QED  BY <1>1, <2>1, <2>2, <2>3, <2>4, <2>6 DEF Saves, Unsent, After
<1>2. WritesInv /\ AnswersInv /\ [Next]_vars =>
          [\A i \in Ids :
              fate[i] = "unsent" /\ fate'[i] = "sent" /\ ~IsStart(i) =>
                  \A k \in Answers(body[i].plan) : body[i].expected >= journal[k]]_vars
  BY <1>1
<1> QED  BY <1>2, WritesInvariant, AnswersInvariant, PTL DEF Spec, OwnAnswersSeen
=============================================================================

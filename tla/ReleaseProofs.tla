---------------------------- MODULE ReleaseProofs ----------------------------
(***************************************************************************)
(* Release: what is proved about it, for every number of releases, every   *)
(* amount of trouble, every set of todos.                                  *)
(***************************************************************************)
EXTENDS Release, TLAPS

-----------------------------------------------------------------------------
(* Types.                                                                  *)
Verbs ==
    {"check", "update", "migrate", "deploy", "identify", "look", "try", "promote", "verify",
     "prove", "restore", "reverify", "resmoke", "untag"}

CallType == [do : Verbs, on : Services \cup {"job"}]

CallSeqs == Seq(CallType)
Phases   == {"idle", "running", "cleaning", "ended"}
Notes    == {"ok", "failed", "not needed"}
Versions == [Services -> Int]
Restores == [Services -> {"not attempted", "restored", "failed"}]
Parts    == SUBSET Services
Images   == {"nothing", "released", "other"}

DeployType ==
    [phase : Phases, worker : BOOLEAN, version : Int, failed : BOOLEAN, previous : Versions,
     seen : Versions, restore : Restores, cleanup : Notes, calls : CallSeqs,
     attempted : Parts, created : Parts, moved : Parts, cut : BOOLEAN]

ServiceType == [want : Int, serving : Int, made : Images, tagged : BOOLEAN]
CloudType   == [Services -> ServiceType]

ScriptTypes == deploy \in DeployType /\ cloud \in CloudType /\ schema \in Int

-----------------------------------------------------------------------------
(* Where deploy() is.  The calls that are left determine it: the plan and  *)
(* the restoration are read from their ends.                               *)
Left     == Len(deploy.calls)
Idle     == deploy.phase = "idle"
Forward  == Running /\ ~deploy.failed /\ ~deploy.cut
Backward == Running /\ deploy.failed /\ ~deploy.cut

RollFromEnd   == <<"prove", "verify", "promote", "try", "look", "identify", "deploy">>
GoBackFromEnd == <<"resmoke", "reverify", "restore">>

Steps(worker) == IF worker THEN 18 ELSE 10

Due(worker, n) ==
    IF n <= 7 THEN [do |-> RollFromEnd[n], on |-> "api"]
    ELSE IF worker
         THEN IF n <= 14 THEN [do |-> RollFromEnd[n - 7], on |-> "worker"]
              ELSE IF n = 15 THEN [do |-> "migrate", on |-> "job"]
              ELSE IF n = 16 THEN [do |-> "update", on |-> "job"]
              ELSE [do |-> "check", on |-> IF n = 17 THEN "worker" ELSE "api"]
         ELSE IF n = 8 THEN [do |-> "migrate", on |-> "job"]
              ELSE IF n = 9 THEN [do |-> "update", on |-> "job"]
              ELSE [do |-> "check", on |-> "api"]

BackSteps(worker) == IF worker THEN 6 ELSE 3

DueBack(worker, n) ==
    [do |-> GoBackFromEnd[IF n <= 3 THEN n ELSE n - 3],
     on |-> IF worker /\ n <= 3 THEN "worker" ELSE "api"]

OnPlan ==
    Forward =>
        /\ Left <= Steps(deploy.worker)
        /\ \A i \in 1..Left : deploy.calls[i] = Due(deploy.worker, Left + 1 - i)

OnWayBack ==
    Backward =>
        /\ Left <= BackSteps(deploy.worker)
        /\ \A i \in 1..Left : deploy.calls[i] = DueBack(deploy.worker, Left + 1 - i)
        /\ Left > 0 =>
               IF deploy.worker /\ Left <= 3 THEN "worker" \in deploy.attempted
               ELSE "api" \in deploy.attempted

OnlyUntags ==
    deploy.phase = "cleaning" =>
        \A i \in 1..Left : deploy.calls[i].do = "untag" /\ deploy.calls[i].on \in Services

NothingLeft ==
    Idle \/ deploy.phase = "ended" \/ (Running /\ deploy.cut) => deploy.calls = <<>>

Course == OnPlan /\ OnWayBack /\ OnlyUntags /\ NothingLeft

-----------------------------------------------------------------------------
(* The versions that can be met while a release is there, s a service of   *)
(* it.                                                                     *)
AtRest == Idle => /\ \A s \in Services : cloud[s].want = 0 /\ cloud[s].serving = 0
                  /\ schema = 0
                  /\ deploy.previous["api"] = Unknown
                  /\ deploy.version = 0

TakesPart ==
    /\ deploy.attempted \subseteq Part /\ deploy.created \subseteq Part
    /\ deploy.moved \subseteq Part
    /\ ~Idle => deploy.version >= 1 /\ deploy.previous["api"] = deploy.version - 1

Near(s) ==
    LET c == cloud[s]
        v == deploy.version
    IN  /\ c.want <= v /\ c.serving <= v
        /\ deploy.previous[s] < v
        /\ deploy.previous[s] = Unknown \/ deploy.previous[s] >= v - 2
        /\ s \notin deploy.attempted => c.want < v /\ c.serving < v
        /\ s \notin deploy.moved => /\ c.want >= v - 1 /\ c.serving >= v - 1
                                    /\ deploy.previous[s] \in {Unknown, v - 1}
        /\ c.want >= v - 2 /\ c.serving >= v - 2

VersionsNear == ~Idle => \A s \in Part : Near(s)

(* Of a service's part of the plan, what is left: "promote" is the third   *)
(* call from its end.                                                      *)
LeftOf(s) == IF s = "worker" THEN Left - 7 ELSE Left

(* What is restored is what was captured.                                  *)
Captured ==
    ~Idle => \A s \in Part :
        (s \in deploy.attempted \/ (Forward /\ LeftOf(s) <= 9)) =>
            /\ deploy.previous[s] >= deploy.version - 2
            /\ s \notin deploy.moved => deploy.previous[s] = deploy.version - 1

(* A moved API is found out: by the look, or when its promotion is         *)
(* verified.                                                               *)
Lower ==
    /\ cloud["api"].want < deploy.version /\ cloud["api"].serving < deploy.version
    /\ (Running /\ "api" \notin deploy.attempted) =>
           /\ cloud["api"].want < deploy.version - 1
           /\ cloud["api"].serving < deploy.version - 1

MovedSeen ==
    /\ (~Idle /\ "api" \in deploy.moved) => Lower
    /\ (Forward /\ "api" \in deploy.moved) => Left >= 5 \/ Left = 2

(* What each service has gone through.                                     *)
OnNew(s) == cloud[s].want = deploy.version /\ cloud[s].serving = deploy.version

(* Nothing takes away the new version from where it serves.                *)
Stays(s) == cloud[s].serving = deploy.version => cloud[s].want = deploy.version

Promoted ==
    Forward => \A s \in Part :
        /\ LeftOf(s) >= 3 => s \notin deploy.attempted
        /\ LeftOf(s) <= 2 => s \in deploy.attempted /\ Stays(s)
        /\ LeftOf(s) <= 1 => deploy.seen[s] = deploy.version /\ OnNew(s)
        /\ deploy.restore[s] = "not attempted"

LeftBack(s) == IF deploy.worker /\ s = "api" THEN Left - 3 ELSE Left

OnPrevious(s) == cloud[s].want = deploy.previous[s] /\ cloud[s].serving = deploy.previous[s]

ToPrevious(s)     == cloud[s].want = deploy.previous[s]
BackOnPrevious(s) == OnPrevious(s) /\ deploy.seen[s] = deploy.previous[s]

WentBack ==
    Backward => \A s \in deploy.attempted :
        /\ LeftBack(s) >= 1 => deploy.restore[s] = "not attempted"
        /\ LeftBack(s) <= 2 => deploy.restore[s] = "failed" \/ ToPrevious(s)
        /\ LeftBack(s) <= 1 => deploy.restore[s] = "failed" \/ BackOnPrevious(s)
        /\ LeftBack(s) <= 0 => deploy.restore[s] # "not attempted"

Restored ==
    (Running \/ deploy.phase = "cleaning") => \A s \in Services :
        deploy.restore[s] = "restored" =>
            s \in deploy.attempted /\ OnPrevious(s) /\ deploy.seen[s] = deploy.previous[s]

(* How it ended, unless it was cut.                                        *)
Outcome ==
    (deploy.phase \in {"cleaning", "ended"} /\ ~deploy.cut) =>
        \A s \in Part :
            IF deploy.failed
            THEN s \in deploy.attempted =>
                     \/ deploy.restore[s] = "failed"
                     \/ deploy.restore[s] = "restored" /\ cloud[s].want = deploy.previous[s]
            ELSE /\ deploy.seen[s] = deploy.version
                 /\ deploy.phase = "cleaning" => cloud[s].want = deploy.version

(* The worker is promoted first and restored last.                         *)
Ordered ==
    (~Idle /\ deploy.worker /\ "worker" \notin deploy.moved /\ deploy.restore["api"] # "failed") =>
        \/ cloud["api"].want < deploy.version /\ cloud["api"].serving < deploy.version
        \/ OnNew("worker")

WorkerHolds == (Backward /\ deploy.worker /\ Left >= 4) => OnNew("worker")

(* What is there before traffic is.                                        *)
Made ==
    ~Idle => \A s \in Part :
        /\ s \in deploy.attempted => cloud[s].made = "released"
        /\ (Forward /\ LeftOf(s) <= 5) => cloud[s].made = "released"

Migrates ==
    ~Idle => /\ schema >= deploy.version - 1
             /\ deploy.attempted # {} => schema >= deploy.version
             /\ (Forward /\ Left <= IF deploy.worker THEN 14 ELSE 7) => schema >= deploy.version

Tags ==
    \A s \in Services : cloud[s].tagged =>
        /\ Running => s \in deploy.created
        /\ deploy.phase = "cleaning" =>
               \/ deploy.cleanup = "failed"
               \/ \E i \in 1..Left : deploy.calls[i].on = s
        /\ deploy.phase = "ended" /\ ~deploy.cut => deploy.cleanup = "failed"

Traffic ==
    /\ AtRest /\ TakesPart /\ VersionsNear /\ Captured /\ MovedSeen /\ Promoted /\ WentBack
    /\ Restored /\ Outcome /\ Ordered /\ WorkerHolds /\ Made /\ Migrates /\ Tags

ScriptInv == ScriptTypes /\ Course /\ Traffic

-----------------------------------------------------------------------------
(* The columns.                                                            *)
Row    == [completed : BOOLEAN, stamped : BOOLEAN]
Rows   == Row \cup {None}
Values == BOOLEAN \cup {None}
Write  == [by : Int, row : Rows, value : Values]

RowTypes ==
    /\ todos \in [Todos -> Rows]
    /\ writing \in [Todos -> Write \cup {None}]
    /\ told \in [Todos -> Values]

ToldIsCompleted ==
    \A t \in Todos :
        /\ todos[t] # None => todos[t].completed = told[t]
        /\ (writing[t] # None /\ writing[t].row # None) =>
               /\ writing[t].row.completed = writing[t].value
               /\ writing[t].by >= DualWrites =>
                      writing[t].row.stamped = writing[t].row.completed

Clean ==
    /\ Reconciled
    /\ \A t \in Todos : (writing[t] # None /\ writing[t].row # None) =>
           writing[t].row.stamped = writing[t].row.completed

(* A version that reads the stamps answers, or may come to without another *)
(* look at the gate.                                                       *)
StampsMatter ==
    \/ deploy.previous["api"] >= ReadsStamps
    \/ cloud["api"].want >= ReadsStamps
    \/ cloud["api"].serving >= ReadsStamps
    \/ /\ Forward /\ Left >= 3 /\ "api" \notin deploy.moved
       /\ deploy.version >= ReadsStamps

StampsKept == StampsMatter => Clean

ReleaseInv == ScriptInv /\ RowTypes /\ ToldIsCompleted /\ StampsKept

-----------------------------------------------------------------------------
(* The lists of calls.                                                     *)
Joined(a, b) == a \o b

LEMMA ConcatFacts ==
  ASSUME NEW A \in Seq(CallType), NEW B \in Seq(CallType)
  PROVE  /\ Joined(A, B) \in Seq(CallType) /\ Len(Joined(A, B)) = Len(A) + Len(B)
         /\ \A i \in 1..Len(A) : Joined(A, B)[i] = A[i]
         /\ \A i \in Len(A) + 1..Len(A) + Len(B) : Joined(A, B)[i] = B[i - Len(A)]
PROOF
<1>1. A \o B \in Seq(CallType) /\ Len(A \o B) = Len(A) + Len(B)
  OBVIOUS
<1>2. \A i \in 1..Len(A) : (A \o B)[i] = A[i]
  OBVIOUS
<1>3. \A i \in Len(A) + 1..Len(A) + Len(B) : (A \o B)[i] = B[i - Len(A)]
  OBVIOUS
<1> QED  BY <1>1, <1>2, <1>3 DEF Joined

(* What Calls makes of a list of verbs.                                    *)
LEMMA CallsFacts ==
  ASSUME NEW do, Len(do) \in Nat, DOMAIN do = 1..Len(do),
         \A i \in 1..Len(do) : do[i] \in Verbs,
         NEW s \in Services \cup {"job"}
  PROVE  /\ Calls(do, s) \in Seq(CallType)
         /\ Len(Calls(do, s)) = Len(do)
         /\ \A i \in 1..Len(do) : Calls(do, s)[i] = [do |-> do[i], on |-> s]
PROOF
<1> DEFINE n == Len(do)
<1>1. \A i \in 1..n : [do |-> do[i], on |-> s] \in CallType
  BY DEF CallType
<1>2. Calls(do, s) = [i \in 1..n |-> [do |-> do[i], on |-> s]]
  BY DEF Calls
<1>3. n \in Nat
  OBVIOUS
<1> HIDE DEF CallType, n
<1>4. Calls(do, s) \in Seq(CallType)
  BY <1>1, <1>2, <1>3
<1>5. Len(Calls(do, s)) = n
  BY <1>2, <1>3
<1> QED  BY <1>2, <1>4, <1>5 DEF n

LEMMA SingleFacts ==
  ASSUME NEW do \in Verbs, NEW s \in Services \cup {"job"}
  PROVE  /\ Calls(<<do>>, s) \in Seq(CallType) /\ Len(Calls(<<do>>, s)) = 1
         /\ Calls(<<do>>, s)[1] = [do |-> do, on |-> s]
PROOF
<1> DEFINE one == <<do>>
<1>1. Len(one) = 1 /\ DOMAIN one = 1..1 /\ one[1] = do /\ \A i \in 1..1 : one[i] \in Verbs
  OBVIOUS
<1> HIDE DEF one
<1>2. /\ Calls(one, s) \in Seq(CallType) /\ Len(Calls(one, s)) = Len(one)
      /\ \A i \in 1..Len(one) : Calls(one, s)[i] = [do |-> one[i], on |-> s]
  BY <1>1, CallsFacts
<1> QED  BY <1>1, <1>2 DEF one

(* The calls of one service, in the plan and on the way back.              *)
LEMMA OneToSeven ==
  \A i \in 1..7 : i = 1 \/ i = 2 \/ i = 3 \/ i = 4 \/ i = 5 \/ i = 6 \/ i = 7
OBVIOUS

LEMMA RollFacts ==
  ASSUME NEW s \in Services, NEW r, r = Roll(s)
  PROVE  /\ r \in Seq(CallType) /\ Len(r) = 7
         /\ \A i \in 1..7 : r[i] = [do |-> RollFromEnd[8 - i], on |-> s]
PROOF
<1> DEFINE do == <<"deploy", "identify", "look", "try", "promote", "verify", "prove">>
<1>1. DOMAIN do = 1..7 /\ Len(do) = 7
  OBVIOUS
<1>2. ASSUME NEW i \in 1..7  PROVE do[i] \in Verbs /\ do[i] = RollFromEnd[8 - i]
  BY <1>2, OneToSeven DEF Verbs, RollFromEnd
<1>3. r = Calls(do, s)
  BY DEF Roll
<1> HIDE DEF do
<1>4. /\ Calls(do, s) \in Seq(CallType) /\ Len(Calls(do, s)) = Len(do)
      /\ \A i \in 1..Len(do) : Calls(do, s)[i] = [do |-> do[i], on |-> s]
  <2>1. /\ Len(do) \in Nat /\ DOMAIN do = 1..Len(do)
        /\ \A i \in 1..Len(do) : do[i] \in Verbs
    BY <1>1, <1>2
  <2> QED  BY <2>1, CallsFacts
<1> QED  BY <1>1, <1>2, <1>3, <1>4

LEMMA GoBackFacts ==
  ASSUME NEW s \in Services, NEW r, r = GoBack(s)
  PROVE  /\ r \in Seq(CallType) /\ Len(r) = 3
         /\ \A i \in 1..3 : r[i] = [do |-> GoBackFromEnd[4 - i], on |-> s]
PROOF
<1> DEFINE do == <<"restore", "reverify", "resmoke">>
<1>1. DOMAIN do = 1..3 /\ Len(do) = 3
  OBVIOUS
<1>2. ASSUME NEW i \in 1..3  PROVE do[i] \in Verbs /\ do[i] = GoBackFromEnd[4 - i]
  <2>1. i = 1 \/ i = 2 \/ i = 3
    OBVIOUS
  <2> QED  BY <2>1 DEF Verbs, GoBackFromEnd
<1>3. r = Calls(do, s)
  BY DEF GoBack
<1> HIDE DEF do
<1>4. /\ Calls(do, s) \in Seq(CallType) /\ Len(Calls(do, s)) = Len(do)
      /\ \A i \in 1..Len(do) : Calls(do, s)[i] = [do |-> do[i], on |-> s]
  <2>1. /\ Len(do) \in Nat /\ DOMAIN do = 1..Len(do)
        /\ \A i \in 1..Len(do) : do[i] \in Verbs
    BY <1>1, <1>2
  <2> QED  BY <2>1, CallsFacts
<1> QED  BY <1>1, <1>2, <1>3, <1>4

(* The calls of the migration job.                                         *)
LEMMA JobFacts ==
  ASSUME NEW r, r = Calls(<<"update", "migrate">>, "job")
  PROVE  /\ r \in Seq(CallType) /\ Len(r) = 2
         /\ r[1] = [do |-> "update", on |-> "job"] /\ r[2] = [do |-> "migrate", on |-> "job"]
PROOF
<1> DEFINE do == <<"update", "migrate">>
<1>1. DOMAIN do = 1..2 /\ Len(do) = 2 /\ do[1] = "update" /\ do[2] = "migrate"
  OBVIOUS
<1>2. ASSUME NEW i \in 1..2  PROVE do[i] \in Verbs
  <2>1. i = 1 \/ i = 2
    OBVIOUS
  <2> QED  BY <2>1 DEF Verbs
<1>3. r = Calls(do, "job")
  OBVIOUS
<1> HIDE DEF do
<1>4. /\ Calls(do, "job") \in Seq(CallType) /\ Len(Calls(do, "job")) = Len(do)
      /\ \A i \in 1..Len(do) : Calls(do, "job")[i] = [do |-> do[i], on |-> "job"]
  BY <1>1, <1>2, CallsFacts
<1>5. 1 \in 1..2 /\ 2 \in 1..2
  OBVIOUS
<1> QED  BY <1>1, <1>3, <1>4, <1>5

(* The plan, read from its end.                                            *)
LEMMA PlanFacts ==
  ASSUME NEW worker \in BOOLEAN, NEW p, p = Plan(worker)
  PROVE  /\ p \in Seq(CallType)
         /\ Len(p) = Steps(worker)
         /\ \A i \in 1..Steps(worker) : p[i] = Due(worker, Steps(worker) + 1 - i)
PROOF
<1> DEFINE A == Checks("api")
           W == Checks("worker")
           J == Calls(<<"update", "migrate">>, "job")
           RW == Roll("worker")
           RA == Roll("api")
<1>1. /\ A \in Seq(CallType) /\ Len(A) = 1 /\ A[1] = [do |-> "check", on |-> "api"]
      /\ W \in Seq(CallType) /\ Len(W) = 1 /\ W[1] = [do |-> "check", on |-> "worker"]
  BY SingleFacts DEF Checks, Services, Verbs
<1>2. /\ J \in Seq(CallType) /\ Len(J) = 2
      /\ J[1] = [do |-> "update", on |-> "job"] /\ J[2] = [do |-> "migrate", on |-> "job"]
  BY JobFacts
<1>3. /\ RW \in Seq(CallType) /\ Len(RW) = 7
      /\ \A i \in 1..7 : RW[i] = [do |-> RollFromEnd[8 - i], on |-> "worker"]
  BY RollFacts DEF Services
<1>4. /\ RA \in Seq(CallType) /\ Len(RA) = 7
      /\ \A i \in 1..7 : RA[i] = [do |-> RollFromEnd[8 - i], on |-> "api"]
  BY RollFacts DEF Services
<1> HIDE DEF A, W, J, RW, RA
<1>5. /\ worker => p = Joined(Joined(Joined(Joined(A, W), J), RW), RA)
      /\ ~worker => p = Joined(Joined(A, J), RA)
  <2>1. /\ worker => p = A \o W \o J \o RW \o RA
        /\ ~worker => p = A \o <<>> \o J \o <<>> \o RA
    BY DEF Plan, If, A, W, J, RW, RA
  <2>2. A \o <<>> = A
    BY <1>1
  <2>3. Joined(A, J) \o <<>> = Joined(A, J)
    BY <1>1, <1>2, ConcatFacts
  <2> QED  BY <2>1, <2>2, <2>3 DEF Joined
<1>6. CASE worker
  <2> DEFINE O == Joined(A, W)
             P == Joined(O, J)
             Q == Joined(P, RW)
  <2>1. p = Joined(Q, RA) /\ Q = Joined(P, RW) /\ P = Joined(O, J) /\ O = Joined(A, W)
    BY <1>5, <1>6
  <2> HIDE DEF O, P, Q
  <2>2. O \in Seq(CallType) /\ Len(O) = 2 /\ O[1] = A[1] /\ O[2] = W[1]
    <3>1. A \in Seq(CallType) /\ W \in Seq(CallType)
      BY <1>1, <2>1
    <3>2. /\ Joined(A, W) \in Seq(CallType) /\ Len(Joined(A, W)) = Len(A) + Len(W)
          /\ \A i \in 1..Len(A) : Joined(A, W)[i] = A[i]
          /\ \A i \in Len(A) + 1..Len(A) + Len(W) : Joined(A, W)[i] = W[i - Len(A)]
      BY <3>1, ConcatFacts
    <3> QED  BY <1>1, <2>1, <3>2
  <2>3. /\ P \in Seq(CallType) /\ Len(P) = 4
        /\ P[1] = A[1] /\ P[2] = W[1] /\ P[3] = J[1] /\ P[4] = J[2]
    <3>1. O \in Seq(CallType) /\ J \in Seq(CallType)
      BY <1>2, <2>1, <2>2
    <3>2. /\ Joined(O, J) \in Seq(CallType) /\ Len(Joined(O, J)) = Len(O) + Len(J)
          /\ \A i \in 1..Len(O) : Joined(O, J)[i] = O[i]
          /\ \A i \in Len(O) + 1..Len(O) + Len(J) : Joined(O, J)[i] = J[i - Len(O)]
      BY <3>1, ConcatFacts
    <3> QED  BY <1>2, <2>1, <2>2, <3>2
  <2>4. /\ Q \in Seq(CallType) /\ Len(Q) = 11
        /\ \A i \in 1..4 : Q[i] = P[i]
        /\ \A i \in 5..11 : Q[i] = RW[i - 4]
    <3>1. P \in Seq(CallType) /\ RW \in Seq(CallType)
      BY <1>3, <2>1, <2>3
    <3>2. /\ Joined(P, RW) \in Seq(CallType) /\ Len(Joined(P, RW)) = Len(P) + Len(RW)
          /\ \A i \in 1..Len(P) : Joined(P, RW)[i] = P[i]
          /\ \A i \in Len(P) + 1..Len(P) + Len(RW) : Joined(P, RW)[i] = RW[i - Len(P)]
      BY <3>1, ConcatFacts
    <3>3. Q = Joined(P, RW)
      BY <2>1
    <3>4. Len(P) = 4 /\ Len(RW) = 7
      BY <1>3, <2>1, <2>3
    <3>5. Len(P) + 1 = 5 /\ Len(P) + Len(RW) = 11
      BY <3>4
    <3> QED  BY <3>2, <3>3, <3>4, <3>5
  <2>5. /\ p \in Seq(CallType) /\ Len(p) = 18
        /\ \A i \in 1..11 : p[i] = Q[i]
        /\ \A i \in 12..18 : p[i] = RA[i - 11]
    <3>1. Q \in Seq(CallType) /\ RA \in Seq(CallType)
      BY <1>4, <2>1, <2>4
    <3>2. /\ Joined(Q, RA) \in Seq(CallType) /\ Len(Joined(Q, RA)) = Len(Q) + Len(RA)
          /\ \A i \in 1..Len(Q) : Joined(Q, RA)[i] = Q[i]
          /\ \A i \in Len(Q) + 1..Len(Q) + Len(RA) : Joined(Q, RA)[i] = RA[i - Len(Q)]
      BY <3>1, ConcatFacts
    <3>3. p = Joined(Q, RA)
      BY <2>1
    <3>4. Len(Q) = 11 /\ Len(RA) = 7
      BY <1>4, <2>1, <2>4
    <3>5. Len(Q) + 1 = 12 /\ Len(Q) + Len(RA) = 18
      BY <3>4
    <3> QED  BY <3>2, <3>3, <3>4, <3>5
  <2>6. ASSUME NEW i \in 1..18  PROVE p[i] = Due(worker, 19 - i)
    <3>1. CASE i >= 12
      <4>1. i \in 12..18 /\ i - 11 \in 1..7 /\ 8 - (i - 11) = 19 - i /\ 19 - i <= 7
        BY <3>1
      <4>2. p[i] = [do |-> RollFromEnd[19 - i], on |-> "api"]
        BY <4>1, <2>5, <1>4
      <4> QED  BY <4>1, <4>2 DEF Due
    <3>2. CASE i \in 5..11
      <4>1. /\ i \in 1..11 /\ i - 4 \in 1..7 /\ 8 - (i - 4) = (19 - i) - 7
            /\ ~(19 - i <= 7) /\ 19 - i <= 14
        BY <3>2
      <4>2. p[i] = RW[i - 4]
        BY <3>2, <4>1, <2>5, <2>4
      <4>3. RW[i - 4] = [do |-> RollFromEnd[8 - (i - 4)], on |-> "worker"]
        BY <4>1, <1>3
      <4>4. p[i] = [do |-> RollFromEnd[(19 - i) - 7], on |-> "worker"]
        BY <4>1, <4>2, <4>3
      <4> QED  BY <4>1, <4>4, <1>6 DEF Due
    <3>3. CASE i \in 1..4
      <4>1. p[i] = P[i]
        <5>1. i \in 1..11
          BY <3>3
        <5> QED  BY <5>1, <3>3, <2>4, <2>5
      <4>2. i = 1 \/ i = 2 \/ i = 3 \/ i = 4
        BY <3>3
      <4> QED  BY <4>1, <4>2, <2>3, <1>1, <1>2, <1>6 DEF Due
    <3> QED  BY <3>1, <3>2, <3>3
  <2>7. Steps(worker) = 18 /\ \A i \in 1..18 : Steps(worker) + 1 - i = 19 - i
    BY <1>6 DEF Steps
  <2> QED  BY <2>5, <2>6, <2>7
<1>7. CASE ~worker
  <2> DEFINE P == Joined(A, J)
  <2>1. p = Joined(P, RA)
    BY <1>5, <1>7
  <2>2. P = Joined(A, J)
    OBVIOUS
  <2> HIDE DEF P
  <2>3. /\ P \in Seq(CallType) /\ Len(P) = 3
        /\ P[1] = A[1] /\ P[2] = J[1] /\ P[3] = J[2]
    <3>1. A \in Seq(CallType) /\ J \in Seq(CallType)
      BY <1>1, <1>2, <2>2
    <3>2. /\ Joined(A, J) \in Seq(CallType) /\ Len(Joined(A, J)) = Len(A) + Len(J)
          /\ \A i \in 1..Len(A) : Joined(A, J)[i] = A[i]
          /\ \A i \in Len(A) + 1..Len(A) + Len(J) : Joined(A, J)[i] = J[i - Len(A)]
      BY <3>1, ConcatFacts
    <3> QED  BY <1>1, <1>2, <2>2, <3>2
  <2>4. /\ p \in Seq(CallType) /\ Len(p) = 10
        /\ \A i \in 1..3 : p[i] = P[i]
        /\ \A i \in 4..10 : p[i] = RA[i - 3]
    <3>1. P \in Seq(CallType) /\ RA \in Seq(CallType)
      BY <1>4, <2>1, <2>3
    <3>2. /\ Joined(P, RA) \in Seq(CallType) /\ Len(Joined(P, RA)) = Len(P) + Len(RA)
          /\ \A i \in 1..Len(P) : Joined(P, RA)[i] = P[i]
          /\ \A i \in Len(P) + 1..Len(P) + Len(RA) : Joined(P, RA)[i] = RA[i - Len(P)]
      BY <3>1, ConcatFacts
    <3>3. p = Joined(P, RA)
      BY <2>1
    <3>4. Len(P) = 3 /\ Len(RA) = 7
      BY <1>4, <2>1, <2>3
    <3>5. Len(P) + 1 = 4 /\ Len(P) + Len(RA) = 10
      BY <3>4
    <3> QED  BY <3>2, <3>3, <3>4, <3>5
  <2>5. ASSUME NEW i \in 1..10  PROVE p[i] = Due(worker, 11 - i)
    <3>1. CASE i >= 4
      <4>1. i \in 4..10 /\ i - 3 \in 1..7 /\ 8 - (i - 3) = 11 - i /\ 11 - i <= 7
        BY <3>1
      <4>2. p[i] = [do |-> RollFromEnd[11 - i], on |-> "api"]
        BY <4>1, <2>4, <1>4
      <4> QED  BY <4>1, <4>2 DEF Due
    <3>2. CASE i \in 1..3
      <4>1. i = 1 \/ i = 2 \/ i = 3
        BY <3>2
      <4>2. p[i] = P[i]
        BY <3>2, <2>4
      <4> QED  BY <4>1, <4>2, <2>3, <1>1, <1>2, <1>7 DEF Due
    <3> QED  BY <3>1, <3>2
  <2>6. Steps(worker) = 10 /\ \A i \in 1..10 : Steps(worker) + 1 - i = 11 - i
    BY <1>7 DEF Steps
  <2> QED  BY <2>4, <2>5, <2>6
<1> QED  BY <1>6, <1>7

(* The way back, read from its end.                                        *)
LEMMA RestorationFacts ==
  ASSUME NEW d, d.attempted \subseteq Services, NEW r, r = Restoration(d),
         NEW worker \in BOOLEAN,
         worker => ("api" \in d.attempted => "worker" \in d.attempted),
         ~worker => "worker" \notin d.attempted
  PROVE  /\ r \in Seq(CallType) /\ Len(r) <= BackSteps(worker)
         /\ \A i \in 1..Len(r) : r[i] = DueBack(worker, Len(r) + 1 - i)
         /\ Len(r) = (IF "api" \in d.attempted THEN 3 ELSE 0)
                      + (IF "worker" \in d.attempted THEN 3 ELSE 0)
PROOF
<1> DEFINE A == GoBack("api")
           W == GoBack("worker")
<1>1. /\ A \in Seq(CallType) /\ Len(A) = 3
      /\ \A i \in 1..3 : A[i] = [do |-> GoBackFromEnd[4 - i], on |-> "api"]
      /\ W \in Seq(CallType) /\ Len(W) = 3
      /\ \A i \in 1..3 : W[i] = [do |-> GoBackFromEnd[4 - i], on |-> "worker"]
  BY GoBackFacts DEF Services
<1>2. r = (IF "api" \in d.attempted THEN A ELSE <<>>)
          \o (IF "worker" \in d.attempted THEN W ELSE <<>>)
  BY DEF Restoration, If
<1> HIDE DEF A, W
<1>3. CASE "api" \in d.attempted /\ "worker" \in d.attempted
  <2>1. r = Joined(A, W) /\ worker
    BY <1>2, <1>3 DEF Joined
  <2>2. /\ r \in Seq(CallType) /\ Len(r) = 6
        /\ \A i \in 1..3 : r[i] = A[i]
        /\ \A i \in 4..6 : r[i] = W[i - 3]
    <3>1. A \in Seq(CallType) /\ W \in Seq(CallType)
      BY <1>1, <2>1
    <3>2. /\ Joined(A, W) \in Seq(CallType) /\ Len(Joined(A, W)) = Len(A) + Len(W)
          /\ \A i \in 1..Len(A) : Joined(A, W)[i] = A[i]
          /\ \A i \in Len(A) + 1..Len(A) + Len(W) : Joined(A, W)[i] = W[i - Len(A)]
      BY <3>1, ConcatFacts
    <3> QED  BY <1>1, <2>1, <3>2
  <2>3. ASSUME NEW i \in 1..6  PROVE r[i] = DueBack(worker, 7 - i)
    <3>1. CASE i <= 3
      <4>1. i \in 1..3 /\ (7 - i) - 3 = 4 - i /\ ~(7 - i <= 3)
        BY <3>1
      <4>2. r[i] = [do |-> GoBackFromEnd[4 - i], on |-> "api"]
        BY <1>1, <2>2, <4>1
      <4> QED  BY <4>1, <4>2 DEF DueBack
    <3>2. CASE i >= 4
      <4>1. i \in 4..6 /\ i - 3 \in 1..3 /\ 4 - (i - 3) = 7 - i /\ 7 - i <= 3
        BY <3>2
      <4>2. r[i] = [do |-> GoBackFromEnd[7 - i], on |-> "worker"]
        BY <1>1, <2>2, <4>1
      <4> QED  BY <4>1, <4>2, <2>1 DEF DueBack
    <3> QED  BY <3>1, <3>2
  <2>4. BackSteps(worker) = 6 /\ \A i \in 1..6 : Len(r) + 1 - i = 7 - i
    BY <2>1, <2>2 DEF BackSteps
  <2>5. \A i \in 1..Len(r) : r[i] = DueBack(worker, Len(r) + 1 - i)
    BY <2>2, <2>3, <2>4
  <2> QED  BY <2>2, <2>4, <2>5, <1>3
<1>4. CASE "api" \in d.attempted /\ "worker" \notin d.attempted
  <2>1. r = A \o <<>> /\ ~worker
    BY <1>2, <1>4
  <2>2. r = A
    BY <1>1, <2>1
  <2>3. ASSUME NEW i \in 1..3  PROVE r[i] = DueBack(worker, 4 - i)
    <3>1. 4 - i <= 3
      OBVIOUS
    <3> QED  BY <1>1, <2>1, <2>2, <3>1 DEF DueBack
  <2>4. r \in Seq(CallType) /\ Len(r) = 3
    BY <1>1, <2>2
  <2>5. Len(r) <= BackSteps(worker) /\ \A i \in 1..3 : Len(r) + 1 - i = 4 - i
    BY <2>4 DEF BackSteps
  <2>6. \A i \in 1..Len(r) : r[i] = DueBack(worker, Len(r) + 1 - i)
    BY <2>3, <2>4, <2>5
  <2> QED  BY <2>4, <2>5, <2>6, <1>4
<1>5. CASE "api" \notin d.attempted /\ "worker" \in d.attempted
  <2>1. r = <<>> \o W /\ worker
    BY <1>2, <1>5
  <2>2. r = W
    BY <1>1, <2>1
  <2>3. ASSUME NEW i \in 1..3  PROVE r[i] = DueBack(worker, 4 - i)
    <3>1. 4 - i <= 3
      OBVIOUS
    <3> QED  BY <1>1, <2>1, <2>2, <3>1 DEF DueBack
  <2>4. r \in Seq(CallType) /\ Len(r) = 3
    BY <1>1, <2>2
  <2>5. Len(r) <= BackSteps(worker) /\ \A i \in 1..3 : Len(r) + 1 - i = 4 - i
    BY <2>4 DEF BackSteps
  <2>6. \A i \in 1..Len(r) : r[i] = DueBack(worker, Len(r) + 1 - i)
    BY <2>3, <2>4, <2>5
  <2> QED  BY <2>4, <2>5, <2>6, <1>5
<1>6. CASE "api" \notin d.attempted /\ "worker" \notin d.attempted
  <2>1. r = <<>> /\ Len(<<>>) = 0 /\ (\A i \in 1..0 : FALSE) /\ <<>> \in Seq(CallType)
    BY <1>2, <1>6
  <2> QED  BY <2>1, <1>6 DEF BackSteps
<1> QED  BY <1>3, <1>4, <1>5, <1>6

(* The tags that are removed are those of what was created.                *)
LEMMA CleaningFacts ==
  ASSUME NEW d, d.created \subseteq Services, NEW c, c = Cleaning(d)
  PROVE  /\ c \in Seq(CallType)
         /\ \A i \in 1..Len(c) : c[i].do = "untag" /\ c[i].on \in Services
         /\ \A s \in d.created : \E i \in 1..Len(c) : c[i].on = s
PROOF
<1> DEFINE A == Untag("api")
           W == Untag("worker")
<1>1. /\ A \in Seq(CallType) /\ Len(A) = 1 /\ A[1] = [do |-> "untag", on |-> "api"]
      /\ W \in Seq(CallType) /\ Len(W) = 1 /\ W[1] = [do |-> "untag", on |-> "worker"]
  BY SingleFacts DEF Untag, Services, Verbs
<1>2. c = (IF "api" \in d.created THEN A ELSE <<>>)
          \o (IF "worker" \in d.created THEN W ELSE <<>>)
  BY DEF Cleaning, If
<1> HIDE DEF A, W
<1>3. CASE "api" \in d.created /\ "worker" \in d.created
  <2>1. c \in Seq(CallType) /\ Len(c) = 2 /\ c[1] = A[1] /\ c[2] = W[1]
    <3>0. c = Joined(A, W)
      BY <1>2, <1>3 DEF Joined
    <3>1. A \in Seq(CallType) /\ W \in Seq(CallType)
      BY <1>1, <3>0
    <3>2. /\ Joined(A, W) \in Seq(CallType) /\ Len(Joined(A, W)) = Len(A) + Len(W)
          /\ \A i \in 1..Len(A) : Joined(A, W)[i] = A[i]
          /\ \A i \in Len(A) + 1..Len(A) + Len(W) : Joined(A, W)[i] = W[i - Len(A)]
      BY <3>1, ConcatFacts
    <3> QED  BY <1>1, <3>0, <3>2
  <2>2. (\A i \in 1..2 : i = 1 \/ i = 2) /\ 1 \in 1..2 /\ 2 \in 1..2
    OBVIOUS
  <2> QED  BY <1>1, <2>1, <2>2 DEF Services
<1>4. CASE "api" \in d.created /\ "worker" \notin d.created
  <2>1. c = A
    <3>1. c = A \o <<>>
      BY <1>2, <1>4
    <3> QED  BY <1>1, <3>1
  <2>2. (\A i \in 1..1 : i = 1) /\ 1 \in 1..1
    OBVIOUS
  <2>3. c \in Seq(CallType) /\ Len(c) = 1 /\ c[1].do = "untag" /\ c[1].on = "api"
    BY <1>1, <2>1
  <2> QED  BY <1>4, <2>2, <2>3 DEF Services
<1>5. CASE "api" \notin d.created /\ "worker" \in d.created
  <2>1. c = W
    <3>1. c = <<>> \o W
      BY <1>2, <1>5
    <3> QED  BY <1>1, <3>1
  <2>2. (\A i \in 1..1 : i = 1) /\ 1 \in 1..1
    OBVIOUS
  <2>3. c \in Seq(CallType) /\ Len(c) = 1 /\ c[1].do = "untag" /\ c[1].on = "worker"
    BY <1>1, <2>1
  <2> QED  BY <1>5, <2>2, <2>3 DEF Services
<1>6. CASE "api" \notin d.created /\ "worker" \notin d.created
  <2>1. c = <<>> /\ Len(<<>>) = 0 /\ (\A i \in 1..0 : FALSE) /\ <<>> \in Seq(CallType)
    BY <1>2, <1>6
  <2> QED  BY <2>1, <1>6 DEF Services
<1> QED  BY <1>3, <1>4, <1>5, <1>6

-----------------------------------------------------------------------------
(* The records a call makes of deploy().                                   *)

(* What no call changes.                                                   *)
Alike(d, e) ==
    /\ e.phase = d.phase /\ e.worker = d.worker /\ e.version = d.version
    /\ e.moved = d.moved /\ e.cut = d.cut

LEMMA TailFacts ==
  ASSUME NEW q \in Seq(CallType), q # <<>>
  PROVE  /\ Tail(q) \in Seq(CallType) /\ Len(q) \in Nat /\ Len(q) >= 1
         /\ Len(Tail(q)) = Len(q) - 1
         /\ \A i \in 1..Len(Tail(q)) : Tail(q)[i] = q[i + 1]
         /\ q[1] \in CallType
OBVIOUS

LEMMA BegunFacts ==
  ASSUME NEW d \in DeployType, NEW c \in CallType, c.on \in Services, NEW e, e = Begun(c, d)
  PROVE  /\ e \in DeployType /\ Alike(d, e)
         /\ e.failed = d.failed /\ e.previous = d.previous /\ e.seen = d.seen
         /\ e.restore = d.restore /\ e.cleanup = d.cleanup /\ e.calls = d.calls
         /\ e.attempted = IF c.do = "promote" THEN d.attempted \cup {c.on} ELSE d.attempted
         /\ e.created = IF c.do = "deploy" THEN d.created \cup {c.on} ELSE d.created
PROOF
<1> DEFINE created == d.created \cup {c.on}
           attempted == d.attempted \cup {c.on}
<1>1. created \in Parts /\ attempted \in Parts
  <2>1. d.created \in Parts /\ d.attempted \in Parts
    BY DEF DeployType
  <2> QED  BY <2>1 DEF Parts
<1>2. e = IF c.do = "deploy" THEN [d EXCEPT !.created = created]
          ELSE IF c.do = "promote" THEN [d EXCEPT !.attempted = attempted] ELSE d
  <2>1. CASE c.do = "deploy"
    BY <2>1 DEF Begun, DeployType
  <2>2. CASE c.do = "promote"
    BY <2>2 DEF Begun, DeployType
  <2>3. CASE c.do # "deploy" /\ c.do # "promote"
    BY <2>3 DEF Begun
  <2> QED  BY <2>1, <2>2, <2>3
<1>3. e.attempted = (IF c.do = "promote" THEN attempted ELSE d.attempted)
      /\ e.created = (IF c.do = "deploy" THEN created ELSE d.created)
  <2> HIDE DEF created, attempted
  <2> QED  BY <1>2 DEF DeployType
<1>4. /\ e \in DeployType /\ Alike(d, e)
      /\ e.failed = d.failed /\ e.previous = d.previous /\ e.seen = d.seen
      /\ e.restore = d.restore /\ e.cleanup = d.cleanup /\ e.calls = d.calls
  <2> HIDE DEF created, attempted
  <2> QED  BY <1>1, <1>2 DEF DeployType, Alike
<1> QED  BY <1>3, <1>4

LEMMA RaisesFacts ==
  ASSUME NEW d \in DeployType, Restoration(d) \in CallSeqs, NEW e, e = Raises(d)
  PROVE  /\ e \in DeployType /\ Alike(d, e)
         /\ e.failed = TRUE /\ e.previous = d.previous /\ e.seen = d.seen
         /\ e.restore = d.restore /\ e.cleanup = d.cleanup /\ e.calls = Restoration(d)
         /\ e.attempted = d.attempted /\ e.created = d.created
PROOF
<1>1. e = [d EXCEPT !.failed = TRUE, !.calls = Restoration(d)]
  BY DEF Raises
<1> QED  BY <1>1 DEF DeployType, Alike

LEMMA NextFacts ==
  ASSUME NEW d \in DeployType, d.calls # <<>>, NEW e, e = [d EXCEPT !.calls = Tail(@)]
  PROVE  /\ e \in DeployType /\ Alike(d, e)
         /\ e.failed = d.failed /\ e.previous = d.previous /\ e.seen = d.seen
         /\ e.restore = d.restore /\ e.cleanup = d.cleanup /\ e.calls = Tail(d.calls)
         /\ e.attempted = d.attempted /\ e.created = d.created
PROOF
<1> DEFINE t == Tail(d.calls)
<1>1. t \in CallSeqs
  <2>1. d.calls \in CallSeqs
    BY DEF DeployType
  <2> QED  BY <2>1, TailFacts DEF CallSeqs
<1>2. e = [d EXCEPT !.calls = t]
  BY DEF DeployType
<1> HIDE DEF t
<1>3. /\ e \in DeployType /\ Alike(d, e)
      /\ e.failed = d.failed /\ e.previous = d.previous /\ e.seen = d.seen
      /\ e.restore = d.restore /\ e.cleanup = d.cleanup /\ e.calls = t
      /\ e.attempted = d.attempted /\ e.created = d.created
  BY <1>1, <1>2 DEF DeployType, Alike
<1> QED  BY <1>3 DEF t

LEMMA SeenFacts ==
  ASSUME NEW d \in DeployType, d.calls # <<>>, NEW s \in Services, NEW serving \in Int,
         NEW e, e = Seen(d, s, serving)
  PROVE  /\ e \in DeployType /\ Alike(d, e)
         /\ e.failed = d.failed /\ e.previous = d.previous
         /\ e.seen[s] = serving /\ \A r \in Services \ {s} : e.seen[r] = d.seen[r]
         /\ e.restore = d.restore /\ e.cleanup = d.cleanup /\ e.calls = Tail(d.calls)
         /\ e.attempted = d.attempted /\ e.created = d.created
PROOF
<1> DEFINE t == Tail(d.calls)
           seen == [d.seen EXCEPT ![s] = serving]
<1>1. t \in CallSeqs
  <2>1. d.calls \in CallSeqs
    BY DEF DeployType
  <2> QED  BY <2>1, TailFacts DEF CallSeqs
<1>2. e = [d EXCEPT !.seen = seen, !.calls = t]
  BY DEF Seen, DeployType
<1>3. seen \in Versions /\ seen[s] = serving /\ \A r \in Services \ {s} : seen[r] = d.seen[r]
  <2>1. d.seen \in Versions
    BY DEF DeployType
  <2> QED  BY <2>1 DEF Versions
<1> HIDE DEF t, seen
<1>4. /\ e \in DeployType /\ Alike(d, e)
      /\ e.failed = d.failed /\ e.previous = d.previous /\ e.seen = seen
      /\ e.restore = d.restore /\ e.cleanup = d.cleanup /\ e.calls = t
      /\ e.attempted = d.attempted /\ e.created = d.created
  BY <1>1, <1>2, <1>3 DEF DeployType, Alike
<1> QED  BY <1>3, <1>4 DEF t

LEMMA GivenUpFacts ==
  ASSUME NEW d \in DeployType, NEW s \in Services, NEW serving \in Int,
         NEW e, e = GivenUp(d, s, serving)
  PROVE  /\ e \in DeployType /\ Alike(d, e)
         /\ e.failed = d.failed /\ e.previous = d.previous
         /\ e.seen[s] = serving /\ \A r \in Services \ {s} : e.seen[r] = d.seen[r]
         /\ e.restore[s] = "failed" /\ \A r \in Services \ {s} : e.restore[r] = d.restore[r]
         /\ e.cleanup = d.cleanup
         /\ e.calls = IF s = "api" /\ "worker" \in d.attempted THEN GoBack("worker") ELSE <<>>
         /\ e.attempted = d.attempted /\ e.created = d.created
PROOF
<1> DEFINE seen == [d.seen EXCEPT ![s] = serving]
           restore == [d.restore EXCEPT ![s] = "failed"]
           calls == IF s = "api" /\ "worker" \in d.attempted THEN GoBack("worker") ELSE <<>>
<1>1. calls \in CallSeqs
  <2>1. GoBack("worker") \in Seq(CallType)
    BY GoBackFacts DEF Services
  <2> QED  BY <2>1 DEF CallSeqs
<1>2. e = [d EXCEPT !.restore = restore, !.seen = seen, !.calls = calls]
  BY DEF GivenUp, DeployType, If
<1>3. seen \in Versions /\ seen[s] = serving /\ \A r \in Services \ {s} : seen[r] = d.seen[r]
  <2>1. d.seen \in Versions
    BY DEF DeployType
  <2> QED  BY <2>1 DEF Versions
<1>4. /\ restore \in Restores /\ restore[s] = "failed"
      /\ \A r \in Services \ {s} : restore[r] = d.restore[r]
  <2>1. d.restore \in Restores
    BY DEF DeployType
  <2> QED  BY <2>1 DEF Restores
<1> HIDE DEF seen, restore, calls
<1>5. /\ e \in DeployType /\ Alike(d, e)
      /\ e.failed = d.failed /\ e.previous = d.previous /\ e.seen = seen
      /\ e.restore = restore /\ e.cleanup = d.cleanup /\ e.calls = calls
      /\ e.attempted = d.attempted /\ e.created = d.created
  BY <1>1, <1>2, <1>3, <1>4 DEF DeployType, Alike
<1> QED  BY <1>3, <1>4, <1>5 DEF calls

(* What a call does to the cloud.                                          *)
Changed(e, c, image, waited) ==
    \A s \in Services :
        /\ e[s].want = IF c.on = s /\ c.do = "promote" THEN deploy.version
                       ELSE IF c.on = s /\ c.do = "restore" THEN deploy.previous[s]
                       ELSE cloud[s].want
        /\ e[s].serving = IF waited /\ c.on = s /\ c.do \in {"promote", "restore"}
                          THEN e[s].want ELSE cloud[s].serving
        /\ e[s].made = IF c.on = s /\ c.do = "deploy" THEN image ELSE cloud[s].made
        /\ e[s].tagged = IF c.on = s /\ c.do = "deploy" THEN TRUE
                         ELSE IF c.on = s /\ c.do = "untag" THEN FALSE
                         ELSE cloud[s].tagged

LEMMA TypeFacts ==
  ASSUME ScriptTypes
  PROVE  /\ deploy \in DeployType /\ cloud \in CloudType /\ schema \in Int
         /\ deploy.phase \in Phases /\ deploy.worker \in BOOLEAN /\ deploy.version \in Int
         /\ deploy.failed \in BOOLEAN /\ deploy.cut \in BOOLEAN
         /\ deploy.calls \in Seq(CallType) /\ Left \in Nat
         /\ deploy.attempted \subseteq Services /\ deploy.created \subseteq Services
         /\ deploy.moved \subseteq Services
         /\ \A s \in Services :
                /\ deploy.previous[s] \in Int /\ deploy.seen[s] \in Int
                /\ deploy.restore[s] \in {"not attempted", "restored", "failed"}
                /\ cloud[s].want \in Int /\ cloud[s].serving \in Int
PROOF
<1>1. deploy \in DeployType /\ cloud \in CloudType /\ schema \in Int
  BY DEF ScriptTypes
<1>2. /\ deploy.phase \in Phases /\ deploy.worker \in BOOLEAN /\ deploy.version \in Int
      /\ deploy.failed \in BOOLEAN /\ deploy.cut \in BOOLEAN
      /\ deploy.calls \in CallSeqs /\ deploy.attempted \in Parts /\ deploy.created \in Parts
      /\ deploy.moved \in Parts /\ deploy.previous \in Versions /\ deploy.seen \in Versions
      /\ deploy.restore \in Restores
  BY <1>1 DEF DeployType
<1>3. \A s \in Services : cloud[s].want \in Int /\ cloud[s].serving \in Int
  BY <1>1 DEF CloudType, ServiceType
<1>4. \A s \in Services :
         /\ deploy.previous[s] \in Int /\ deploy.seen[s] \in Int
         /\ deploy.restore[s] \in {"not attempted", "restored", "failed"}
  BY <1>2 DEF Versions, Restores
<1>5. deploy.calls \in Seq(CallType) /\ Left \in Nat
  BY <1>2 DEF CallSeqs, Left
<1> QED  BY <1>1, <1>2, <1>3, <1>4, <1>5 DEF Parts

LEMMA EffectFacts ==
  ASSUME ScriptTypes, NEW c \in CallType,
         c.do \in {"deploy", "promote", "restore", "untag"} => c.on \in Services,
         NEW image \in {"released", "other"}, NEW waited \in BOOLEAN,
         NEW e, e = Effect(c, image, waited)
  PROVE  e \in CloudType /\ Changed(e, c, image, waited)
PROOF
<1>1. cloud \in CloudType /\ deploy.version \in Int
      /\ \A s \in Services : deploy.previous[s] \in Int
  BY TypeFacts
<1>2. image \in Images
  BY DEF Images
<1>3. \A s \in Services : cloud[s] \in ServiceType
  BY <1>1 DEF CloudType
<1> DEFINE r == cloud[c.on]
<1>4. CASE c.do = "deploy"
  <2> DEFINE n == [r EXCEPT !.made = image, !.tagged = TRUE]
  <2>1. e = [cloud EXCEPT ![c.on] = n]
    BY <1>1, <1>4 DEF Effect, CloudType, ServiceType
  <2>2. /\ n \in ServiceType /\ n.want = r.want /\ n.serving = r.serving
        /\ n.made = image /\ n.tagged = TRUE
    BY <1>2, <1>3, <1>4 DEF ServiceType
  <2> HIDE DEF n
  <2>3. e \in CloudType /\ e[c.on] = n /\ \A s \in Services \ {c.on} : e[s] = cloud[s]
    BY <1>1, <1>4, <2>1, <2>2 DEF CloudType
  <2> QED  BY <1>4, <2>2, <2>3 DEF Changed
<1>5. CASE c.do = "promote"
  <2> DEFINE n == [r EXCEPT !.want = deploy.version,
                            !.serving = IF waited THEN deploy.version ELSE r.serving]
  <2>1. e = [cloud EXCEPT ![c.on] = n]
    BY <1>1, <1>5 DEF Effect, CloudType, ServiceType, Told
  <2>2. /\ n \in ServiceType /\ n.want = deploy.version
        /\ n.serving = (IF waited THEN deploy.version ELSE r.serving)
        /\ n.made = r.made /\ n.tagged = r.tagged
    BY <1>1, <1>3, <1>5 DEF ServiceType
  <2> HIDE DEF n
  <2>3. e \in CloudType /\ e[c.on] = n /\ \A s \in Services \ {c.on} : e[s] = cloud[s]
    BY <1>1, <1>5, <2>1, <2>2 DEF CloudType
  <2> QED  BY <1>5, <2>2, <2>3 DEF Changed
<1>6. CASE c.do = "restore"
  <2> DEFINE n == [r EXCEPT !.want = deploy.previous[c.on],
                            !.serving = IF waited THEN deploy.previous[c.on] ELSE r.serving]
  <2>1. e = [cloud EXCEPT ![c.on] = n]
    BY <1>1, <1>6 DEF Effect, CloudType, ServiceType, Told
  <2>2. /\ n \in ServiceType /\ n.want = deploy.previous[c.on]
        /\ n.serving = (IF waited THEN deploy.previous[c.on] ELSE r.serving)
        /\ n.made = r.made /\ n.tagged = r.tagged
    BY <1>1, <1>3, <1>6 DEF ServiceType
  <2> HIDE DEF n
  <2>3. e \in CloudType /\ e[c.on] = n /\ \A s \in Services \ {c.on} : e[s] = cloud[s]
    BY <1>1, <1>6, <2>1, <2>2 DEF CloudType
  <2> QED  BY <1>6, <2>2, <2>3 DEF Changed
<1>7. CASE c.do = "untag"
  <2> DEFINE n == [r EXCEPT !.tagged = FALSE]
  <2>1. e = [cloud EXCEPT ![c.on] = n]
    BY <1>1, <1>7 DEF Effect, CloudType, ServiceType
  <2>2. /\ n \in ServiceType /\ n.want = r.want /\ n.serving = r.serving
        /\ n.made = r.made /\ n.tagged = FALSE
    BY <1>3, <1>7 DEF ServiceType
  <2> HIDE DEF n
  <2>3. e \in CloudType /\ e[c.on] = n /\ \A s \in Services \ {c.on} : e[s] = cloud[s]
    BY <1>1, <1>7, <2>1, <2>2 DEF CloudType
  <2> QED  BY <1>7, <2>2, <2>3 DEF Changed
<1>8. CASE c.do \notin {"deploy", "promote", "restore", "untag"}
  <2>1. e = cloud
    BY <1>8 DEF Effect
  <2> QED  BY <1>1, <1>8, <2>1 DEF Changed
<1> QED  BY <1>4, <1>5, <1>6, <1>7, <1>8

-----------------------------------------------------------------------------
(* Which call is next on the way forward, by what is left.                 *)
LEMMA VerbsFacts ==
  /\ \A n \in 1..7 :
        /\ RollFromEnd[n] \in {"prove", "verify", "promote", "try", "look", "identify", "deploy"}
        /\ RollFromEnd[n] = "prove" <=> n = 1
        /\ RollFromEnd[n] = "verify" <=> n = 2
        /\ RollFromEnd[n] = "promote" <=> n = 3
        /\ RollFromEnd[n] = "look" <=> n = 5
        /\ RollFromEnd[n] = "identify" <=> n = 6
        /\ RollFromEnd[n] = "deploy" <=> n = 7
  /\ \A n \in 1..3 :
        /\ GoBackFromEnd[n] \in {"resmoke", "reverify", "restore"}
        /\ GoBackFromEnd[n] = "resmoke" <=> n = 1
        /\ GoBackFromEnd[n] = "reverify" <=> n = 2
        /\ GoBackFromEnd[n] = "restore" <=> n = 3
PROOF
<1>1. ASSUME NEW n \in 1..7
      PROVE  /\ RollFromEnd[n] \in {"prove", "verify", "promote", "try", "look", "identify", "deploy"}
             /\ RollFromEnd[n] = "prove" <=> n = 1
             /\ RollFromEnd[n] = "verify" <=> n = 2
             /\ RollFromEnd[n] = "promote" <=> n = 3
             /\ RollFromEnd[n] = "look" <=> n = 5
             /\ RollFromEnd[n] = "identify" <=> n = 6
             /\ RollFromEnd[n] = "deploy" <=> n = 7
  BY OneToSeven DEF RollFromEnd
<1>2. ASSUME NEW n \in 1..3
      PROVE  /\ GoBackFromEnd[n] \in {"resmoke", "reverify", "restore"}
             /\ GoBackFromEnd[n] = "resmoke" <=> n = 1
             /\ GoBackFromEnd[n] = "reverify" <=> n = 2
             /\ GoBackFromEnd[n] = "restore" <=> n = 3
  <2>1. n = 1 \/ n = 2 \/ n = 3
    OBVIOUS
  <2> QED  BY <2>1 DEF GoBackFromEnd
<1> QED  BY <1>1, <1>2

ForwardVerbs == {"check", "update", "migrate", "deploy", "identify", "look", "try", "promote",
                 "verify", "prove"}

(* Call s is the service's n-th from the end of its part of the plan.      *)
At(s, n) == s \in Part /\ LeftOf(s) = n

LEMMA ForwardCall ==
  ASSUME ScriptTypes, OnPlan, Forward, deploy.calls # <<>>
  PROVE  /\ Left \in 1..Steps(deploy.worker)
         /\ Call \in CallType /\ Call.do \in ForwardVerbs
         /\ Call.on = "job" <=> Call.do \in {"update", "migrate"}
         /\ Call.do = "migrate" <=> Left = IF deploy.worker THEN 15 ELSE 8
         /\ Call.on \in Part \cup {"job"}
         /\ Call.do = "check" => Left >= IF deploy.worker THEN 17 ELSE 10
         /\ \A s \in Services :
               /\ Call.on = s /\ Call.do = "verify" <=> At(s, 2)
               /\ Call.on = s /\ Call.do = "promote" <=> At(s, 3)
               /\ Call.on = s /\ Call.do = "look" <=> At(s, 5)
               /\ Call.on = s /\ Call.do = "identify" <=> At(s, 6)
               /\ Call.on = s /\ Call.do = "deploy" <=> At(s, 7)
PROOF
<1>1. /\ deploy.calls \in Seq(CallType) /\ Left \in Nat /\ Left >= 1 /\ Call \in CallType
      /\ deploy.worker \in BOOLEAN
  BY TypeFacts, TailFacts DEF Left, Call
<1>2. Left <= Steps(deploy.worker) /\ \A i \in 1..Left : deploy.calls[i] = Due(deploy.worker, Left + 1 - i)
  BY DEF OnPlan
<1>3. Left \in 1..Steps(deploy.worker) /\ 1 \in 1..Left /\ Left + 1 - 1 = Left
  BY <1>1, <1>2 DEF Steps
<1>4. Call = Due(deploy.worker, Left)
  BY <1>2, <1>3 DEF Call
<1>5. CASE Left <= 7
  <2>1. Call.do = RollFromEnd[Left] /\ Call.on = "api" /\ Left \in 1..7
    BY <1>1, <1>4, <1>5 DEF Due
  <2>2. "api" \in Part /\ LeftOf("api") = Left /\ LeftOf("worker") = Left - 7
    BY DEF Part, Services, LeftOf
  <2> QED  BY <1>1, <1>3, <2>1, <2>2, VerbsFacts DEF ForwardVerbs, At, Services
<1>6. CASE deploy.worker /\ Left > 7 /\ Left <= 14
  <2>1. Call.do = RollFromEnd[Left - 7] /\ Call.on = "worker" /\ Left - 7 \in 1..7
    BY <1>1, <1>4, <1>6 DEF Due
  <2>2. /\ "worker" \in Part /\ LeftOf("api") = Left /\ LeftOf("worker") = Left - 7
        /\ LeftOf("api") > 7
    BY <1>6 DEF Part, Services, LeftOf
  <2>3. /\ Call.do \in {"prove", "verify", "promote", "try", "look", "identify", "deploy"}
        /\ Call.do = "verify" <=> LeftOf("worker") = 2
        /\ Call.do = "promote" <=> LeftOf("worker") = 3
        /\ Call.do = "look" <=> LeftOf("worker") = 5
        /\ Call.do = "identify" <=> LeftOf("worker") = 6
        /\ Call.do = "deploy" <=> LeftOf("worker") = 7
    BY <2>1, <2>2, VerbsFacts
  <2>4. Left # 15 /\ Left < 17
    BY <1>1, <1>6
  <2>5. ASSUME NEW s \in Services
        PROVE  /\ Call.on = s /\ Call.do = "verify" <=> At(s, 2)
               /\ Call.on = s /\ Call.do = "promote" <=> At(s, 3)
               /\ Call.on = s /\ Call.do = "look" <=> At(s, 5)
               /\ Call.on = s /\ Call.do = "identify" <=> At(s, 6)
               /\ Call.on = s /\ Call.do = "deploy" <=> At(s, 7)
    <3>1. CASE s = "api"
      BY <2>1, <2>2, <3>1 DEF At
    <3>2. CASE s = "worker"
      BY <2>1, <2>2, <2>3, <3>2 DEF At
    <3> QED  BY <3>1, <3>2 DEF Services
  <2>6. /\ Call.do \in ForwardVerbs /\ Call.do \notin {"update", "migrate", "check"}
        /\ Call.on \in Part /\ Call.on # "job"
    BY <2>1, <2>2, <2>3 DEF ForwardVerbs
  <2> QED  BY <1>1, <1>3, <1>6, <2>4, <2>5, <2>6
<1>7. CASE deploy.worker /\ Left > 14
  <2>1. Left = 15 \/ Left = 16 \/ Left = 17 \/ Left = 18
    BY <1>3, <1>7 DEF Steps
  <2>2. Part = Services /\ LeftOf("api") = Left /\ LeftOf("worker") = Left - 7
    BY <1>7 DEF Part, LeftOf
  <2>3. Call = [do |-> IF Left = 15 THEN "migrate" ELSE IF Left = 16 THEN "update" ELSE "check",
                on |-> IF Left = 15 \/ Left = 16 THEN "job" ELSE IF Left = 17 THEN "worker" ELSE "api"]
    BY <2>1, <1>4, <1>7 DEF Due
  <2>4. /\ Call.do \in {"update", "migrate", "check"}
        /\ Call.on = "job" <=> Call.do \in {"update", "migrate"}
        /\ Call.do = "migrate" <=> Left = 15
        /\ Call.on \in {"job", "api", "worker"}
        /\ Call.do = "check" => Left >= 17
    BY <2>1, <2>3
  <2>5. LeftOf("api") > 7 /\ LeftOf("worker") > 7
    BY <2>1, <2>2
  <2>6. ASSUME NEW s \in Services
        PROVE  /\ Call.on = s /\ Call.do = "verify" <=> At(s, 2)
               /\ Call.on = s /\ Call.do = "promote" <=> At(s, 3)
               /\ Call.on = s /\ Call.do = "look" <=> At(s, 5)
               /\ Call.on = s /\ Call.do = "identify" <=> At(s, 6)
               /\ Call.on = s /\ Call.do = "deploy" <=> At(s, 7)
    <3>1. LeftOf(s) > 7
      BY <2>5 DEF Services
    <3>2. Call.do \notin {"verify", "promote", "look", "identify", "deploy"}
      BY <2>4
    <3> QED  BY <3>1, <3>2 DEF At
  <2>7. Call.do \in ForwardVerbs /\ Call.on \in Part \cup {"job"}
    BY <2>2, <2>4 DEF ForwardVerbs, Services
  <2> QED  BY <1>1, <1>3, <1>7, <2>4, <2>6, <2>7
<1>8. CASE ~deploy.worker /\ Left > 7
  <2>1. Left = 8 \/ Left = 9 \/ Left = 10
    BY <1>3, <1>8 DEF Steps
  <2>2. Part = {"api"} /\ LeftOf("api") = Left
    BY <1>8 DEF Part, LeftOf
  <2>3. Call = [do |-> IF Left = 8 THEN "migrate" ELSE IF Left = 9 THEN "update" ELSE "check",
                on |-> IF Left = 8 \/ Left = 9 THEN "job" ELSE "api"]
    BY <2>1, <1>4, <1>8 DEF Due
  <2> QED  BY <1>1, <1>3, <1>8, <2>1, <2>2, <2>3 DEF ForwardVerbs, At, Services
<1> QED  BY <1>1, <1>5, <1>6, <1>7, <1>8

BackVerbs == {"restore", "reverify", "resmoke"}

LEMMA BackwardCall ==
  ASSUME ScriptTypes, OnWayBack, Backward, deploy.calls # <<>>, deploy.attempted \subseteq Part
  PROVE  /\ Left \in 1..BackSteps(deploy.worker)
         /\ Call \in CallType /\ Call.do \in BackVerbs
         /\ Call.on \in deploy.attempted
         /\ deploy.worker => (Call.on = "api" <=> Left >= 4)
         /\ ~deploy.worker => Call.on = "api"
         /\ LeftBack(Call.on) \in 1..3
         /\ Call.do = "resmoke" <=> LeftBack(Call.on) = 1
         /\ Call.do = "reverify" <=> LeftBack(Call.on) = 2
         /\ Call.do = "restore" <=> LeftBack(Call.on) = 3
PROOF
<1>1. /\ deploy.calls \in Seq(CallType) /\ Left \in Nat /\ Left >= 1 /\ Call \in CallType
      /\ deploy.worker \in BOOLEAN
  BY TypeFacts, TailFacts DEF Left, Call
<1>2. /\ Left <= BackSteps(deploy.worker)
      /\ \A i \in 1..Left : deploy.calls[i] = DueBack(deploy.worker, Left + 1 - i)
      /\ IF deploy.worker /\ Left <= 3 THEN "worker" \in deploy.attempted
         ELSE "api" \in deploy.attempted
  BY <1>1 DEF OnWayBack
<1>3. Left \in 1..BackSteps(deploy.worker) /\ 1 \in 1..Left /\ Left + 1 - 1 = Left
  BY <1>1, <1>2 DEF BackSteps
<1>4. Call = DueBack(deploy.worker, Left)
  BY <1>2, <1>3 DEF Call
<1>5. CASE deploy.worker /\ Left >= 4
  <2>1. Call.do = GoBackFromEnd[Left - 3] /\ Call.on = "api" /\ Left - 3 \in 1..3 /\ ~(Left <= 3)
    BY <1>1, <1>3, <1>4, <1>5 DEF DueBack, BackSteps
  <2>2. LeftBack("api") = Left - 3
    BY <1>5 DEF LeftBack
  <2>3. /\ Call.do \in BackVerbs
        /\ Call.do = "resmoke" <=> Left - 3 = 1
        /\ Call.do = "reverify" <=> Left - 3 = 2
        /\ Call.do = "restore" <=> Left - 3 = 3
    BY <2>1, VerbsFacts DEF BackVerbs
  <2> QED  BY <1>1, <1>2, <1>3, <1>5, <2>1, <2>2, <2>3
<1>6. CASE deploy.worker /\ Left <= 3
  <2>1. Call.do = GoBackFromEnd[Left] /\ Call.on = "worker" /\ Left \in 1..3
    BY <1>1, <1>3, <1>4, <1>6 DEF DueBack
  <2>2. LeftBack("worker") = Left
    BY DEF LeftBack
  <2>3. /\ Call.do \in BackVerbs
        /\ Call.do = "resmoke" <=> Left = 1
        /\ Call.do = "reverify" <=> Left = 2
        /\ Call.do = "restore" <=> Left = 3
    BY <2>1, VerbsFacts DEF BackVerbs
  <2>4. ~(Left >= 4)
    BY <1>1, <1>6
  <2> QED  BY <1>1, <1>2, <1>3, <1>6, <2>1, <2>2, <2>3, <2>4
<1>7. CASE ~deploy.worker
  <2>1. Call.do = GoBackFromEnd[Left] /\ Call.on = "api" /\ Left \in 1..3
    BY <1>1, <1>3, <1>4, <1>7 DEF DueBack, BackSteps
  <2>2. LeftBack("api") = Left
    BY <1>7 DEF LeftBack
  <2> QED  BY <1>1, <1>2, <1>3, <1>7, <2>1, <2>2, VerbsFacts DEF BackVerbs
<1> QED  BY <1>1, <1>5, <1>6, <1>7

-----------------------------------------------------------------------------
(* What one call of the way forward comes to: it passed, or it raised.     *)
Noted ==
    /\ deploy'.attempted = IF Call.do = "promote" THEN deploy.attempted \cup {Call.on}
                           ELSE deploy.attempted
    /\ deploy'.created = IF Call.do = "deploy" THEN deploy.created \cup {Call.on}
                         ELSE deploy.created

Passed(image, waited) ==
    /\ Alike(deploy, deploy') /\ Noted /\ deploy'.failed = FALSE
    /\ deploy'.calls = Tail(deploy.calls)
    /\ deploy'.restore = deploy.restore
    /\ \A s \in Services :
          /\ deploy'.previous[s] = IF Call.do = "check" /\ Call.on = "worker" /\ s = "worker"
                                  THEN cloud[s].serving ELSE deploy.previous[s]
          /\ deploy'.seen[s] = IF Call.on = s /\ Call.do \in {"check", "look", "verify"}
                              THEN cloud'[s].serving ELSE deploy.seen[s]
          /\ Call.on = s =>
                /\ Call.do = "look" => cloud'[s].serving = deploy.previous[s]
                /\ Call.do = "verify" => cloud'[s].serving = deploy.version
                /\ Call.do = "identify" => cloud[s].made = "released"
    /\ Changed(cloud', Call, image, waited)
    /\ schema' = IF Call.do = "migrate" THEN Migrated ELSE schema

Raised ==
    /\ Alike(deploy, deploy') /\ Noted /\ deploy'.failed = TRUE
    /\ Len(deploy'.calls) <= BackSteps(deploy.worker)
    /\ \A i \in 1..Len(deploy'.calls) :
          deploy'.calls[i] = DueBack(deploy.worker, Len(deploy'.calls) + 1 - i)
    /\ Len(deploy'.calls) = (IF "api" \in deploy'.attempted THEN 3 ELSE 0)
                            + (IF "worker" \in deploy'.attempted THEN 3 ELSE 0)
    /\ deploy.worker => ("api" \in deploy'.attempted => "worker" \in deploy'.attempted)
    /\ deploy'.restore = deploy.restore /\ deploy'.previous = deploy.previous
    /\ \/ cloud' = cloud
       \/ \E image \in {"released", "other"}, waited \in BOOLEAN :
              Changed(cloud', Call, image, waited)
    /\ schema' = schema \/ (Call.do = "migrate" /\ schema' = Migrated)

(* What is made of an answer, on the way forward.                          *)
Refused(c, d, serving, image) ==
    \/ c.do = "look" /\ serving # d.previous[c.on]
    \/ c.do = "check" /\ c.on = "api" /\ serving # d.previous[c.on]
    \/ c.do = "verify" /\ ~OnCandidate(d, serving)
    \/ c.do \in {"identify", "migrate"} /\ image # "released"

LEMMA AcceptedFacts ==
  ASSUME NEW d \in DeployType, d.calls # <<>>,
         NEW c \in CallType, c.do \in ForwardVerbs,
         c.on = "job" <=> c.do \in {"update", "migrate"},
         NEW serving \in Int, NEW image, ~Refused(c, d, serving, image),
         NEW e, e = Judged(c, d, serving, image)
  PROVE  /\ e \in DeployType /\ Alike(d, e) /\ e.failed = d.failed
         /\ e.restore = d.restore /\ e.calls = Tail(d.calls)
         /\ e.attempted = d.attempted /\ e.created = d.created
         /\ \A s \in Services :
               /\ e.previous[s] = IF c.do = "check" /\ c.on = "worker" /\ s = "worker"
                                  THEN serving ELSE d.previous[s]
               /\ e.seen[s] = IF c.on = s /\ c.do \in {"check", "look", "verify"}
                              THEN serving ELSE d.seen[s]
PROOF
<1>1. CASE c.do \in {"check", "look", "verify"}
  <2>1. c.on \in Services
    BY <1>1 DEF CallType, Services
  <2> DEFINE seen == Seen(d, c.on, serving)
  <2>2. /\ seen \in DeployType /\ Alike(d, seen)
        /\ seen.failed = d.failed /\ seen.previous = d.previous
        /\ seen.seen[c.on] = serving /\ \A r \in Services \ {c.on} : seen.seen[r] = d.seen[r]
        /\ seen.restore = d.restore /\ seen.calls = Tail(d.calls)
        /\ seen.attempted = d.attempted /\ seen.created = d.created
    BY <2>1, SeenFacts
  <2> HIDE DEF seen
  <2>3. CASE c.do = "check" /\ c.on = "worker"
    <3> DEFINE previous == [seen.previous EXCEPT !["worker"] = serving]
    <3>1. e = [seen EXCEPT !.previous = previous]
      BY <2>2, <2>3 DEF Judged, seen, DeployType
    <3>2. /\ previous \in Versions /\ previous["worker"] = serving
          /\ \A s \in Services \ {"worker"} : previous[s] = d.previous[s]
      <4>1. seen.previous \in Versions
        BY <2>2 DEF DeployType
      <4> QED  BY <2>2, <4>1 DEF Versions, Services
    <3> HIDE DEF previous
    <3>3. /\ e \in DeployType /\ Alike(seen, e) /\ e.failed = seen.failed
          /\ e.restore = seen.restore /\ e.calls = seen.calls
          /\ e.attempted = seen.attempted /\ e.created = seen.created
          /\ e.previous = previous /\ e.seen = seen.seen
      BY <2>2, <3>1, <3>2 DEF DeployType, Alike
    <3> QED  BY <2>2, <2>3, <3>2, <3>3 DEF Alike
  <2>4. CASE ~(c.do = "check" /\ c.on = "worker")
    <3>1. e = seen
      <4>1. c.do = "check" => c.on = "api"
        BY <2>1, <2>4 DEF Services
      <4>2. CASE c.do \in {"check", "look"}
        BY <4>1, <4>2, <2>4 DEF Judged, seen, Refused, Unmoved
      <4>3. CASE c.do = "verify"
        BY <4>3 DEF Judged, seen, Refused
      <4> QED  BY <1>1, <4>2, <4>3
    <3> QED  BY <1>1, <2>1, <2>2, <2>4, <3>1
  <2> QED  BY <2>3, <2>4
<1>2. CASE c.do \notin {"check", "look", "verify"}
  <2>1. e = [d EXCEPT !.calls = Tail(@)]
    <3>1. CASE c.do \in {"identify", "migrate"}
      BY <3>1 DEF Judged, Refused, Right
    <3>2. CASE c.do \in {"update", "deploy", "try", "promote", "prove"}
      BY <3>2 DEF Judged
    <3> QED  BY <1>2, <3>1, <3>2 DEF ForwardVerbs
  <2>2. /\ e \in DeployType /\ Alike(d, e) /\ e.failed = d.failed
        /\ e.restore = d.restore /\ e.calls = Tail(d.calls)
        /\ e.attempted = d.attempted /\ e.created = d.created
        /\ e.previous = d.previous /\ e.seen = d.seen
    BY <2>1, NextFacts
  <2> QED  BY <1>2, <2>2
<1> QED  BY <1>1, <1>2

LEMMA RefusedFacts ==
  ASSUME NEW d \in DeployType, d.calls # <<>>,
         NEW c \in CallType, c.do \in ForwardVerbs,
         c.on = "job" <=> c.do \in {"update", "migrate"},
         NEW serving \in Int, NEW image, Refused(c, d, serving, image),
         NEW e, e = Judged(c, d, serving, image)
  PROVE  \E x \in DeployType :
            /\ e = Raises(x) /\ Alike(d, x) /\ x.restore = d.restore
            /\ x.previous = d.previous
            /\ x.attempted = d.attempted /\ x.created = d.created
PROOF
<1>1. CASE c.do \in {"check", "look", "verify"}
  <2>1. c.on \in Services /\ ~(c.do = "check" /\ c.on = "worker")
    BY <1>1 DEF CallType, Services, Refused
  <2> DEFINE seen == Seen(d, c.on, serving)
  <2>2. /\ seen \in DeployType /\ Alike(d, seen) /\ seen.restore = d.restore
        /\ seen.previous = d.previous
        /\ seen.attempted = d.attempted /\ seen.created = d.created
    BY <2>1, SeenFacts
  <2> HIDE DEF seen
  <2>3. e = Raises(seen)
    <3>1. CASE c.do \in {"check", "look"}
      BY <2>1, <3>1 DEF Judged, seen, Refused, Unmoved, Services
    <3>2. CASE c.do = "verify"
      BY <3>2 DEF Judged, seen, Refused
    <3> QED  BY <1>1, <3>1, <3>2
  <2> QED  BY <2>2, <2>3
<1>2. CASE c.do \in {"identify", "migrate"}
  <2> DEFINE x == [d EXCEPT !.calls = Tail(@)]
  <2>1. /\ x \in DeployType /\ Alike(d, x) /\ x.restore = d.restore
        /\ x.previous = d.previous
        /\ x.attempted = d.attempted /\ x.created = d.created
    BY NextFacts
  <2>2. e = Raises(x)
    BY <1>2 DEF Judged, Refused, Right
  <2> HIDE DEF x
  <2> QED  BY <2>1, <2>2
<1> QED  BY <1>1, <1>2 DEF Refused

LEMMA RestoresNext ==
  ASSUME ScriptInv, Forward, deploy.calls # <<>>,
         NEW x \in DeployType, Alike(deploy, x),
         x.attempted = IF Call.do = "promote" THEN deploy.attempted \cup {Call.on}
                       ELSE deploy.attempted,
         NEW e, e = Raises(x)
  PROVE  /\ e \in DeployType /\ Alike(deploy, e) /\ e.failed = TRUE
         /\ e.previous = x.previous /\ e.restore = x.restore
         /\ e.attempted = x.attempted /\ e.created = x.created
         /\ Len(e.calls) <= BackSteps(deploy.worker)
         /\ \A i \in 1..Len(e.calls) : e.calls[i] = DueBack(deploy.worker, Len(e.calls) + 1 - i)
         /\ Len(e.calls) = (IF "api" \in e.attempted THEN 3 ELSE 0)
                           + (IF "worker" \in e.attempted THEN 3 ELSE 0)
         /\ deploy.worker => ("api" \in e.attempted => "worker" \in e.attempted)
PROOF
<1>1. ScriptTypes /\ OnPlan /\ Promoted /\ TakesPart
  BY DEF ScriptInv, Course, Traffic
<1>2. /\ deploy.worker \in BOOLEAN /\ deploy.attempted \subseteq Part
      /\ Left \in 1..Steps(deploy.worker) /\ Call.on \in Part \cup {"job"}
      /\ Call.on = "job" <=> Call.do \in {"update", "migrate"}
      /\ \A s \in Services : Call.on = s /\ Call.do = "promote" <=> At(s, 3)
  BY <1>1, TypeFacts, ForwardCall DEF TakesPart
<1>3. x.attempted \subseteq Part
  BY <1>2
<1>4. deploy.worker => ("api" \in x.attempted => "worker" \in x.attempted)
  <2>1. SUFFICES ASSUME deploy.worker, "api" \in x.attempted
                 PROVE  "worker" \in deploy.attempted
    OBVIOUS
  <2>2. Left <= 3
    <3>1. CASE "api" \in deploy.attempted
      <4>1. ~(LeftOf("api") >= 3)
        BY <1>1, <2>1, <3>1 DEF Promoted, Part, Services
      <4> QED  BY <1>2, <4>1 DEF LeftOf
    <3>2. CASE "api" \notin deploy.attempted
      <4>1. At("api", 3)
        BY <1>2, <2>1, <3>2 DEF Services
      <4> QED  BY <4>1 DEF At, LeftOf
    <3> QED  BY <3>1, <3>2
  <2>3. LeftOf("worker") <= 2 /\ "worker" \in Part
    BY <1>2, <2>1, <2>2 DEF LeftOf, Part, Services
  <2> QED  BY <1>1, <2>3 DEF Promoted
<1>5. ~deploy.worker => "worker" \notin x.attempted
  BY <1>3 DEF Part
<1>6. x.attempted \subseteq Services
  BY <1>3 DEF Part, Services
<1> DEFINE r == Restoration(x)
<1>7. /\ r \in Seq(CallType) /\ Len(r) <= BackSteps(deploy.worker)
      /\ \A i \in 1..Len(r) : r[i] = DueBack(deploy.worker, Len(r) + 1 - i)
      /\ Len(r) = (IF "api" \in x.attempted THEN 3 ELSE 0)
                  + (IF "worker" \in x.attempted THEN 3 ELSE 0)
  BY <1>2, <1>4, <1>5, <1>6, RestorationFacts
<1>8. /\ e \in DeployType /\ Alike(x, e)
      /\ e.failed = TRUE /\ e.previous = x.previous
      /\ e.restore = x.restore /\ e.calls = r
      /\ e.attempted = x.attempted /\ e.created = x.created
  BY <1>7, RaisesFacts DEF CallSeqs
<1> HIDE DEF r
<1>9. Alike(deploy, e)
  BY <1>8 DEF Alike
<1> QED  BY <1>4, <1>7, <1>8, <1>9

LEMMA MigratedFacts ==
  ASSUME ScriptTypes
  PROVE  Migrated \in Int /\ Migrated >= schema /\ Migrated >= deploy.version
PROOF
<1>1. schema \in Int /\ deploy.version \in Int
  BY TypeFacts
<1> QED  BY <1>1 DEF Migrated

(* A call that returns passes, or is refused.                              *)
LEMMA ReturnsForward ==
  ASSUME ScriptInv, Forward, Returns
  PROVE  /\ ScriptTypes'
         /\ \/ Raised
            \/ \E image \in {"released", "other"}, waited \in BOOLEAN : Passed(image, waited)
PROOF
<1>1. ScriptTypes /\ OnPlan /\ deploy.calls # <<>>
  BY DEF ScriptInv, Course, Returns
<1>2. /\ Call \in CallType /\ Call.do \in ForwardVerbs
      /\ Call.on = "job" <=> Call.do \in {"update", "migrate"}
      /\ deploy \in DeployType /\ deploy.failed = FALSE /\ schema \in Int
  BY <1>1, ForwardCall, TypeFacts DEF Forward
<1>3. PICK image \in {"released", "other"}, waited \in BOOLEAN :
         /\ cloud' = Effect(Call, image, waited)
         /\ schema' = IF Call.do = "migrate" /\ image = "released" THEN Migrated ELSE schema
         /\ deploy' = IF Call.on = "job"
                      THEN Judged(Call, deploy, Unknown, image)
                      ELSE Judged(Call, Begun(Call, deploy), cloud'[Call.on].serving,
                                  cloud[Call.on].made)
  BY DEF Returns
<1>4. cloud' \in CloudType /\ Changed(cloud', Call, image, waited)
  <2>1. Call.do \in {"deploy", "promote", "restore", "untag"} => Call.on \in Services
    BY <1>2 DEF CallType, Services
  <2> QED  BY <1>1, <1>2, <1>3, <2>1, EffectFacts
<1>5. schema' \in Int
  BY <1>1, <1>2, <1>3, MigratedFacts
<1> DEFINE d == IF Call.on = "job" THEN deploy ELSE Begun(Call, deploy)
           serving == IF Call.on = "job" THEN Unknown ELSE cloud'[Call.on].serving
           found == IF Call.on = "job" THEN image ELSE cloud[Call.on].made
<1>6. deploy' = Judged(Call, d, serving, found)
  BY <1>3
<1>7. /\ d \in DeployType /\ Alike(deploy, d) /\ d.failed = FALSE
      /\ d.previous = deploy.previous /\ d.seen = deploy.seen /\ d.restore = deploy.restore
      /\ d.calls = deploy.calls
      /\ d.attempted = IF Call.do = "promote" THEN deploy.attempted \cup {Call.on}
                       ELSE deploy.attempted
      /\ d.created = IF Call.do = "deploy" THEN deploy.created \cup {Call.on}
                     ELSE deploy.created
  <2>1. CASE Call.on = "job"
    BY <1>2, <2>1 DEF Alike
  <2>2. CASE Call.on # "job"
    <3>1. Call.on \in Services /\ d = Begun(Call, deploy)
      BY <1>2, <2>2 DEF CallType
    <3> HIDE DEF d
    <3> QED  BY <1>2, <3>1, BegunFacts
  <2> QED  BY <2>1, <2>2
<1>8. serving \in Int /\ (Call.on # "job" => Call.on \in Services)
  <2>1. Call.on # "job" => Call.on \in Services
    BY <1>2 DEF CallType
  <2>2. \A s \in Services : cloud'[s].serving \in Int
    BY <1>4 DEF CloudType, ServiceType
  <2> QED  BY <2>1, <2>2 DEF Unknown
<1>9. /\ Call.do = "migrate" => found = image
      /\ Call.do = "identify" => found = cloud[Call.on].made
      /\ Call.on # "job" => serving = cloud'[Call.on].serving
  BY <1>2
<1> HIDE DEF d, serving, found
<1>10. CASE Refused(Call, d, serving, found)
  <2>1. PICK x \in DeployType :
           /\ deploy' = Raises(x) /\ Alike(d, x) /\ x.restore = d.restore
           /\ x.previous = d.previous
           /\ x.attempted = d.attempted /\ x.created = d.created
    BY <1>1, <1>2, <1>6, <1>7, <1>8, <1>10, RefusedFacts
  <2>2. Alike(deploy, x) /\ x.attempted = (IF Call.do = "promote"
                            THEN deploy.attempted \cup {Call.on} ELSE deploy.attempted)
    BY <1>7, <2>1 DEF Alike
  <2>3. /\ deploy' \in DeployType /\ Alike(deploy, deploy') /\ deploy'.failed = TRUE
        /\ deploy'.previous = x.previous /\ deploy'.restore = x.restore
        /\ deploy'.attempted = x.attempted /\ deploy'.created = x.created
        /\ Len(deploy'.calls) <= BackSteps(deploy.worker)
        /\ \A i \in 1..Len(deploy'.calls) :
              deploy'.calls[i] = DueBack(deploy.worker, Len(deploy'.calls) + 1 - i)
        /\ Len(deploy'.calls) = (IF "api" \in deploy'.attempted THEN 3 ELSE 0)
                                + (IF "worker" \in deploy'.attempted THEN 3 ELSE 0)
        /\ deploy.worker => ("api" \in deploy'.attempted => "worker" \in deploy'.attempted)
    BY <1>1, <2>1, <2>2, RestoresNext
  <2>4. schema' = schema \/ (Call.do = "migrate" /\ schema' = Migrated)
    BY <1>3
  <2>5. \E im \in {"released", "other"}, late \in BOOLEAN : Changed(cloud', Call, im, late)
    BY <1>4
  <2>6. Noted /\ deploy'.restore = deploy.restore /\ deploy'.previous = deploy.previous
    BY <1>7, <2>1, <2>3 DEF Noted
  <2>7. Raised
    BY <2>3, <2>4, <2>5, <2>6 DEF Raised
  <2> QED  BY <1>4, <1>5, <2>3, <2>7 DEF ScriptTypes
<1>11. CASE ~Refused(Call, d, serving, found)
  <2>1. /\ deploy' \in DeployType /\ Alike(d, deploy') /\ deploy'.failed = d.failed
        /\ deploy'.restore = d.restore /\ deploy'.calls = Tail(d.calls)
        /\ deploy'.attempted = d.attempted /\ deploy'.created = d.created
        /\ \A s \in Services :
              /\ deploy'.previous[s] = IF Call.do = "check" /\ Call.on = "worker" /\ s = "worker"
                                      THEN serving ELSE d.previous[s]
              /\ deploy'.seen[s] = IF Call.on = s /\ Call.do \in {"check", "look", "verify"}
                                  THEN serving ELSE d.seen[s]
    BY <1>1, <1>2, <1>6, <1>7, <1>8, <1>11, AcceptedFacts
  <2>2. Alike(deploy, deploy') /\ Noted
    BY <1>7, <2>1 DEF Alike, Noted
  <2>3. schema' = IF Call.do = "migrate" THEN Migrated ELSE schema
    BY <1>3, <1>9, <1>11 DEF Refused
  <2>4. ASSUME NEW s \in Services
        PROVE  /\ deploy'.previous[s] = IF Call.do = "check" /\ Call.on = "worker" /\ s = "worker"
                                  THEN cloud[s].serving ELSE deploy.previous[s]
               /\ deploy'.seen[s] = IF Call.on = s /\ Call.do \in {"check", "look", "verify"}
                              THEN cloud'[s].serving ELSE deploy.seen[s]
    <3>1. Call.do = "check" /\ Call.on = "worker" => serving = cloud["worker"].serving
      BY <1>4, <1>9 DEF Changed, Services
    <3>2. Call.on = s => serving = cloud'[s].serving
      BY <1>9 DEF Services
    <3> QED  BY <1>7, <2>1, <3>1, <3>2
  <2>5. ASSUME NEW s \in Services, Call.on = s
        PROVE  /\ Call.do = "look" => cloud'[s].serving = deploy.previous[s]
               /\ Call.do = "verify" => cloud'[s].serving = deploy.version
               /\ Call.do = "identify" => cloud[s].made = "released"
    <3>1. serving = cloud'[s].serving
      BY <1>9, <2>5 DEF Services
    <3> QED  BY <1>7, <1>9, <1>11, <2>5, <3>1 DEF Refused, OnCandidate, Alike
  <2>6. Passed(image, waited)
    BY <1>4, <1>7, <2>1, <2>2, <2>3, <2>4, <2>5 DEF Passed
  <2> QED  BY <1>4, <1>5, <2>1, <2>6 DEF ScriptTypes
<1> QED  BY <1>10, <1>11

(* One that raises, before or after it took effect.                        *)
LEMMA FailsForward ==
  ASSUME ScriptInv, Forward, Fails
  PROVE  ScriptTypes' /\ Raised
PROOF
<1>1. ScriptTypes /\ OnPlan /\ deploy.calls # <<>>
  BY DEF ScriptInv, Course, Fails
<1>2. /\ Call \in CallType /\ Call.do \in ForwardVerbs
      /\ Call.on = "job" <=> Call.do \in {"update", "migrate"}
      /\ deploy \in DeployType /\ schema \in Int /\ cloud \in CloudType
  BY <1>1, ForwardCall, TypeFacts
<1>3. /\ cloud' = cloud \/ cloud' = Effect(Call, "released", FALSE)
      /\ schema' = schema \/ schema' = IF Call.do = "migrate" THEN Migrated ELSE schema
      /\ deploy' = Raises(Begun(Call, deploy))
  BY DEF Fails, Forward
<1>4. /\ cloud' = cloud \/ Changed(cloud', Call, "released", FALSE)
      /\ cloud' \in CloudType
  <2>1. Call.do \in {"deploy", "promote", "restore", "untag"} => Call.on \in Services
    BY <1>2 DEF CallType, Services
  <2>2. cloud' = Effect(Call, "released", FALSE)
        => cloud' \in CloudType /\ Changed(cloud', Call, "released", FALSE)
    BY <1>1, <1>2, <2>1, EffectFacts
  <2> QED  BY <1>2, <1>3, <2>2
<1>5. schema' \in Int /\ (schema' = schema \/ (Call.do = "migrate" /\ schema' = Migrated))
  BY <1>1, <1>2, <1>3, MigratedFacts
<1> DEFINE x == Begun(Call, deploy)
<1>6. /\ x \in DeployType /\ Alike(deploy, x)
      /\ x.previous = deploy.previous /\ x.restore = deploy.restore
      /\ x.attempted = IF Call.do = "promote" THEN deploy.attempted \cup {Call.on}
                       ELSE deploy.attempted
      /\ x.created = IF Call.do = "deploy" THEN deploy.created \cup {Call.on}
                     ELSE deploy.created
  <2>1. CASE Call.on \in Services
    <3> HIDE DEF x
    <3>1. x = Begun(Call, deploy)
      BY DEF x
    <3> QED  BY <1>2, <2>1, <3>1, BegunFacts
  <2>2. CASE Call.on \notin Services
    <3>1. Call.do \in {"update", "migrate"}
      BY <1>2, <2>2 DEF CallType
    <3>2. x = deploy
      BY <3>1 DEF Begun
    <3> HIDE DEF x
    <3> QED  BY <1>2, <3>1, <3>2 DEF Alike
  <2> QED  BY <2>1, <2>2
<1>7. deploy' = Raises(x)
  BY <1>3
<1> HIDE DEF x
<1>8. /\ deploy' \in DeployType /\ Alike(deploy, deploy') /\ deploy'.failed = TRUE
      /\ deploy'.previous = x.previous /\ deploy'.restore = x.restore
      /\ deploy'.attempted = x.attempted /\ deploy'.created = x.created
      /\ Len(deploy'.calls) <= BackSteps(deploy.worker)
      /\ \A i \in 1..Len(deploy'.calls) :
            deploy'.calls[i] = DueBack(deploy.worker, Len(deploy'.calls) + 1 - i)
      /\ Len(deploy'.calls) = (IF "api" \in deploy'.attempted THEN 3 ELSE 0)
                              + (IF "worker" \in deploy'.attempted THEN 3 ELSE 0)
      /\ deploy.worker => ("api" \in deploy'.attempted => "worker" \in deploy'.attempted)
  BY <1>1, <1>6, <1>7, RestoresNext
<1>9. Noted /\ deploy'.restore = deploy.restore /\ deploy'.previous = deploy.previous
  BY <1>6, <1>8 DEF Noted
<1>10. \/ cloud' = cloud
       \/ \E image \in {"released", "other"}, waited \in BOOLEAN :
              Changed(cloud', Call, image, waited)
  BY <1>4
<1>11. Raised
  BY <1>5, <1>8, <1>9, <1>10 DEF Raised
<1> QED  BY <1>2, <1>4, <1>5, <1>8, <1>11 DEF ScriptTypes

-----------------------------------------------------------------------------
(* The way forward keeps the invariant.                                    *)

(* What a call on the way forward may change of a service.                 *)
Shifted ==
    \A s \in Services :
        /\ IF At(s, 3)
           THEN cloud'[s].want \in {cloud[s].want, deploy.version}
                /\ cloud'[s].serving \in {cloud[s].serving, deploy.version}
           ELSE cloud'[s].want = cloud[s].want /\ cloud'[s].serving = cloud[s].serving
        /\ ~At(s, 7) => cloud'[s].made = cloud[s].made
        /\ cloud'[s].tagged => cloud[s].tagged \/ At(s, 7)
        /\ s \in deploy'.attempted <=> s \in deploy.attempted \/ At(s, 3)
        /\ s \in deploy'.created <=> s \in deploy.created \/ At(s, 7)

LEMMA ShiftedFacts ==
  ASSUME ScriptInv, Forward, deploy.calls # <<>>, Noted,
         \/ cloud' = cloud
         \/ \E image \in {"released", "other"}, waited \in BOOLEAN :
                Changed(cloud', Call, image, waited)
  PROVE  Shifted
PROOF
<1>1. ScriptTypes /\ OnPlan
  BY DEF ScriptInv, Course
<1>2. /\ Call.do \notin {"restore", "untag"}
      /\ \A s \in Services :
            /\ Call.on = s /\ Call.do = "promote" <=> At(s, 3)
            /\ Call.on = s /\ Call.do = "deploy" <=> At(s, 7)
  BY <1>1, ForwardCall DEF ForwardVerbs
<1>3. ASSUME NEW s \in Services
      PROVE  /\ s \in deploy'.attempted <=> s \in deploy.attempted \/ At(s, 3)
             /\ s \in deploy'.created <=> s \in deploy.created \/ At(s, 7)
  BY <1>2 DEF Noted
<1>4. ASSUME NEW s \in Services
      PROVE  /\ IF At(s, 3)
                THEN cloud'[s].want \in {cloud[s].want, deploy.version}
                     /\ cloud'[s].serving \in {cloud[s].serving, deploy.version}
                ELSE cloud'[s].want = cloud[s].want /\ cloud'[s].serving = cloud[s].serving
             /\ ~At(s, 7) => cloud'[s].made = cloud[s].made
             /\ cloud'[s].tagged => cloud[s].tagged \/ At(s, 7)
  <2>1. CASE cloud' = cloud
    BY <2>1
  <2>2. ASSUME NEW image \in {"released", "other"}, NEW waited \in BOOLEAN,
               Changed(cloud', Call, image, waited)
        PROVE  /\ IF At(s, 3)
                  THEN cloud'[s].want \in {cloud[s].want, deploy.version}
                       /\ cloud'[s].serving \in {cloud[s].serving, deploy.version}
                  ELSE cloud'[s].want = cloud[s].want /\ cloud'[s].serving = cloud[s].serving
               /\ ~At(s, 7) => cloud'[s].made = cloud[s].made
               /\ cloud'[s].tagged => cloud[s].tagged \/ At(s, 7)
    <3>1. cloud'[s].want = IF At(s, 3) THEN deploy.version ELSE cloud[s].want
      BY <1>2, <2>2 DEF Changed
    <3>2. cloud'[s].serving = IF waited /\ At(s, 3) THEN cloud'[s].want ELSE cloud[s].serving
      BY <1>2, <2>2 DEF Changed
    <3>3. /\ ~At(s, 7) => cloud'[s].made = cloud[s].made
          /\ cloud'[s].tagged => cloud[s].tagged \/ At(s, 7)
      BY <1>2, <2>2 DEF Changed
    <3> QED  BY <3>1, <3>2, <3>3
  <2> QED  BY <2>1, <2>2
<1> QED  BY <1>3, <1>4 DEF Shifted

LEMMA ForwardFacts ==
  ASSUME ScriptInv, Forward
  PROVE  /\ Running /\ ~Idle /\ deploy.failed = FALSE /\ deploy.cut = FALSE
         /\ deploy.version \in Int /\ deploy.version >= 1 /\ Left \in Nat
         /\ deploy.previous["api"] = deploy.version - 1
         /\ Part \subseteq Services /\ "api" \in Part
         /\ deploy.worker <=> "worker" \in Part
         /\ deploy.attempted \subseteq Part /\ deploy.created \subseteq Part
         /\ \A s \in Part :
               /\ Near(s)
               /\ LeftOf(s) >= 3 => s \notin deploy.attempted
               /\ LeftOf(s) <= 2 => s \in deploy.attempted /\ Stays(s)
               /\ LeftOf(s) <= 1 => deploy.seen[s] = deploy.version /\ OnNew(s)
               /\ deploy.restore[s] = "not attempted"
               /\ s \in deploy.attempted => cloud[s].made = "released"
               /\ LeftOf(s) <= 5 => cloud[s].made = "released"
         /\ LeftOf("api") = Left /\ LeftOf("worker") = Left - 7
PROOF
<1>1. /\ ScriptTypes /\ TakesPart /\ VersionsNear /\ Promoted /\ Made
  BY DEF ScriptInv, Traffic
<1>2. /\ Running /\ ~Idle /\ deploy.failed = FALSE /\ deploy.cut = FALSE
      /\ deploy.version \in Int /\ Left \in Nat
  BY <1>1, TypeFacts DEF Forward, Running, Idle
<1>3. Part \subseteq Services /\ "api" \in Part /\ (deploy.worker <=> "worker" \in Part)
  BY DEF Part, Services
<1>4. /\ deploy.version >= 1 /\ deploy.previous["api"] = deploy.version - 1
      /\ deploy.attempted \subseteq Part /\ deploy.created \subseteq Part
  BY <1>1, <1>2 DEF TakesPart
<1>5. ASSUME NEW s \in Part
      PROVE  /\ Near(s)
             /\ LeftOf(s) >= 3 => s \notin deploy.attempted
             /\ LeftOf(s) <= 2 => s \in deploy.attempted /\ Stays(s)
             /\ LeftOf(s) <= 1 => deploy.seen[s] = deploy.version /\ OnNew(s)
             /\ deploy.restore[s] = "not attempted"
             /\ s \in deploy.attempted => cloud[s].made = "released"
             /\ LeftOf(s) <= 5 => cloud[s].made = "released"
  <2>1. Near(s)
    BY <1>1, <1>2 DEF VersionsNear
  <2>2. /\ LeftOf(s) >= 3 => s \notin deploy.attempted
        /\ LeftOf(s) <= 2 => s \in deploy.attempted /\ Stays(s)
        /\ LeftOf(s) <= 1 => deploy.seen[s] = deploy.version /\ OnNew(s)
        /\ deploy.restore[s] = "not attempted"
    BY <1>1 DEF Promoted
  <2>3. /\ s \in deploy.attempted => cloud[s].made = "released"
        /\ LeftOf(s) <= 5 => cloud[s].made = "released"
    BY <1>1, <1>2 DEF Made
  <2> QED  BY <2>1, <2>2, <2>3
<1>6. LeftOf("api") = Left /\ LeftOf("worker") = Left - 7
  BY DEF LeftOf
<1> QED  BY <1>2, <1>3, <1>4, <1>5, <1>6

(* What a service may be restored to.                                      *)
PreviousNear(s, previous) ==
    /\ previous < deploy.version
    /\ previous = Unknown \/ previous >= deploy.version - 2
    /\ s \notin deploy.moved => previous \in {Unknown, deploy.version - 1}

(* What a call on the way forward leaves as it must be, passed, raised or  *)
(* cut short.                                                              *)
LEMMA ForwardKeeps ==
  ASSUME ScriptInv, Forward, deploy.calls # <<>>, ScriptTypes',
         deploy'.phase = deploy.phase, deploy'.worker = deploy.worker,
         deploy'.version = deploy.version, deploy'.moved = deploy.moved,
         deploy'.cut => deploy'.calls = <<>>,
         Shifted, deploy'.restore = deploy.restore,
         deploy'.previous["api"] = deploy.previous["api"],
         \A s \in Part : PreviousNear(s, deploy'.previous[s]),
         \A s \in Part : LeftOf(s) <= 9 => deploy'.previous[s] = deploy.previous[s],
         schema' >= schema
  PROVE  /\ Running' /\ ~Idle' /\ Part' = Part
         /\ OnlyUntags' /\ NothingLeft' /\ AtRest' /\ TakesPart' /\ VersionsNear' /\ Outcome'
         /\ \A s \in Part : (s \in deploy'.attempted \/ LeftOf(s) <= 9) =>
                /\ deploy'.previous[s] >= deploy.version - 2
                /\ s \notin deploy.moved => deploy'.previous[s] = deploy.version - 1
         /\ "api" \in deploy.moved => Lower'
         /\ \A s \in deploy'.attempted : s \in Part /\ LeftOf(s) <= 3
         /\ "api" \in deploy'.attempted /\ deploy.worker => OnNew("worker")'
         /\ Restored' /\ Ordered' /\ Tags'
         /\ \A s \in deploy'.attempted : cloud'[s].made = "released"
         /\ deploy'.attempted # {} => schema' >= deploy.version
         /\ schema' >= deploy.version - 1
PROOF
<1>1. /\ Running /\ ~Idle /\ deploy.failed = FALSE /\ deploy.cut = FALSE
      /\ deploy.version \in Int /\ deploy.version >= 1 /\ Left \in Nat
      /\ deploy.previous["api"] = deploy.version - 1
      /\ Part \subseteq Services /\ "api" \in Part
      /\ (deploy.worker <=> "worker" \in Part)
      /\ deploy.attempted \subseteq Part /\ deploy.created \subseteq Part
      /\ LeftOf("api") = Left /\ LeftOf("worker") = Left - 7
  BY ForwardFacts
<1>2. \A s \in Part :
         /\ Near(s)
         /\ LeftOf(s) >= 3 => s \notin deploy.attempted
         /\ LeftOf(s) <= 1 => OnNew(s)
         /\ deploy.restore[s] = "not attempted"
         /\ s \in deploy.attempted => cloud[s].made = "released"
         /\ LeftOf(s) <= 5 => cloud[s].made = "released"
  BY ForwardFacts
<1>3. /\ deploy'.phase = deploy.phase /\ deploy'.worker = deploy.worker
      /\ deploy'.version = deploy.version /\ deploy'.moved = deploy.moved
      /\ deploy'.cut => deploy'.calls = <<>>
  OBVIOUS
<1>4. Running' /\ ~Idle' /\ Part' = Part
  BY <1>1, <1>3 DEF Running, Idle, Part
<1>5. \A s \in Services :
         /\ IF At(s, 3)
            THEN cloud'[s].want \in {cloud[s].want, deploy.version}
                 /\ cloud'[s].serving \in {cloud[s].serving, deploy.version}
            ELSE cloud'[s].want = cloud[s].want /\ cloud'[s].serving = cloud[s].serving
         /\ ~At(s, 7) => cloud'[s].made = cloud[s].made
         /\ cloud'[s].tagged => cloud[s].tagged \/ At(s, 7)
         /\ s \in deploy'.attempted <=> s \in deploy.attempted \/ At(s, 3)
         /\ s \in deploy'.created <=> s \in deploy.created \/ At(s, 7)
  BY DEF Shifted
<1>6. /\ deploy'.attempted \subseteq Services /\ deploy'.created \subseteq Services
      /\ schema \in Int /\ schema' \in Int
      /\ deploy.moved \subseteq Part
      /\ \A s \in Services : cloud[s].want \in Int /\ cloud[s].serving \in Int
  <2>1. ScriptTypes /\ TakesPart
    BY DEF ScriptInv, Traffic
  <2>2. /\ schema \in Int
        /\ \A s \in Services : cloud[s].want \in Int /\ cloud[s].serving \in Int
    BY <2>1, TypeFacts
  <2>3. deploy' \in DeployType /\ schema' \in Int
    BY DEF ScriptTypes
  <2>4. deploy'.attempted \in Parts /\ deploy'.created \in Parts
    BY <2>3 DEF DeployType
  <2> QED  BY <2>1, <2>2, <2>3, <2>4 DEF Parts, TakesPart
<1>7. \A s \in deploy'.attempted : s \in Part /\ LeftOf(s) <= 3
  <2>1. ASSUME NEW s \in deploy'.attempted
        PROVE  s \in Part /\ LeftOf(s) <= 3
    <3>1. s \in Services /\ (s \in deploy.attempted \/ At(s, 3))
      BY <1>5, <1>6
    <3>2. LeftOf(s) \in Int
      BY <1>1, <3>1 DEF Services
    <3>3. CASE s \in deploy.attempted
      <4>1. s \in Part
        BY <1>1, <3>3
      <4>2. ~(LeftOf(s) >= 3)
        BY <1>2, <3>3, <4>1
      <4> QED  BY <3>2, <4>1, <4>2
    <3>4. CASE At(s, 3)
      BY <3>2, <3>4 DEF At
    <3> QED  BY <3>1, <3>3, <3>4
  <2> QED  BY <2>1
<1>8. OnlyUntags' /\ NothingLeft' /\ AtRest' /\ Outcome'
  BY <1>1, <1>3, <1>4 DEF OnlyUntags, NothingLeft, AtRest, Outcome, Running
<1>9. TakesPart'
  <2>1. deploy'.created \subseteq Part
    BY <1>1, <1>5, <1>6 DEF At
  <2> QED  BY <1>1, <1>3, <1>4, <1>6, <1>7, <2>1 DEF TakesPart
<1>10. VersionsNear'
  <2>1. ASSUME NEW s \in Part  PROVE Near(s)'
    <3>1. /\ Near(s) /\ s \in Services
          /\ cloud[s].want \in Int /\ cloud[s].serving \in Int
          /\ deploy'.previous[s] < deploy.version
          /\ deploy'.previous[s] = Unknown \/ deploy'.previous[s] >= deploy.version - 2
          /\ s \notin deploy.moved => deploy'.previous[s] \in {Unknown, deploy.version - 1}
      BY <1>1, <1>2, <1>6 DEF PreviousNear
    <3>2. /\ IF At(s, 3)
             THEN cloud'[s].want \in {cloud[s].want, deploy.version}
                  /\ cloud'[s].serving \in {cloud[s].serving, deploy.version}
             ELSE cloud'[s].want = cloud[s].want /\ cloud'[s].serving = cloud[s].serving
          /\ s \in deploy'.attempted <=> s \in deploy.attempted \/ At(s, 3)
      BY <1>5, <3>1
    <3>3. CASE At(s, 3)
      BY <1>1, <1>3, <3>1, <3>2, <3>3 DEF Near
    <3>4. CASE ~At(s, 3)
      BY <1>1, <1>3, <3>1, <3>2, <3>4 DEF Near
    <3> QED  BY <3>3, <3>4
  <2> QED  BY <1>4, <2>1 DEF VersionsNear
<1>11. MovedSeen
  BY DEF ScriptInv, Traffic
<1>12. "api" \in deploy.moved => Lower'
  <2>1. SUFFICES ASSUME "api" \in deploy.moved  PROVE Lower'
    OBVIOUS
  <2>2. Lower /\ ~At("api", 3) /\ "api" \in Services
    BY <1>1, <1>11, <2>1 DEF At, MovedSeen, Services
  <2>3. /\ cloud'["api"].want = cloud["api"].want /\ cloud'["api"].serving = cloud["api"].serving
        /\ "api" \in deploy'.attempted <=> "api" \in deploy.attempted
    BY <1>5, <2>2
  <2> QED  BY <1>1, <1>3, <2>2, <2>3 DEF Lower
<1>13. "api" \in deploy'.attempted /\ deploy.worker => OnNew("worker")'
  <2>1. SUFFICES ASSUME "api" \in deploy'.attempted, deploy.worker
                 PROVE  OnNew("worker")'
    OBVIOUS
  <2>2. LeftOf("worker") <= 1 /\ ~At("worker", 3) /\ "worker" \in Part
    BY <1>1, <1>7, <2>1 DEF At
  <2>3. OnNew("worker")
    BY <1>2, <2>2
  <2> QED  BY <1>3, <1>5, <2>2, <2>3 DEF OnNew, Services
<1>14. Restored'
  <2>1. Restored /\ deploy.restore = deploy'.restore
    BY DEF ScriptInv, Traffic
  <2>2. \A s \in Services : deploy.restore[s] # "restored"
    BY <1>1, <1>2, <2>1 DEF Restored
  <2> QED  BY <2>1, <2>2 DEF Restored
<1>15. Ordered'
  <2>1. CASE "api" \in deploy'.attempted
    BY <1>3, <1>13, <2>1 DEF Ordered
  <2>2. CASE "api" \notin deploy'.attempted
    <3>1. Near("api")'
      BY <1>1, <1>4, <1>10 DEF VersionsNear
    <3> QED  BY <2>2, <3>1 DEF Ordered, Near
  <2> QED  BY <2>1, <2>2
<1>16. Tags'
  <2>1. ASSUME NEW s \in Services, cloud'[s].tagged  PROVE s \in deploy'.created
    <3>1. Tags
      BY DEF ScriptInv, Traffic
    <3> QED  BY <1>1, <1>5, <2>1, <3>1 DEF Tags
  <2> QED  BY <1>3, <1>4, <2>1 DEF Tags, Running
<1>17. \A s \in deploy'.attempted : cloud'[s].made = "released"
  <2>1. ASSUME NEW s \in deploy'.attempted  PROVE cloud'[s].made = "released"
    <3>0. s \in Part /\ s \in Services /\ LeftOf(s) <= 3
      BY <1>1, <1>7
    <3>1. LeftOf(s) \in Int
      BY <1>1, <3>0 DEF Services
    <3>2. ~At(s, 7) /\ LeftOf(s) <= 5
      BY <3>0, <3>1 DEF At
    <3> QED  BY <1>2, <1>5, <3>0, <3>2
  <2> QED  BY <2>1
<1>18. Migrates
  BY DEF ScriptInv, Traffic
<1>19. schema' >= deploy.version - 1 /\ (deploy'.attempted # {} => schema' >= deploy.version)
  <2>1. schema >= deploy.version - 1
    BY <1>1, <1>18 DEF Migrates
  <2>2. ASSUME NEW s \in deploy'.attempted  PROVE schema >= deploy.version
    <3>1. s \in Part /\ s \in Services /\ LeftOf(s) <= 3
      BY <1>1, <1>7
    <3>2. Left <= IF deploy.worker THEN 14 ELSE 7
      BY <1>1, <3>1 DEF Services
    <3> QED  BY <1>1, <1>18, <3>2 DEF Migrates
  <2> QED  BY <1>1, <1>6, <2>1, <2>2
<1>20. ASSUME NEW s \in Part, s \in deploy'.attempted \/ LeftOf(s) <= 9
       PROVE  /\ deploy'.previous[s] >= deploy.version - 2
              /\ s \notin deploy.moved => deploy'.previous[s] = deploy.version - 1
  <2>1. Captured
    BY DEF ScriptInv, Traffic
  <2>2. LeftOf(s) <= 9
    <3>1. s \in Services /\ LeftOf(s) \in Int
      BY <1>1 DEF Services
    <3> QED  BY <1>7, <1>20, <3>1
  <2> QED  BY <1>1, <2>1, <2>2 DEF Captured, Forward
<1> QED
  BY <1>4, <1>7, <1>8, <1>9, <1>10, <1>12, <1>13, <1>14, <1>15, <1>16, <1>17, <1>19, <1>20

LEMMA RaisedKeeps ==
  ASSUME ScriptInv, Forward, deploy.calls # <<>>, ScriptTypes', Raised
  PROVE  ScriptInv'
PROOF
<1>1. /\ deploy.version \in Int
      /\ deploy.previous["api"] = deploy.version - 1 /\ deploy.attempted \subseteq Part
      /\ Part \subseteq Services /\ "api" \in Part
      /\ (deploy.worker <=> "worker" \in Part)
      /\ \A s \in Part : Near(s) /\ deploy.restore[s] = "not attempted"
  BY ForwardFacts
<1>2. /\ Alike(deploy, deploy') /\ Noted /\ deploy'.failed = TRUE
      /\ deploy'.restore = deploy.restore /\ deploy'.previous = deploy.previous
      /\ Len(deploy'.calls) <= BackSteps(deploy.worker)
      /\ \A i \in 1..Len(deploy'.calls) :
            deploy'.calls[i] = DueBack(deploy.worker, Len(deploy'.calls) + 1 - i)
      /\ Len(deploy'.calls) = (IF "api" \in deploy'.attempted THEN 3 ELSE 0)
                              + (IF "worker" \in deploy'.attempted THEN 3 ELSE 0)
      /\ deploy.worker => ("api" \in deploy'.attempted => "worker" \in deploy'.attempted)
      /\ schema' = schema \/ schema' = Migrated
  BY DEF Raised
<1>3. Shifted
  BY <1>2, ShiftedFacts DEF Raised
<1>4. schema' >= schema
  <2>1. ScriptTypes
    BY DEF ScriptInv
  <2>2. schema \in Int
    BY <2>1, TypeFacts
  <2>3. Migrated >= schema
    BY <2>1, MigratedFacts
  <2> QED  BY <1>2, <2>2, <2>3
<1>5. \A s \in Part : PreviousNear(s, deploy'.previous[s])
  BY <1>1, <1>2 DEF Near, PreviousNear
<1>6. /\ deploy'.phase = deploy.phase /\ deploy'.worker = deploy.worker
      /\ deploy'.version = deploy.version /\ deploy'.moved = deploy.moved
      /\ ~deploy'.cut
  BY <1>2 DEF Alike, Forward
<1>7. /\ Running' /\ ~Idle' /\ Part' = Part
      /\ OnlyUntags' /\ NothingLeft' /\ AtRest' /\ TakesPart' /\ VersionsNear' /\ Outcome'
      /\ "api" \in deploy.moved => Lower'
      /\ \A s \in Part : s \in deploy'.attempted =>
             /\ deploy'.previous[s] >= deploy.version - 2
             /\ s \notin deploy.moved => deploy'.previous[s] = deploy.version - 1
      /\ \A s \in deploy'.attempted : s \in Part
      /\ "api" \in deploy'.attempted /\ deploy.worker => OnNew("worker")'
      /\ Restored' /\ Ordered' /\ Tags'
      /\ \A s \in deploy'.attempted : cloud'[s].made = "released"
      /\ deploy'.attempted # {} => schema' >= deploy.version
      /\ schema' >= deploy.version - 1
  BY <1>2, <1>3, <1>4, <1>5, <1>6, ForwardKeeps
<1>8. ~Forward' /\ Backward' /\ Left' = Len(deploy'.calls)
  BY <1>2, <1>7, <1>6 DEF Forward, Backward, Left
<1>9. Captured'
  BY <1>7, <1>6, <1>8 DEF Captured
<1>10. OnPlan' /\ Promoted'
  BY <1>8 DEF OnPlan, Promoted
<1>11. OnWayBack'
  <2>1. "worker" \in deploy'.attempted => deploy.worker
    BY <1>1, <1>7
  <2>2. Left' > 0 => IF deploy.worker /\ Left' <= 3 THEN "worker" \in deploy'.attempted
                     ELSE "api" \in deploy'.attempted
    BY <1>2, <1>8, <2>1
  <2> QED  BY <1>2, <1>6, <1>8, <2>2 DEF OnWayBack
<1>12. MovedSeen'
  BY <1>7, <1>6, <1>8 DEF MovedSeen
<1>13. WentBack'
  <2>1. ASSUME NEW s \in deploy'.attempted
        PROVE  LeftBack(s)' >= 3 /\ deploy'.restore[s] = "not attempted"
    <3>1. s \in Part /\ (s = "api" \/ s = "worker")
      BY <1>1, <1>7 DEF Services
    <3>2. LeftBack(s)' = IF deploy.worker /\ s = "api" THEN Left' - 3 ELSE Left'
      BY <1>6 DEF LeftBack
    <3>3. deploy'.restore[s] = "not attempted"
      BY <1>1, <1>2, <3>1
    <3>4. CASE deploy.worker /\ s = "api"
      <4>1. Left' = 6
        BY <1>2, <1>8, <3>4
      <4>2. LeftBack(s)' = 3
        BY <3>2, <3>4, <4>1
      <4>3. LeftBack(s)' >= 3
        BY <4>2
      <4> QED  BY <3>3, <4>3
    <3>5. CASE ~(deploy.worker /\ s = "api")
      <4>1. Left' = 3 \/ Left' = 6
        BY <1>2, <1>8, <3>1
      <4>2. LeftBack(s)' = Left'
        BY <3>2, <3>5
      <4>3. LeftBack(s)' = 3 \/ LeftBack(s)' = 6
        BY <4>1, <4>2
      <4>4. LeftBack(s)' >= 3
        BY <4>3
      <4> QED  BY <3>3, <4>4
    <3> QED  BY <3>4, <3>5
  <2>2. \A s \in deploy'.attempted : LeftBack(s)' \in Int
    BY <1>2, <1>8 DEF LeftBack
  <2>3. ASSUME NEW s \in deploy'.attempted
        PROVE  ~(LeftBack(s)' <= 2) /\ ~(LeftBack(s)' <= 1) /\ ~(LeftBack(s)' <= 0)
    <3>1. LeftBack(s)' \in Int /\ LeftBack(s)' >= 3
      BY <2>1, <2>2
    <3> QED  BY <3>1
  <2> QED  BY <2>1, <2>3 DEF WentBack
<1>14. WorkerHolds'
  BY <1>2, <1>7, <1>6, <1>8 DEF WorkerHolds
<1>15. Made'
  BY <1>7, <1>8 DEF Made
<1>16. Migrates'
  BY <1>7, <1>6, <1>8 DEF Migrates
<1> QED
  BY <1>7, <1>10, <1>11, <1>12, <1>13, <1>14, <1>15, <1>16, <1>9 DEF ScriptInv, Course, Traffic

LEMMA PassedKeeps ==
  ASSUME ScriptInv, Forward, deploy.calls # <<>>, ScriptTypes',
         NEW image \in {"released", "other"}, NEW waited \in BOOLEAN, Passed(image, waited)
  PROVE  ScriptInv'
PROOF
<1>1. /\ Running /\ deploy.cut = FALSE /\ deploy.version \in Int /\ Left \in Nat
      /\ deploy.previous["api"] = deploy.version - 1
      /\ Part \subseteq Services /\ "api" \in Part
      /\ (deploy.worker <=> "worker" \in Part)
      /\ LeftOf("api") = Left /\ LeftOf("worker") = Left - 7
  BY ForwardFacts
<1>2. \A s \in Part :
         /\ Near(s)
         /\ LeftOf(s) >= 3 => s \notin deploy.attempted
         /\ LeftOf(s) <= 2 => s \in deploy.attempted /\ Stays(s)
         /\ LeftOf(s) <= 1 => deploy.seen[s] = deploy.version /\ OnNew(s)
         /\ deploy.restore[s] = "not attempted"
         /\ LeftOf(s) <= 5 => cloud[s].made = "released"
  BY ForwardFacts
<1>3. ScriptTypes /\ OnPlan /\ MovedSeen /\ Migrates
  BY DEF ScriptInv, Course, Traffic
<1>4. /\ deploy.calls \in Seq(CallType) /\ schema \in Int
      /\ \A s \in Services : cloud[s].want \in Int /\ cloud[s].serving \in Int
  BY <1>3, TypeFacts
<1>5. /\ Call.do \in ForwardVerbs
      /\ Call.on = "job" <=> Call.do \in {"update", "migrate"}
      /\ Call.do = "migrate" <=> Left = IF deploy.worker THEN 15 ELSE 8
      /\ Call.do = "check" => Left >= IF deploy.worker THEN 17 ELSE 10
      /\ Call.on \in Part \cup {"job"}
      /\ \A s \in Services :
            /\ Call.on = s /\ Call.do = "verify" <=> At(s, 2)
            /\ Call.on = s /\ Call.do = "promote" <=> At(s, 3)
            /\ Call.on = s /\ Call.do = "look" <=> At(s, 5)
            /\ Call.on = s /\ Call.do = "identify" <=> At(s, 6)
  BY <1>3, ForwardCall
<1>6. /\ Alike(deploy, deploy') /\ Noted /\ deploy'.failed = FALSE
      /\ deploy'.calls = Tail(deploy.calls) /\ deploy'.restore = deploy.restore
      /\ Changed(cloud', Call, image, waited)
      /\ schema' = IF Call.do = "migrate" THEN Migrated ELSE schema
  BY DEF Passed
<1>7. \A s \in Services :
         /\ deploy'.previous[s] = IF Call.do = "check" /\ Call.on = "worker" /\ s = "worker"
                                 THEN cloud[s].serving ELSE deploy.previous[s]
         /\ deploy'.seen[s] = IF Call.on = s /\ Call.do \in {"check", "look", "verify"}
                             THEN cloud'[s].serving ELSE deploy.seen[s]
         /\ Call.on = s =>
               /\ Call.do = "look" => cloud'[s].serving = deploy.previous[s]
               /\ Call.do = "verify" => cloud'[s].serving = deploy.version
               /\ Call.do = "identify" => cloud[s].made = "released"
  BY DEF Passed
<1>8. Shifted
  BY <1>6, ShiftedFacts
<1>9. Migrated >= schema /\ Migrated >= deploy.version
  BY <1>3, MigratedFacts
<1>10. schema' >= schema
  BY <1>4, <1>6, <1>9
<1>11. deploy'.previous["api"] = deploy.previous["api"]
  BY <1>7 DEF Services
<1>12. ASSUME NEW s \in Part
       PROVE  PreviousNear(s, deploy'.previous[s])
  <2>1. s \in Services /\ Near(s) /\ cloud[s].serving \in Int
    BY <1>1, <1>2, <1>4
  <2>2. CASE Call.do = "check" /\ Call.on = "worker" /\ s = "worker"
    <3>1. Left >= 17 /\ LeftOf(s) >= 3
      BY <1>1, <1>5, <2>2
    <3>2. s \notin deploy.attempted
      BY <1>2, <3>1
    <3>3. deploy'.previous[s] = cloud[s].serving
      BY <1>7, <2>1, <2>2
    <3> QED  BY <1>1, <2>1, <3>2, <3>3 DEF Near, PreviousNear
  <2>3. CASE ~(Call.do = "check" /\ Call.on = "worker" /\ s = "worker")
    <3>1. deploy'.previous[s] = deploy.previous[s]
      BY <1>7, <2>1, <2>3
    <3> QED  BY <2>1, <3>1 DEF Near, PreviousNear
  <2> QED  BY <2>2, <2>3
<1>13. ASSUME NEW s \in Part, LeftOf(s) <= 9
       PROVE  deploy'.previous[s] = deploy.previous[s]
  <2>1. ~(Call.do = "check" /\ s = "worker")
    <3>1. SUFFICES ASSUME Call.do = "check", s = "worker"  PROVE FALSE
      OBVIOUS
    <3>2. deploy.worker /\ Left <= 16
      BY <1>1, <1>13, <3>1
    <3> QED  BY <1>1, <1>5, <3>1, <3>2
  <2> QED  BY <1>1, <1>7, <2>1
<1>14. /\ deploy'.phase = deploy.phase /\ deploy'.worker = deploy.worker
       /\ deploy'.version = deploy.version /\ deploy'.moved = deploy.moved
       /\ ~deploy'.cut
  BY <1>1, <1>6 DEF Alike
<1>15. /\ Running' /\ ~Idle' /\ Part' = Part
       /\ OnlyUntags' /\ NothingLeft' /\ AtRest' /\ TakesPart' /\ VersionsNear' /\ Outcome'
       /\ \A s \in Part : (s \in deploy'.attempted \/ LeftOf(s) <= 9) =>
              /\ deploy'.previous[s] >= deploy.version - 2
              /\ s \notin deploy.moved => deploy'.previous[s] = deploy.version - 1
       /\ "api" \in deploy.moved => Lower'
       /\ Restored' /\ Ordered' /\ Tags'
       /\ \A s \in deploy'.attempted : cloud'[s].made = "released"
       /\ deploy'.attempted # {} => schema' >= deploy.version
       /\ schema' >= deploy.version - 1
  BY <1>6, <1>8, <1>10, <1>11, <1>12, <1>14, <1>13, ForwardKeeps
<1>16. /\ Left' = Left - 1 /\ Left >= 1 /\ Forward' /\ ~Backward'
       /\ \A i \in 1..Left' : deploy'.calls[i] = deploy.calls[i + 1]
  <2>1. /\ Len(deploy.calls) >= 1 /\ Len(Tail(deploy.calls)) = Len(deploy.calls) - 1
        /\ \A i \in 1..Len(Tail(deploy.calls)) : Tail(deploy.calls)[i] = deploy.calls[i + 1]
    BY <1>4, TailFacts
  <2> QED  BY <1>6, <1>15, <1>14, <2>1 DEF Forward, Backward, Left
<1>17. \A s \in Part : LeftOf(s)' = LeftOf(s) - 1 /\ LeftOf(s) \in Int /\ s \in Services
  BY <1>1, <1>16 DEF LeftOf, Services
<1>18. OnPlan'
  <2>1. Left <= Steps(deploy.worker)
        /\ \A i \in 1..Left : deploy.calls[i] = Due(deploy.worker, Left + 1 - i)
    BY <1>3 DEF OnPlan
  <2>2. Left' <= Steps(deploy.worker)
    BY <1>1, <1>16, <2>1 DEF Steps
  <2>3. ASSUME NEW i \in 1..Left'
        PROVE  deploy'.calls[i] = Due(deploy.worker, Left' + 1 - i)
    <3>1. i + 1 \in 1..Left /\ Left + 1 - (i + 1) = Left' + 1 - i
      BY <1>1, <1>16
    <3> QED  BY <1>16, <2>1, <3>1
  <2> QED  BY <1>14, <2>2, <2>3 DEF OnPlan
<1>19. OnWayBack' /\ WentBack' /\ WorkerHolds'
  BY <1>16 DEF OnWayBack, WentBack, WorkerHolds
<1>20. \A s \in Services :
          /\ IF At(s, 3)
             THEN cloud'[s].want = deploy.version
             ELSE cloud'[s].want = cloud[s].want /\ cloud'[s].serving = cloud[s].serving
          /\ ~At(s, 7) => cloud'[s].made = cloud[s].made
          /\ s \in deploy'.attempted <=> s \in deploy.attempted \/ At(s, 3)
  <2>1. ASSUME NEW s \in Services, At(s, 3)
        PROVE  cloud'[s].want = deploy.version
    BY <1>5, <1>6, <2>1 DEF Changed
  <2> QED  BY <1>8, <2>1 DEF Shifted
<1>21. MovedSeen'
  <2>1. ASSUME "api" \in deploy.moved  PROVE Left' >= 5 \/ Left' = 2
    <3>1. Lower /\ (Left >= 5 \/ Left = 2)
      BY <1>1, <1>3, <2>1 DEF MovedSeen, Idle, Running
    <3>2. "api" \in Services /\ LeftOf("api") = Left /\ cloud["api"].serving \in Int
      BY <1>1, <1>4
    <3>3. Left # 5
      <4>1. SUFFICES ASSUME Left = 5  PROVE FALSE
        OBVIOUS
      <4>2. At("api", 5) /\ ~At("api", 3) /\ "api" \notin deploy.attempted
        <5>1. LeftOf("api") = 5
          BY <3>2, <4>1
        <5>2. LeftOf("api") >= 3
          BY <5>1
        <5>3. "api" \notin deploy.attempted
          BY <1>1, <1>2, <5>2
        <5>4. LeftOf("api") # 3
          BY <5>1
        <5> QED  BY <1>1, <5>1, <5>3, <5>4 DEF At
      <4>3. cloud["api"].serving = deploy.version - 1
        BY <1>1, <1>5, <1>7, <1>20, <3>2, <4>2
      <4> QED  BY <1>1, <3>1, <4>2, <4>3 DEF Lower
    <3>4. Left # 2
      <4>1. SUFFICES ASSUME Left = 2  PROVE FALSE
        OBVIOUS
      <4>2. At("api", 2) /\ ~At("api", 3)
        BY <1>1, <3>2, <4>1 DEF At
      <4>3. cloud["api"].serving = deploy.version
        BY <1>1, <1>5, <1>7, <1>20, <3>2, <4>2
      <4> QED  BY <1>1, <3>1, <4>3 DEF Lower
    <3> QED  BY <1>1, <1>16, <3>1, <3>3, <3>4
  <2> QED  BY <1>15, <1>14, <2>1 DEF MovedSeen
<1>22. Promoted'
  <2>1. ASSUME NEW s \in Part
        PROVE  /\ LeftOf(s)' >= 3 => s \notin deploy'.attempted
               /\ LeftOf(s)' <= 2 => s \in deploy'.attempted /\ Stays(s)'
               /\ LeftOf(s)' <= 1 => deploy'.seen[s] = deploy.version /\ OnNew(s)'
               /\ deploy'.restore[s] = "not attempted"
    <3>1. s \in Services /\ LeftOf(s) \in Int /\ LeftOf(s)' = LeftOf(s) - 1
      BY <1>17
    <3>2. /\ LeftOf(s) >= 3 => s \notin deploy.attempted
          /\ LeftOf(s) <= 2 => s \in deploy.attempted /\ Stays(s)
          /\ LeftOf(s) <= 1 => deploy.seen[s] = deploy.version /\ OnNew(s)
          /\ deploy.restore[s] = "not attempted"
      BY <1>2
    <3>3. /\ LeftOf(s)' >= 3 => s \notin deploy'.attempted
          /\ LeftOf(s) = 3 => s \in deploy'.attempted
          /\ s \in deploy.attempted => s \in deploy'.attempted
      <4>1. s \in deploy'.attempted <=> s \in deploy.attempted \/ At(s, 3)
        BY <1>20, <3>1
      <4>2. LeftOf(s) >= 4 => ~At(s, 3)
        BY <3>1 DEF At
      <4>3. LeftOf(s) = 3 => At(s, 3)
        BY DEF At
      <4>4. LeftOf(s)' >= 3 => LeftOf(s) >= 4
        BY <3>1
      <4>5. LeftOf(s) >= 4 => s \notin deploy'.attempted
        <5>0. LeftOf(s) \in Int /\ (LeftOf(s) >= 3 => s \notin deploy.attempted)
          BY <3>1, <3>2
        <5>1. LeftOf(s) >= 4 => s \notin deploy.attempted
          BY <5>0
        <5>2. LeftOf(s) >= 4 => ~At(s, 3)
          BY <4>2
        <5> QED BY <4>1, <5>1, <5>2
      <4> QED  BY <4>1, <4>3, <4>4, <4>5
    <3>4. LeftOf(s) <= 2 => cloud'[s].want = cloud[s].want /\ cloud'[s].serving = cloud[s].serving
      <4>1. LeftOf(s) <= 2 => ~At(s, 3)
        BY <3>1 DEF At
      <4> QED  BY <1>20, <3>1, <4>1
    <3>5. LeftOf(s)' <= 2 => s \in deploy'.attempted /\ Stays(s)'
      <4>1. Stays(s)' <=> (cloud'[s].serving = deploy.version => cloud'[s].want = deploy.version)
        BY <1>14 DEF Stays
      <4>2. CASE LeftOf(s) = 3
        <5>1. At(s, 3)
          BY <4>2 DEF At
        <5> QED  BY <1>20, <3>1, <3>3, <4>1, <4>2, <5>1
      <4>3. CASE LeftOf(s) <= 2
        BY <3>2, <3>3, <3>4, <4>1, <4>3 DEF Stays
      <4> QED  BY <3>1, <4>2, <4>3
    <3>6. LeftOf(s)' <= 1 => deploy'.seen[s] = deploy.version /\ OnNew(s)'
      <4>1. SUFFICES ASSUME LeftOf(s) <= 2  PROVE deploy'.seen[s] = deploy.version /\ OnNew(s)'
        BY <3>1
      <4>2. /\ cloud'[s].want = cloud[s].want /\ cloud'[s].serving = cloud[s].serving
            /\ Stays(s)
        BY <3>2, <3>4, <4>1
      <4>3. CASE LeftOf(s) = 2
        <5>1. At(s, 2)
          BY <4>3 DEF At
        <5>2. cloud'[s].serving = deploy.version /\ deploy'.seen[s] = cloud'[s].serving
          BY <1>5, <1>7, <3>1, <5>1
        <5> QED  BY <1>14, <4>2, <5>2 DEF OnNew, Stays
      <4>4. CASE LeftOf(s) <= 1
        <5>1. deploy.seen[s] = deploy.version /\ OnNew(s)
          BY <3>2, <4>4
        <5>2. OnNew(s)' /\ cloud'[s].serving = deploy.version
          BY <1>14, <4>2, <5>1 DEF OnNew
        <5> QED  BY <1>7, <3>1, <5>1, <5>2
      <4> QED  BY <3>1, <4>1, <4>3, <4>4
    <3> QED  BY <1>6, <3>2, <3>3, <3>5, <3>6
  <2> QED  BY <1>15, <1>14, <2>1 DEF Promoted
<1>23. Made'
  <2>1. ASSUME NEW s \in Part, LeftOf(s)' <= 5
        PROVE  cloud'[s].made = "released"
    <3>1. s \in Services /\ LeftOf(s) \in Int /\ LeftOf(s) <= 6 /\ ~At(s, 7)
      BY <1>17, <2>1 DEF At
    <3>2. CASE LeftOf(s) = 6
      BY <1>5, <1>7, <1>20, <3>1, <3>2 DEF At
    <3>3. CASE LeftOf(s) <= 5
      BY <1>2, <1>20, <3>1, <3>3
    <3> QED  BY <3>1, <3>2, <3>3
  <2> QED  BY <1>15, <2>1 DEF Made
<1>24. Migrates'
  <2>1. (Left' <= IF deploy.worker THEN 14 ELSE 7) => schema' >= deploy.version
    <3>1. CASE Call.do = "migrate"
      BY <1>6, <1>9, <3>1
    <3>2. CASE Call.do # "migrate"
      <4>1. (Left' <= IF deploy.worker THEN 14 ELSE 7) => (Left <= IF deploy.worker THEN 14 ELSE 7)
        BY <1>1, <1>5, <1>16, <3>2
      <4> QED  BY <1>1, <1>3, <1>6, <3>2, <4>1 DEF Migrates, Idle, Running
    <3> QED  BY <3>1, <3>2
  <2> QED  BY <1>15, <1>14, <2>1 DEF Migrates
<1>25. Captured'
  <2>1. ASSUME NEW s \in Part, LeftOf(s)' <= 9,
               s \notin deploy'.attempted
        PROVE  /\ deploy'.previous[s] >= deploy.version - 2
               /\ s \notin deploy.moved => deploy'.previous[s] = deploy.version - 1
    <3>1. LeftOf(s) <= 10 /\ LeftOf(s) \in Int /\ s \in Services
      BY <1>17, <2>1
    <3>2. CASE LeftOf(s) <= 9
      BY <1>15, <3>2
    <3>3. CASE LeftOf(s) = 10 /\ s = "api"
      BY <1>1, <1>11, <3>3
    <3>4. CASE LeftOf(s) = 10 /\ s = "worker"
      <4>1. Left = 17 /\ deploy.worker
        BY <1>1, <3>4
      <4>2. Call = Due(deploy.worker, Left)
        <5>1. 1 \in 1..Left /\ Left + 1 - 1 = Left
          BY <4>1
        <5> QED  BY <1>3, <5>1 DEF OnPlan, Call
      <4>3. Call.do = "check" /\ Call.on = "worker"
        BY <4>1, <4>2 DEF Due
      <4>4. deploy'.previous[s] = cloud[s].serving
        BY <1>7, <3>1, <3>4, <4>3
      <4>5. s \notin deploy.attempted /\ Near(s) /\ cloud[s].serving \in Int
        <5>1. LeftOf(s) >= 3 /\ s \in Part
          BY <2>1, <3>4
        <5> QED  BY <1>2, <1>4, <3>1, <5>1
      <4> QED  BY <1>1, <4>4, <4>5 DEF Near
    <3> QED  BY <3>1, <3>2, <3>3, <3>4 DEF Services
  <2> QED  BY <1>15, <1>14, <2>1 DEF Captured
<1> QED
  BY <1>15, <1>18, <1>19, <1>21, <1>22, <1>23, <1>24, <1>25 DEF ScriptInv, Course, Traffic

-----------------------------------------------------------------------------
(* The way back keeps the invariant.                                       *)

(* What a call on the way back may change, passed, given up or cut short.  *)
Turned ==
    /\ deploy'.phase = deploy.phase /\ deploy'.worker = deploy.worker
    /\ deploy'.version = deploy.version /\ deploy'.moved = deploy.moved
    /\ deploy'.cut => deploy'.calls = <<>>
    /\ deploy'.failed = TRUE /\ deploy'.previous = deploy.previous
    /\ deploy'.attempted = deploy.attempted /\ deploy'.created = deploy.created
    /\ schema' = schema
    /\ \A s \in Services :
          /\ cloud'[s].made = cloud[s].made /\ cloud'[s].tagged = cloud[s].tagged
          /\ s # Call.on =>
                /\ cloud'[s].want = cloud[s].want /\ cloud'[s].serving = cloud[s].serving
                /\ deploy'.restore[s] = deploy.restore[s] /\ deploy'.seen[s] = deploy.seen[s]
          /\ s = Call.on =>
                /\ cloud'[s].want \in {cloud[s].want, deploy.previous[s]}
                /\ cloud'[s].serving \in {cloud[s].serving, deploy.previous[s]}

LEMMA BackwardFacts ==
  ASSUME ScriptInv, Backward, deploy.calls # <<>>
  PROVE  /\ Running /\ ~Idle /\ deploy.version \in Int /\ deploy.version >= 1
         /\ Left \in 1..6 /\ deploy.worker \in BOOLEAN
         /\ Part \subseteq Services /\ "api" \in Part
         /\ (deploy.worker <=> "worker" \in Part)
         /\ deploy.attempted \subseteq Part
         /\ Call.do \in BackVerbs /\ Call.on \in deploy.attempted
         /\ deploy.worker => (Call.on = "api" <=> Left >= 4)
         /\ ~deploy.worker => Call.on = "api"
         /\ LeftBack(Call.on) \in 1..3
         /\ Call.do = "resmoke" <=> LeftBack(Call.on) = 1
         /\ Call.do = "reverify" <=> LeftBack(Call.on) = 2
         /\ Call.do = "restore" <=> LeftBack(Call.on) = 3
         /\ (deploy.worker /\ Left >= 4) => OnNew("worker") /\ "worker" \in deploy.attempted
PROOF
<1>1. ScriptTypes /\ TakesPart /\ OnWayBack /\ WorkerHolds /\ VersionsNear
  BY DEF ScriptInv, Traffic, Course
<1>2. /\ deploy.version \in Int /\ deploy.worker \in BOOLEAN
      /\ Running /\ ~Idle
      /\ \A s \in Services : cloud[s].want \in Int
  BY <1>1, TypeFacts DEF Backward, Running, Idle
<1>3. Part \subseteq Services /\ "api" \in Part /\ (deploy.worker <=> "worker" \in Part)
  BY DEF Part, Services
<1>4. /\ Left \in 1..BackSteps(deploy.worker)
      /\ Call \in CallType /\ Call.do \in BackVerbs
      /\ Call.on \in deploy.attempted
      /\ deploy.worker => (Call.on = "api" <=> Left >= 4)
      /\ ~deploy.worker => Call.on = "api"
      /\ LeftBack(Call.on) \in 1..3
      /\ Call.do = "resmoke" <=> LeftBack(Call.on) = 1
      /\ Call.do = "reverify" <=> LeftBack(Call.on) = 2
      /\ Call.do = "restore" <=> LeftBack(Call.on) = 3
  BY <1>1, BackwardCall DEF TakesPart
<1>5. Left \in 1..6
  BY <1>4 DEF BackSteps
<1>6. (deploy.worker /\ Left >= 4) => OnNew("worker") /\ "worker" \in deploy.attempted
  <2>1. SUFFICES ASSUME deploy.worker, Left >= 4
                 PROVE  OnNew("worker") /\ "worker" \in deploy.attempted
    OBVIOUS
  <2>2. OnNew("worker") /\ Near("worker")
    BY <1>1, <1>2, <1>3, <2>1 DEF WorkerHolds, VersionsNear
  <2> QED  BY <1>2, <2>2 DEF OnNew, Near
<1>7. deploy.version >= 1 /\ deploy.attempted \subseteq Part
  BY <1>1, <1>2 DEF TakesPart
<1> QED  BY <1>2, <1>3, <1>4, <1>5, <1>6, <1>7

LEMMA BackKeeps ==
  ASSUME ScriptInv, Backward, deploy.calls # <<>>, ScriptTypes', Turned
  PROVE  /\ Running' /\ ~Idle' /\ Part' = Part /\ ~Forward'
         /\ OnPlan' /\ OnlyUntags' /\ NothingLeft' /\ AtRest' /\ TakesPart' /\ VersionsNear'
         /\ Captured' /\ MovedSeen' /\ Promoted' /\ Outcome' /\ Ordered' /\ Made' /\ Migrates'
         /\ Tags'
PROOF
<1>1. /\ Running /\ ~Idle /\ deploy.version \in Int /\ deploy.version >= 1
      /\ Left \in 1..6 /\ deploy.worker \in BOOLEAN
      /\ Part \subseteq Services /\ "api" \in Part
      /\ (deploy.worker <=> "worker" \in Part)
      /\ deploy.attempted \subseteq Part /\ Call.on \in deploy.attempted
      /\ deploy.worker => (Call.on = "api" <=> Left >= 4)
      /\ ~deploy.worker => Call.on = "api"
      /\ (deploy.worker /\ Left >= 4) => OnNew("worker")
  BY BackwardFacts
<1>2. /\ deploy'.phase = deploy.phase /\ deploy'.worker = deploy.worker
      /\ deploy'.version = deploy.version /\ deploy'.moved = deploy.moved
      /\ deploy'.cut => deploy'.calls = <<>>
      /\ deploy'.failed = TRUE /\ deploy'.previous = deploy.previous
      /\ deploy'.attempted = deploy.attempted /\ deploy'.created = deploy.created
      /\ schema' = schema
  BY DEF Turned
<1>3. \A s \in Services :
         /\ cloud'[s].made = cloud[s].made /\ cloud'[s].tagged = cloud[s].tagged
         /\ s # Call.on =>
               /\ cloud'[s].want = cloud[s].want /\ cloud'[s].serving = cloud[s].serving
               /\ deploy'.restore[s] = deploy.restore[s]
         /\ s = Call.on =>
               /\ cloud'[s].want \in {cloud[s].want, deploy.previous[s]}
               /\ cloud'[s].serving \in {cloud[s].serving, deploy.previous[s]}
  BY DEF Turned
<1>4. Running' /\ ~Idle' /\ Part' = Part /\ ~Forward'
  BY <1>1, <1>2 DEF Running, Idle, Part, Forward
<1>5. /\ ScriptTypes /\ TakesPart /\ VersionsNear /\ Captured /\ MovedSeen /\ WentBack
      /\ Ordered /\ Made /\ Migrates /\ Tags
  BY DEF ScriptInv, Traffic
<1>6. OnPlan' /\ OnlyUntags' /\ NothingLeft' /\ AtRest' /\ Promoted' /\ Outcome'
  BY <1>1, <1>2, <1>4
     DEF OnPlan, OnlyUntags, NothingLeft, AtRest, Promoted, Outcome, Running
<1>7. TakesPart'
  BY <1>1, <1>2, <1>4, <1>5 DEF TakesPart
<1>8. VersionsNear'
  <2>1. ASSUME NEW s \in Part  PROVE Near(s)'
    <3>1. /\ Near(s) /\ s \in Services
          /\ cloud[s].want \in Int /\ cloud[s].serving \in Int /\ deploy.previous[s] \in Int
      BY <1>1, <1>5, TypeFacts DEF VersionsNear
    <3>2. CASE s # Call.on
      BY <1>2, <1>3, <3>1, <3>2 DEF Near
    <3>3. CASE s = Call.on
      <4>1. /\ deploy.previous[s] >= deploy.version - 2
            /\ s \notin deploy.moved => deploy.previous[s] = deploy.version - 1
        BY <1>1, <1>5, <3>3 DEF Captured
      <4>2. s \in deploy'.attempted
        BY <1>1, <1>2, <3>3
      <4>3. /\ cloud'[s].want \in {cloud[s].want, deploy.previous[s]}
            /\ cloud'[s].serving \in {cloud[s].serving, deploy.previous[s]}
        BY <1>3, <3>1, <3>3
      <4> QED  BY <1>1, <1>2, <3>1, <4>1, <4>2, <4>3 DEF Near
    <3> QED  BY <3>2, <3>3
  <2> QED  BY <1>4, <2>1 DEF VersionsNear
<1>9. Captured'
  BY <1>1, <1>2, <1>4, <1>5 DEF Captured
<1>10. MovedSeen'
  <2>1. SUFFICES ASSUME "api" \in deploy.moved  PROVE Lower'
    BY <1>2, <1>4 DEF MovedSeen
  <2>2. Lower /\ "api" \in Services
    BY <1>1, <1>5, <2>1 DEF MovedSeen
  <2>3. CASE Call.on = "api"
    <3>1. Near("api") /\ deploy.previous["api"] < deploy.version
      BY <1>1, <1>5 DEF VersionsNear, Near
    <3>2. /\ cloud'["api"].want \in {cloud["api"].want, deploy.previous["api"]}
          /\ cloud'["api"].serving \in {cloud["api"].serving, deploy.previous["api"]}
          /\ "api" \in deploy'.attempted
      BY <1>1, <1>2, <1>3, <2>2, <2>3
    <3> QED  BY <1>2, <2>2, <3>1, <3>2 DEF Lower
  <2>4. CASE Call.on # "api"
    <3>1. cloud'["api"].want = cloud["api"].want /\ cloud'["api"].serving = cloud["api"].serving
      BY <1>3, <2>2, <2>4
    <3> QED  BY <1>1, <1>2, <2>2, <3>1 DEF Lower
  <2> QED  BY <2>3, <2>4
<1>11. Ordered'
  <2>1. SUFFICES ASSUME deploy.worker, deploy'.restore["api"] # "failed"
                 PROVE  \/ cloud'["api"].want < deploy.version /\ cloud'["api"].serving < deploy.version
                        \/ OnNew("worker")'
    BY <1>2 DEF Ordered
  <2>2. CASE Call.on = "api"
    <3>1. OnNew("worker") /\ "worker" \in Services
      BY <1>1, <2>1, <2>2
    <3> QED  BY <1>2, <1>3, <2>2, <3>1 DEF OnNew
  <2>3. CASE Call.on # "api"
    <3>1. /\ cloud'["api"].want = cloud["api"].want /\ cloud'["api"].serving = cloud["api"].serving
          /\ deploy.restore["api"] # "failed"
      BY <1>1, <1>3, <2>1, <2>3
    <3>2. Near("api")
      BY <1>1, <1>5 DEF VersionsNear
    <3>3. CASE "api" \in deploy.attempted
      <4>1. LeftBack("api") <= 1
        BY <1>1, <2>1, <2>3 DEF LeftBack
      <4>2. OnPrevious("api")
        <5>1. Backward
          OBVIOUS
        <5> QED  BY <1>5, <3>1, <3>3, <4>1, <5>1 DEF WentBack, BackOnPrevious
      <4> QED  BY <3>1, <3>2, <4>2 DEF OnPrevious, Near
    <3>4. CASE "api" \notin deploy.attempted
      BY <3>1, <3>2, <3>4 DEF Near
    <3> QED  BY <3>3, <3>4
  <2> QED  BY <2>2, <2>3
<1>12. Made'
  BY <1>1, <1>2, <1>3, <1>4, <1>5 DEF Made
<1>13. Migrates'
  BY <1>1, <1>2, <1>4, <1>5 DEF Migrates
<1>14. Tags'
  BY <1>1, <1>2, <1>3, <1>5 DEF Tags, Running
<1> QED
  BY <1>4, <1>6, <1>7, <1>8, <1>9, <1>10, <1>11, <1>12, <1>13, <1>14

(* A call on the way back passes, is given up, or is cut short.            *)
WentOn ==
    /\ Turned /\ ~deploy'.cut /\ deploy'.calls = Tail(deploy.calls)
    /\ Call.do = "restore" => cloud'[Call.on].want = deploy.previous[Call.on]
    /\ Call.do = "reverify" => cloud'[Call.on].serving = deploy.previous[Call.on]
    /\ Call.do # "restore" => /\ cloud'[Call.on].want = cloud[Call.on].want
                              /\ cloud'[Call.on].serving = cloud[Call.on].serving
    /\ deploy'.seen[Call.on] = IF Call.do = "reverify" THEN deploy.previous[Call.on]
                               ELSE deploy.seen[Call.on]
    /\ deploy'.restore[Call.on] = IF Call.do = "resmoke" THEN "restored"
                                  ELSE deploy.restore[Call.on]

GaveUp ==
    /\ Turned /\ ~deploy'.cut
    /\ deploy'.calls = IF Call.on = "api" /\ "worker" \in deploy.attempted
                       THEN GoBack("worker") ELSE <<>>
    /\ deploy'.restore[Call.on] = "failed"

CutBack ==
    Turned /\ deploy'.cut /\ deploy'.calls = <<>>
    /\ deploy'.restore[Call.on] = deploy.restore[Call.on]

LEMMA WentOnKeeps ==
  ASSUME ScriptInv, Backward, deploy.calls # <<>>, ScriptTypes', WentOn
  PROVE  ScriptInv'
PROOF
<1> DEFINE c == Call.on
<1>1. /\ Running /\ Left \in 1..6 /\ deploy.worker \in BOOLEAN
      /\ Part \subseteq Services
      /\ (deploy.worker <=> "worker" \in Part)
      /\ deploy.attempted \subseteq Part
      /\ Call.do \in BackVerbs /\ c \in deploy.attempted
      /\ deploy.worker => (c = "api" <=> Left >= 4)
      /\ ~deploy.worker => c = "api"
      /\ LeftBack(c) \in 1..3
      /\ Call.do = "resmoke" <=> LeftBack(c) = 1
      /\ Call.do = "reverify" <=> LeftBack(c) = 2
      /\ Call.do = "restore" <=> LeftBack(c) = 3
      /\ (deploy.worker /\ Left >= 4) => OnNew("worker") /\ "worker" \in deploy.attempted
  BY BackwardFacts
<1>2. /\ Turned /\ ~deploy'.cut /\ deploy'.calls = Tail(deploy.calls)
      /\ Call.do = "restore" => cloud'[c].want = deploy.previous[c]
      /\ Call.do = "reverify" => cloud'[c].serving = deploy.previous[c]
      /\ Call.do # "restore" => /\ cloud'[c].want = cloud[c].want
                                /\ cloud'[c].serving = cloud[c].serving
      /\ deploy'.seen[c] = IF Call.do = "reverify" THEN deploy.previous[c] ELSE deploy.seen[c]
      /\ deploy'.restore[c] = IF Call.do = "resmoke" THEN "restored" ELSE deploy.restore[c]
  BY DEF WentOn
<1>3. /\ deploy'.phase = deploy.phase /\ deploy'.worker = deploy.worker
      /\ deploy'.version = deploy.version /\ deploy'.failed = TRUE
      /\ deploy'.previous = deploy.previous /\ deploy'.attempted = deploy.attempted
      /\ \A s \in Services \ {c} :
            /\ cloud'[s].want = cloud[s].want /\ cloud'[s].serving = cloud[s].serving
            /\ deploy'.restore[s] = deploy.restore[s] /\ deploy'.seen[s] = deploy.seen[s]
  BY <1>2 DEF Turned
<1>4. /\ Running' /\ ~Idle' /\ Part' = Part /\ ~Forward'
      /\ OnPlan' /\ OnlyUntags' /\ NothingLeft' /\ AtRest' /\ TakesPart' /\ VersionsNear'
      /\ Captured' /\ MovedSeen' /\ Promoted' /\ Outcome' /\ Ordered' /\ Made' /\ Migrates'
      /\ Tags'
  BY <1>2, BackKeeps
<1>5. OnWayBack /\ WentBack /\ Restored /\ deploy.calls \in Seq(CallType)
  <2>1. ScriptTypes /\ OnWayBack /\ WentBack /\ Restored
    BY DEF ScriptInv, Traffic, Course
  <2> QED  BY <2>1, TypeFacts
<1>6. /\ Left' = Left - 1 /\ Backward'
      /\ \A i \in 1..Left' : deploy'.calls[i] = deploy.calls[i + 1]
  <2>1. /\ Len(Tail(deploy.calls)) = Len(deploy.calls) - 1
        /\ \A i \in 1..Len(Tail(deploy.calls)) : Tail(deploy.calls)[i] = deploy.calls[i + 1]
    BY <1>5, TailFacts
  <2> QED  BY <1>2, <1>3, <1>4, <2>1 DEF Backward, Left
<1>7. \A s \in Services : LeftBack(s)' = LeftBack(s) - 1 /\ LeftBack(s) \in Int
  BY <1>1, <1>3, <1>6 DEF LeftBack
<1>8. OnWayBack'
  <2>1. /\ Left <= BackSteps(deploy.worker)
        /\ \A i \in 1..Left : deploy.calls[i] = DueBack(deploy.worker, Left + 1 - i)
        /\ IF deploy.worker /\ Left <= 3 THEN "worker" \in deploy.attempted
           ELSE "api" \in deploy.attempted
    BY <1>1, <1>5 DEF OnWayBack
  <2>2. Left' <= BackSteps(deploy.worker)
    BY <1>1, <1>6, <2>1 DEF BackSteps
  <2>3. ASSUME NEW i \in 1..Left'
        PROVE  deploy'.calls[i] = DueBack(deploy.worker, Left' + 1 - i)
    <3>1. i + 1 \in 1..Left /\ Left + 1 - (i + 1) = Left' + 1 - i
      BY <1>1, <1>6
    <3> QED  BY <1>6, <2>1, <3>1
  <2>4. IF deploy.worker /\ Left' <= 3 THEN "worker" \in deploy.attempted
        ELSE "api" \in deploy.attempted
    BY <1>1, <1>6, <2>1
  <2> QED  BY <1>3, <2>2, <2>3, <2>4 DEF OnWayBack
<1>9. c \in Services
  BY <1>1
<1>10. /\ deploy.restore[c] = "not attempted"
       /\ LeftBack(c) <= 2 => ToPrevious(c)
       /\ LeftBack(c) <= 1 => BackOnPrevious(c)
  <2>1. /\ LeftBack(c) >= 1 => deploy.restore[c] = "not attempted"
        /\ LeftBack(c) <= 2 => deploy.restore[c] = "failed" \/ ToPrevious(c)
        /\ LeftBack(c) <= 1 => deploy.restore[c] = "failed" \/ BackOnPrevious(c)
    <3>1. c \in deploy.attempted
      BY <1>1
    <3> QED  BY <1>5, <3>1 DEF WentBack
  <2>2. LeftBack(c) >= 1
    BY <1>1
  <2> QED  BY <2>1, <2>2
<1>11. /\ LeftBack(c) >= 2 => deploy'.restore[c] = "not attempted"
       /\ LeftBack(c) = 1 => deploy'.restore[c] = "restored"
       /\ cloud'[c].want = deploy.previous[c]
       /\ LeftBack(c) <= 2 => /\ cloud'[c].serving = deploy.previous[c]
                              /\ deploy'.seen[c] = deploy.previous[c]
  <2>1. LeftBack(c) = 1 \/ LeftBack(c) = 2 \/ LeftBack(c) = 3
    BY <1>1
  <2>2. CASE LeftBack(c) = 1
    <3>1. Call.do = "resmoke" /\ BackOnPrevious(c) /\ ~(LeftBack(c) >= 2)
      <4>1. LeftBack(c) <= 1 /\ ~(LeftBack(c) >= 2)
        BY <2>2
      <4>2. Call.do = "resmoke"
        BY <1>1, <2>2
      <4> QED  BY <1>10, <4>1, <4>2
    <3>2. /\ cloud'[c].want = deploy.previous[c] /\ cloud'[c].serving = deploy.previous[c]
          /\ deploy'.seen[c] = deploy.previous[c]
      BY <1>2, <3>1 DEF BackOnPrevious, ToPrevious, OnPrevious
    <3> QED  BY <1>2, <3>1, <3>2
  <2>3. CASE LeftBack(c) = 2
    <3>1. Call.do = "reverify" /\ ToPrevious(c) /\ LeftBack(c) # 1
      <4>1. LeftBack(c) <= 2 /\ LeftBack(c) # 1
        BY <2>3
      <4>2. Call.do = "reverify"
        BY <1>1, <2>3
      <4> QED  BY <1>10, <4>1, <4>2
    <3>2. /\ cloud'[c].want = deploy.previous[c] /\ cloud'[c].serving = deploy.previous[c]
          /\ deploy'.seen[c] = deploy.previous[c]
      BY <1>2, <3>1 DEF BackOnPrevious, ToPrevious, OnPrevious
    <3> QED  BY <1>2, <1>10, <3>1, <3>2
  <2>4. CASE LeftBack(c) = 3
    <3>1. Call.do = "restore" /\ LeftBack(c) # 1 /\ ~(LeftBack(c) <= 2)
      BY <1>1, <2>4
    <3> QED  BY <1>2, <1>10, <3>1
  <2> QED  BY <2>1, <2>2, <2>3, <2>4
<1>12. WentBack'
  <2>1. ASSUME NEW s \in deploy.attempted
        PROVE  /\ LeftBack(s)' >= 1 => deploy'.restore[s] = "not attempted"
               /\ LeftBack(s)' <= 2 => deploy'.restore[s] = "failed" \/ ToPrevious(s)'
               /\ LeftBack(s)' <= 1 => deploy'.restore[s] = "failed" \/ BackOnPrevious(s)'
               /\ LeftBack(s)' <= 0 => deploy'.restore[s] # "not attempted"
    <3>1. s \in Services /\ LeftBack(s)' = LeftBack(s) - 1 /\ LeftBack(s) \in Int
      BY <1>1, <1>7
    <3>2. CASE s = c
      <4>1. ToPrevious(s)' /\ (LeftBack(c) <= 2 => BackOnPrevious(s)')
        BY <1>3, <1>11, <3>2 DEF ToPrevious, BackOnPrevious, OnPrevious
      <4>2. LeftBack(s)' >= 1 => LeftBack(c) >= 2
        BY <3>1, <3>2
      <4>3. LeftBack(s)' <= 1 => LeftBack(c) <= 2
        BY <3>1, <3>2
      <4>4. LeftBack(s)' <= 0 => LeftBack(c) = 1
        BY <1>1, <3>1, <3>2
      <4> QED  BY <1>11, <3>2, <4>1, <4>2, <4>3, <4>4
    <3>3. CASE s # c
      <4>1. /\ ToPrevious(s)' <=> ToPrevious(s)
            /\ BackOnPrevious(s)' <=> BackOnPrevious(s)
            /\ deploy'.restore[s] = deploy.restore[s]
        BY <1>3, <3>1, <3>3 DEF ToPrevious, BackOnPrevious, OnPrevious
      <4>2. deploy.worker /\ (s = "api" \/ s = "worker") /\ (c = "api" \/ c = "worker")
        BY <1>1, <1>9, <3>1, <3>3 DEF Services
      <4>3. /\ LeftBack(s) >= 1 => deploy.restore[s] = "not attempted"
            /\ LeftBack(s) <= 2 => deploy.restore[s] = "failed" \/ ToPrevious(s)
            /\ LeftBack(s) <= 1 => deploy.restore[s] = "failed" \/ BackOnPrevious(s)
            /\ LeftBack(s) <= 0 => deploy.restore[s] # "not attempted"
        BY <1>5 DEF WentBack
      <4>4. CASE s = "worker"
        <5>1. LeftBack(s) >= 4
          BY <1>1, <3>3, <4>2, <4>4 DEF LeftBack
        <5>2. /\ LeftBack(s) >= 1 /\ ~(LeftBack(s)' <= 2) /\ ~(LeftBack(s)' <= 1)
              /\ ~(LeftBack(s)' <= 0)
          BY <3>1, <5>1
        <5> QED  BY <4>1, <4>3, <5>2
      <4>5. CASE s = "api"
        <5>1. LeftBack(s) <= 0
          BY <1>1, <3>3, <4>2, <4>5 DEF LeftBack
        <5>2. /\ LeftBack(s) <= 2 /\ LeftBack(s) <= 1 /\ LeftBack(s) <= 0
              /\ ~(LeftBack(s)' >= 1)
          BY <3>1, <5>1
        <5> QED  BY <4>1, <4>3, <5>2
      <4> QED  BY <4>2, <4>4, <4>5
    <3> QED  BY <3>2, <3>3
  <2> QED  BY <1>3, <2>1 DEF WentBack
<1>13. Restored'
  <2>1. ASSUME NEW s \in Services, deploy'.restore[s] = "restored"
        PROVE  s \in deploy.attempted /\ OnPrevious(s)' /\ deploy'.seen[s] = deploy.previous[s]
    <3>1. CASE s = c
      <4>1. LeftBack(c) = 1 /\ LeftBack(c) <= 2
        <5>1. LeftBack(c) = 1 \/ LeftBack(c) = 2 \/ LeftBack(c) = 3
          BY <1>1
        <5>2. ~(LeftBack(c) >= 2)
          BY <1>11, <2>1, <3>1
        <5> QED  BY <5>1, <5>2
      <4> QED  BY <1>1, <1>3, <1>11, <3>1, <4>1 DEF OnPrevious
    <3>2. CASE s # c
      <4>1. /\ deploy.restore[s] = "restored" /\ deploy'.seen[s] = deploy.seen[s]
            /\ OnPrevious(s)' <=> OnPrevious(s)
        BY <1>3, <2>1, <3>2 DEF OnPrevious
      <4> QED  BY <1>1, <1>5, <4>1 DEF Restored
    <3> QED  BY <3>1, <3>2
  <2> QED  BY <1>3, <2>1 DEF Restored
<1>14. WorkerHolds'
  <2>1. SUFFICES ASSUME deploy.worker, Left' >= 4  PROVE OnNew("worker")'
    BY <1>3 DEF WorkerHolds
  <2>2. Left >= 4 /\ c = "api" /\ OnNew("worker") /\ "worker" \in Services
    BY <1>1, <1>6, <2>1
  <2> QED  BY <1>3, <2>2 DEF OnNew
<1> QED  BY <1>4, <1>8, <1>12, <1>13, <1>14 DEF ScriptInv, Course, Traffic

LEMMA GaveUpKeeps ==
  ASSUME ScriptInv, Backward, deploy.calls # <<>>, ScriptTypes', GaveUp
  PROVE  ScriptInv'
PROOF
<1> DEFINE c == Call.on
<1>1. /\ Running /\ Left \in 1..6 /\ deploy.worker \in BOOLEAN
      /\ Part \subseteq Services
      /\ (deploy.worker <=> "worker" \in Part)
      /\ deploy.attempted \subseteq Part /\ c \in deploy.attempted
      /\ deploy.worker => (c = "api" <=> Left >= 4)
      /\ ~deploy.worker => c = "api"
  BY BackwardFacts
<1>2. /\ Turned /\ ~deploy'.cut /\ deploy'.restore[c] = "failed"
      /\ deploy'.calls = IF c = "api" /\ "worker" \in deploy.attempted
                         THEN GoBack("worker") ELSE <<>>
  BY DEF GaveUp
<1>3. /\ deploy'.phase = deploy.phase /\ deploy'.worker = deploy.worker
      /\ deploy'.version = deploy.version /\ deploy'.failed = TRUE
      /\ deploy'.previous = deploy.previous /\ deploy'.attempted = deploy.attempted
      /\ \A s \in Services \ {c} :
            /\ cloud'[s].want = cloud[s].want /\ cloud'[s].serving = cloud[s].serving
            /\ deploy'.restore[s] = deploy.restore[s] /\ deploy'.seen[s] = deploy.seen[s]
  BY <1>2 DEF Turned
<1>4. /\ Running' /\ ~Idle' /\ Part' = Part /\ ~Forward'
      /\ OnPlan' /\ OnlyUntags' /\ NothingLeft' /\ AtRest' /\ TakesPart' /\ VersionsNear'
      /\ Captured' /\ MovedSeen' /\ Promoted' /\ Outcome' /\ Ordered' /\ Made' /\ Migrates'
      /\ Tags'
  BY <1>2, BackKeeps
<1>5. WentBack /\ Restored
  BY DEF ScriptInv, Traffic
<1>6. IF c = "api" /\ "worker" \in deploy.attempted
      THEN /\ deploy.worker /\ Left' = 3 /\ Left >= 4
           /\ \A i \in 1..3 : deploy'.calls[i] = DueBack(deploy.worker, 4 - i)
      ELSE Left' = 0
  <2>1. CASE c = "api" /\ "worker" \in deploy.attempted
    <3>1. deploy.worker /\ Left >= 4
      BY <1>1, <2>1
    <3>2. /\ Len(GoBack("worker")) = 3
          /\ \A i \in 1..3 : GoBack("worker")[i] = [do |-> GoBackFromEnd[4 - i], on |-> "worker"]
      BY GoBackFacts DEF Services
    <3>3. deploy'.calls = GoBack("worker")
      BY <1>2, <2>1
    <3>4. \A i \in 1..3 : 4 - i <= 3
      OBVIOUS
    <3> QED  BY <2>1, <3>1, <3>2, <3>3, <3>4 DEF DueBack, Left
  <2>2. CASE ~(c = "api" /\ "worker" \in deploy.attempted)
    <3>1. deploy'.calls = <<>>
      BY <1>2, <2>2
    <3> QED  BY <2>2, <3>1 DEF Left
  <2> QED  BY <2>1, <2>2
<1>7. OnWayBack'
  <2>1. CASE c = "api" /\ "worker" \in deploy.attempted
    <3>1. /\ Left' = 3 /\ deploy.worker /\ BackSteps(deploy.worker) = 6
          /\ \A i \in 1..3 : deploy'.calls[i] = DueBack(deploy.worker, 4 - i)
      BY <1>6, <2>1 DEF BackSteps
    <3>2. Left' <= 3 /\ Left' <= BackSteps(deploy.worker)
      BY <3>1 DEF BackSteps
    <3>3. \A i \in 1..Left' : deploy'.calls[i] = DueBack(deploy.worker, Left' + 1 - i)
      <4>1. \A i \in 1..Left' : i \in 1..3 /\ Left' + 1 - i = 4 - i
        BY <3>1
      <4> QED  BY <3>1, <4>1
    <3> QED  BY <1>3, <2>1, <3>1, <3>2, <3>3 DEF OnWayBack
  <2>2. CASE ~(c = "api" /\ "worker" \in deploy.attempted)
    <3>1. Left' = 0 /\ BackSteps(deploy.worker) >= 0 /\ \A i \in 1..0 : FALSE
      BY <1>6, <2>2 DEF BackSteps
    <3> QED  BY <1>3, <3>1 DEF OnWayBack
  <2> QED  BY <2>1, <2>2
<1>8. c \in Services
  BY <1>1
<1>9. WentBack'
  <2>1. ASSUME NEW s \in deploy.attempted
        PROVE  /\ LeftBack(s)' >= 1 => deploy'.restore[s] = "not attempted"
               /\ LeftBack(s)' <= 2 => deploy'.restore[s] = "failed" \/ ToPrevious(s)'
               /\ LeftBack(s)' <= 1 => deploy'.restore[s] = "failed" \/ BackOnPrevious(s)'
               /\ LeftBack(s)' <= 0 => deploy'.restore[s] # "not attempted"
    <3>1. s \in Services /\ (s = "api" \/ s = "worker") /\ (c = "api" \/ c = "worker")
      BY <1>1, <1>8 DEF Services
    <3>2. LeftBack(s)' = IF deploy.worker /\ s = "api" THEN Left' - 3 ELSE Left'
      BY <1>3 DEF LeftBack
    <3>3. CASE s = c
      <4>1. LeftBack(s)' <= 0
        <5>1. CASE s = "api" /\ "worker" \in deploy.attempted
          BY <1>6, <3>2, <3>3, <5>1
        <5>2. CASE ~(s = "api" /\ "worker" \in deploy.attempted)
          <6>1. Left' = 0
            BY <1>6, <3>3, <5>2
          <6> QED  BY <3>2, <6>1
        <5> QED  BY <5>1, <5>2
      <4>2. LeftBack(s)' \in Int
        BY <1>6, <3>2
      <4>3. ~(LeftBack(s)' >= 1)
        BY <4>1, <4>2
      <4> QED  BY <1>2, <3>3, <4>3
    <3>4. CASE s # c
      <4>1. /\ ToPrevious(s)' <=> ToPrevious(s)
            /\ BackOnPrevious(s)' <=> BackOnPrevious(s)
            /\ deploy'.restore[s] = deploy.restore[s]
        BY <1>3, <3>1, <3>4 DEF ToPrevious, BackOnPrevious, OnPrevious
      <4>2. /\ LeftBack(s) >= 1 => deploy.restore[s] = "not attempted"
            /\ LeftBack(s) <= 2 => deploy.restore[s] = "failed" \/ ToPrevious(s)
            /\ LeftBack(s) <= 1 => deploy.restore[s] = "failed" \/ BackOnPrevious(s)
            /\ LeftBack(s) <= 0 => deploy.restore[s] # "not attempted"
        BY <1>5 DEF WentBack
      <4>3. CASE s = "worker"
        <5>1. deploy.worker /\ Left >= 4 /\ LeftBack(s)' = 3
          BY <1>6, <3>1, <3>2, <3>4, <4>3
        <5>2. LeftBack(s) >= 1
          BY <1>1, <4>3, <5>1 DEF LeftBack
        <5>3. ~(LeftBack(s)' <= 2) /\ ~(LeftBack(s)' <= 1) /\ ~(LeftBack(s)' <= 0)
          BY <5>1
        <5> QED  BY <4>1, <4>2, <5>2, <5>3
      <4>4. CASE s = "api"
        <5>1. deploy.worker /\ ~(Left >= 4) /\ Left' = 0
          BY <1>1, <1>6, <3>1, <3>4, <4>4
        <5>2. LeftBack(s) <= 2 /\ LeftBack(s) <= 1 /\ LeftBack(s) <= 0
          BY <1>1, <4>4, <5>1 DEF LeftBack
        <5>3. ~(LeftBack(s)' >= 1)
          BY <3>2, <4>4, <5>1
        <5> QED  BY <4>1, <4>2, <5>2, <5>3
      <4> QED  BY <3>1, <4>3, <4>4
    <3> QED  BY <3>3, <3>4
  <2> QED  BY <1>3, <2>1 DEF WentBack
<1>10. Restored'
  <2>1. ASSUME NEW s \in Services, deploy'.restore[s] = "restored"
        PROVE  s \in deploy.attempted /\ OnPrevious(s)' /\ deploy'.seen[s] = deploy.previous[s]
    <3>1. s # c
      BY <1>2, <2>1
    <3>2. /\ deploy.restore[s] = "restored" /\ deploy'.seen[s] = deploy.seen[s]
          /\ OnPrevious(s)' <=> OnPrevious(s)
      BY <1>3, <2>1, <3>1 DEF OnPrevious
    <3> QED  BY <1>1, <1>5, <3>2 DEF Restored
  <2> QED  BY <1>3, <2>1 DEF Restored
<1>11. WorkerHolds'
  <2>1. ~(Left' >= 4)
    BY <1>6
  <2> QED  BY <2>1 DEF WorkerHolds
<1> QED  BY <1>4, <1>7, <1>9, <1>10, <1>11 DEF ScriptInv, Course, Traffic

LEMMA CutBackKeeps ==
  ASSUME ScriptInv, Backward, deploy.calls # <<>>, ScriptTypes', CutBack
  PROVE  ScriptInv'
PROOF
<1> DEFINE c == Call.on
<1>1. /\ Running /\ deploy.attempted \subseteq Part /\ Part \subseteq Services
      /\ c \in deploy.attempted /\ LeftBack(c) \in 1..3
  BY BackwardFacts
<1>2. /\ Turned /\ deploy'.cut /\ deploy'.restore[c] = deploy.restore[c]
  BY DEF CutBack
<1>3. /\ deploy'.phase = deploy.phase
      /\ deploy'.previous = deploy.previous /\ deploy'.attempted = deploy.attempted
      /\ \A s \in Services \ {c} :
            /\ cloud'[s].want = cloud[s].want /\ cloud'[s].serving = cloud[s].serving
            /\ deploy'.restore[s] = deploy.restore[s] /\ deploy'.seen[s] = deploy.seen[s]
  BY <1>2 DEF Turned
<1>4. /\ Running' /\ ~Idle' /\ Part' = Part /\ ~Forward'
      /\ OnPlan' /\ OnlyUntags' /\ NothingLeft' /\ AtRest' /\ TakesPart' /\ VersionsNear'
      /\ Captured' /\ MovedSeen' /\ Promoted' /\ Outcome' /\ Ordered' /\ Made' /\ Migrates'
      /\ Tags'
  BY <1>2, BackKeeps DEF CutBack
<1>5. ~Backward'
  BY <1>2 DEF Backward
<1>6. OnWayBack' /\ WentBack' /\ WorkerHolds'
  BY <1>5 DEF OnWayBack, WentBack, WorkerHolds
<1>7. WentBack /\ Restored
  BY DEF ScriptInv, Traffic
<1>8. deploy'.restore[c] = "not attempted"
  <2>1. LeftBack(c) >= 1
    BY <1>1
  <2> QED  BY <1>1, <1>2, <1>7, <2>1 DEF WentBack
<1>9. Restored'
  <2>1. ASSUME NEW s \in Services, deploy'.restore[s] = "restored"
        PROVE  s \in deploy.attempted /\ OnPrevious(s)' /\ deploy'.seen[s] = deploy.previous[s]
    <3>1. s # c
      BY <1>8, <2>1
    <3>2. /\ deploy.restore[s] = "restored" /\ deploy'.seen[s] = deploy.seen[s]
          /\ OnPrevious(s)' <=> OnPrevious(s)
      BY <1>3, <2>1, <3>1 DEF OnPrevious
    <3> QED  BY <1>1, <1>7, <3>2 DEF Restored
  <2> QED  BY <1>3, <2>1 DEF Restored
<1> QED  BY <1>4, <1>6, <1>9 DEF ScriptInv, Course, Traffic

(* An interruption on the way forward.                                     *)
CutForward ==
    /\ deploy'.phase = deploy.phase /\ deploy'.worker = deploy.worker
    /\ deploy'.version = deploy.version /\ deploy'.moved = deploy.moved
    /\ deploy'.cut /\ deploy'.calls = <<>> /\ Noted
    /\ deploy'.restore = deploy.restore /\ deploy'.previous = deploy.previous
    /\ cloud' = cloud \/ Changed(cloud', Call, "released", FALSE)
    /\ schema' = schema \/ schema' = Migrated

LEMMA CutForwardKeeps ==
  ASSUME ScriptInv, Forward, deploy.calls # <<>>, ScriptTypes', CutForward
  PROVE  ScriptInv'
PROOF
<1>1. /\ deploy'.phase = deploy.phase /\ deploy'.worker = deploy.worker
      /\ deploy'.version = deploy.version /\ deploy'.moved = deploy.moved
      /\ deploy'.cut /\ deploy'.calls = <<>> /\ Noted
      /\ deploy'.restore = deploy.restore /\ deploy'.previous = deploy.previous
      /\ schema' = schema \/ schema' = Migrated
  BY DEF CutForward
<1>2. Shifted
  <2>1. cloud' = cloud \/ \E image \in {"released", "other"}, waited \in BOOLEAN :
                              Changed(cloud', Call, image, waited)
    BY DEF CutForward
  <2> QED  BY <1>1, <2>1, ShiftedFacts
<1>3. schema' >= schema
  <2>1. ScriptTypes
    BY DEF ScriptInv
  <2>2. schema \in Int
    BY <2>1, TypeFacts
  <2>3. Migrated >= schema
    BY <2>1, MigratedFacts
  <2> QED  BY <1>1, <2>2, <2>3
<1>4. \A s \in Part : PreviousNear(s, deploy'.previous[s])
  BY <1>1, ForwardFacts DEF Near, PreviousNear
<1>5. /\ Running' /\ ~Idle' /\ Part' = Part
      /\ OnlyUntags' /\ NothingLeft' /\ AtRest' /\ TakesPart' /\ VersionsNear' /\ Outcome'
      /\ \A s \in Part : s \in deploy'.attempted =>
             /\ deploy'.previous[s] >= deploy.version - 2
             /\ s \notin deploy.moved => deploy'.previous[s] = deploy.version - 1
      /\ "api" \in deploy.moved => Lower'
      /\ Restored' /\ Ordered' /\ Tags'
      /\ \A s \in deploy'.attempted : cloud'[s].made = "released"
      /\ deploy'.attempted # {} => schema' >= deploy.version
      /\ schema' >= deploy.version - 1
  BY <1>1, <1>2, <1>3, <1>4, ForwardKeeps
<1>6. ~Forward' /\ ~Backward'
  BY <1>1 DEF Forward, Backward
<1>7. OnPlan' /\ OnWayBack' /\ Promoted' /\ WentBack' /\ WorkerHolds'
  BY <1>6 DEF OnPlan, OnWayBack, Promoted, WentBack, WorkerHolds
<1>8. Captured' /\ MovedSeen' /\ Made' /\ Migrates'
  BY <1>1, <1>5, <1>6 DEF Captured, MovedSeen, Made, Migrates
<1> QED  BY <1>5, <1>7, <1>8 DEF ScriptInv, Course, Traffic

(* What the calls of the way back do to the cloud.                         *)
LEMMA BackEffect ==
  ASSUME ScriptTypes, Call.do \in BackVerbs, NEW waited \in BOOLEAN,
         Changed(cloud', Call, "released", waited)
  PROVE  /\ \A s \in Services :
               /\ cloud'[s].made = cloud[s].made /\ cloud'[s].tagged = cloud[s].tagged
               /\ s # Call.on =>
                     cloud'[s].want = cloud[s].want /\ cloud'[s].serving = cloud[s].serving
               /\ s = Call.on =>
                     /\ cloud'[s].want \in {cloud[s].want, deploy.previous[s]}
                     /\ cloud'[s].serving \in {cloud[s].serving, deploy.previous[s]}
                     /\ Call.do = "restore" => cloud'[s].want = deploy.previous[s]
                     /\ Call.do # "restore" =>
                           /\ cloud'[s].want = cloud[s].want
                           /\ cloud'[s].serving = cloud[s].serving
PROOF
<1>1. /\ Call.do \notin {"deploy", "promote", "untag"}
      /\ Call.do = "restore" \/ Call.do # "restore"
  BY DEF BackVerbs
<1>2. ASSUME NEW s \in Services
      PROVE  /\ cloud'[s].made = cloud[s].made /\ cloud'[s].tagged = cloud[s].tagged
             /\ cloud'[s].want = IF s = Call.on /\ Call.do = "restore" THEN deploy.previous[s]
                                 ELSE cloud[s].want
             /\ cloud'[s].serving = IF waited /\ s = Call.on /\ Call.do = "restore"
                                    THEN cloud'[s].want ELSE cloud[s].serving
  BY <1>1 DEF Changed
<1> QED  BY <1>2

LEMMA ReturnsBackward ==
  ASSUME ScriptInv, Backward, Returns
  PROVE  ScriptTypes' /\ (WentOn \/ GaveUp)
PROOF
<1> DEFINE c == Call.on
<1>1. ScriptTypes /\ deploy.calls # <<>> /\ OnWayBack /\ TakesPart
  BY DEF ScriptInv, Course, Traffic, Returns
<1>2. /\ Call \in CallType /\ Call.do \in BackVerbs /\ c \in deploy.attempted
      /\ deploy \in DeployType /\ schema \in Int /\ deploy.failed = TRUE /\ deploy.cut = FALSE
      /\ c \in Services
  BY <1>1, BackwardCall, TypeFacts DEF TakesPart, Backward
<1>3. PICK waited \in BOOLEAN :
         /\ cloud' = Effect(Call, "released", waited)
         /\ schema' = schema
         /\ deploy' = Judged(Call, Begun(Call, deploy), cloud'[c].serving, cloud[c].made)
  <2>1. PICK image \in {"released", "other"}, waited \in BOOLEAN :
           /\ image = "other" => Call.do \in {"deploy", "migrate"}
           /\ cloud' = Effect(Call, image, waited)
           /\ schema' = IF Call.do = "migrate" /\ image = "released" THEN Migrated ELSE schema
           /\ deploy' = IF Call.on = "job"
                        THEN Judged(Call, deploy, Unknown, image)
                        ELSE Judged(Call, Begun(Call, deploy), cloud'[Call.on].serving,
                                    cloud[Call.on].made)
    BY DEF Returns
  <2>2. Call.do \notin {"deploy", "migrate"} /\ c # "job"
    BY <1>2 DEF BackVerbs, Services
  <2> QED  BY <2>1, <2>2
<1>4. Begun(Call, deploy) = deploy
  BY <1>2 DEF Begun, BackVerbs
<1>5. cloud' \in CloudType /\ Changed(cloud', Call, "released", waited)
  BY <1>1, <1>2, <1>3, EffectFacts
<1>6. cloud'[c].serving \in Int
  BY <1>2, <1>5 DEF CloudType, ServiceType
<1>7. \A s \in Services :
         /\ cloud'[s].made = cloud[s].made /\ cloud'[s].tagged = cloud[s].tagged
         /\ s # c => cloud'[s].want = cloud[s].want /\ cloud'[s].serving = cloud[s].serving
         /\ s = c =>
               /\ cloud'[s].want \in {cloud[s].want, deploy.previous[s]}
               /\ cloud'[s].serving \in {cloud[s].serving, deploy.previous[s]}
               /\ Call.do = "restore" => cloud'[s].want = deploy.previous[s]
               /\ Call.do # "restore" =>
                     cloud'[s].want = cloud[s].want /\ cloud'[s].serving = cloud[s].serving
  BY <1>1, <1>2, <1>5, BackEffect
<1> DEFINE serving == cloud'[c].serving
           next == [deploy EXCEPT !.calls = Tail(@)]
           seen == Seen(deploy, c, serving)
<1>8. /\ next \in DeployType /\ Alike(deploy, next)
      /\ next.failed = deploy.failed /\ next.previous = deploy.previous
      /\ next.seen = deploy.seen
      /\ next.restore = deploy.restore /\ next.calls = Tail(deploy.calls)
      /\ next.attempted = deploy.attempted /\ next.created = deploy.created
  BY <1>1, <1>2, NextFacts
<1>9. /\ seen \in DeployType /\ Alike(deploy, seen)
      /\ seen.failed = deploy.failed /\ seen.previous = deploy.previous
      /\ seen.seen[c] = serving /\ \A r \in Services \ {c} : seen.seen[r] = deploy.seen[r]
      /\ seen.restore = deploy.restore /\ seen.calls = Tail(deploy.calls)
      /\ seen.attempted = deploy.attempted /\ seen.created = deploy.created
  BY <1>1, <1>2, <1>6, SeenFacts
<1>10. deploy' = CASE Call.do = "reverify" ->
                        IF serving = deploy.previous[c] THEN seen ELSE GivenUp(seen, c, serving)
                   [] Call.do = "resmoke" -> [next EXCEPT !.restore[c] = "restored"]
                   [] OTHER -> next
  <2>1. deploy' = Judged(Call, deploy, serving, cloud[c].made)
    BY <1>3, <1>4
  <2>2. CASE Call.do = "restore"
    BY <2>1, <2>2 DEF Judged
  <2>3. CASE Call.do = "reverify"
    BY <2>1, <2>3 DEF Judged, Unmoved
  <2>4. CASE Call.do = "resmoke"
    BY <2>1, <2>4 DEF Judged
  <2> QED  BY <1>2, <2>2, <2>3, <2>4 DEF BackVerbs
<1> HIDE DEF next, seen
<1>11. CASE Call.do = "restore"
  <2>1. deploy' = next
    BY <1>10, <1>11
  <2>2. Turned
    BY <1>2, <1>3, <1>7, <1>8, <2>1 DEF Turned, Alike
  <2>3. WentOn
    BY <1>2, <1>7, <1>8, <1>11, <2>1, <2>2 DEF WentOn, Alike
  <2> QED  BY <1>2, <1>3, <1>5, <1>8, <2>1, <2>3 DEF ScriptTypes
<1>12. CASE Call.do = "resmoke"
  <2> DEFINE restore == [next.restore EXCEPT ![c] = "restored"]
  <2>1. deploy' = [next EXCEPT !.restore = restore]
    BY <1>2, <1>8, <1>10, <1>12 DEF DeployType
  <2>2. /\ restore \in Restores /\ restore[c] = "restored"
        /\ \A s \in Services \ {c} : restore[s] = deploy.restore[s]
    <3>1. next.restore \in Restores
      BY <1>8 DEF DeployType
    <3> QED  BY <1>2, <1>8, <3>1 DEF Restores
  <2> HIDE DEF restore
  <2>3. /\ deploy' \in DeployType /\ Alike(next, deploy') /\ deploy'.restore = restore
        /\ deploy'.failed = next.failed /\ deploy'.previous = next.previous
        /\ deploy'.seen = next.seen /\ deploy'.calls = next.calls
        /\ deploy'.attempted = next.attempted /\ deploy'.created = next.created
    BY <1>8, <2>1, <2>2 DEF DeployType, Alike
  <2>4. Turned
    BY <1>2, <1>3, <1>7, <1>8, <2>2, <2>3 DEF Turned, Alike
  <2>5. WentOn
    BY <1>2, <1>7, <1>8, <1>12, <2>2, <2>3, <2>4 DEF WentOn, Alike
  <2> QED  BY <1>2, <1>3, <1>5, <2>3, <2>5 DEF ScriptTypes
<1>13. CASE Call.do = "reverify" /\ serving = deploy.previous[c]
  <2>1. deploy' = seen
    BY <1>10, <1>13
  <2>2. Turned
    BY <1>2, <1>3, <1>7, <1>9, <2>1 DEF Turned, Alike
  <2>3. WentOn
    BY <1>2, <1>7, <1>9, <1>13, <2>1, <2>2 DEF WentOn, Alike
  <2> QED  BY <1>2, <1>3, <1>5, <1>9, <2>1, <2>3 DEF ScriptTypes
<1>14. CASE Call.do = "reverify" /\ serving # deploy.previous[c]
  <2>1. deploy' = GivenUp(seen, c, serving)
    BY <1>10, <1>14
  <2>2. /\ deploy' \in DeployType /\ Alike(seen, deploy')
        /\ deploy'.failed = seen.failed /\ deploy'.previous = seen.previous
        /\ \A r \in Services \ {c} : deploy'.seen[r] = seen.seen[r]
        /\ deploy'.restore[c] = "failed"
        /\ \A r \in Services \ {c} : deploy'.restore[r] = seen.restore[r]
        /\ deploy'.calls = IF c = "api" /\ "worker" \in seen.attempted THEN GoBack("worker")
                           ELSE <<>>
        /\ deploy'.attempted = seen.attempted /\ deploy'.created = seen.created
    BY <1>2, <1>6, <1>9, <2>1, GivenUpFacts
  <2>3. Turned
    <3>1. \A s \in Services \ {c} :
             deploy'.restore[s] = deploy.restore[s] /\ deploy'.seen[s] = deploy.seen[s]
      BY <1>9, <2>2
    <3>2. /\ deploy'.phase = deploy.phase /\ deploy'.worker = deploy.worker
          /\ deploy'.version = deploy.version /\ deploy'.moved = deploy.moved
          /\ ~deploy'.cut /\ deploy'.failed = TRUE /\ deploy'.previous = deploy.previous
          /\ deploy'.attempted = deploy.attempted /\ deploy'.created = deploy.created
      BY <1>2, <1>9, <2>2 DEF Alike
    <3> QED  BY <1>3, <1>7, <3>1, <3>2 DEF Turned
  <2>4. GaveUp
    BY <1>2, <1>9, <2>2, <2>3 DEF GaveUp, Alike
  <2> QED  BY <1>2, <1>3, <1>5, <2>2, <2>4 DEF ScriptTypes
<1> QED  BY <1>2, <1>11, <1>12, <1>13, <1>14 DEF BackVerbs

LEMMA FailsBackward ==
  ASSUME ScriptInv, Backward, Fails
  PROVE  ScriptTypes' /\ GaveUp
PROOF
<1> DEFINE c == Call.on
<1>1. ScriptTypes /\ deploy.calls # <<>> /\ OnWayBack /\ TakesPart
  BY DEF ScriptInv, Course, Traffic, Fails
<1>2. /\ Call \in CallType /\ Call.do \in BackVerbs /\ c \in deploy.attempted
      /\ deploy \in DeployType /\ cloud \in CloudType /\ schema \in Int
      /\ deploy.failed = TRUE /\ deploy.cut = FALSE
      /\ c \in Services /\ Call.do # "migrate"
  BY <1>1, BackwardCall, TypeFacts DEF TakesPart, Backward, BackVerbs
<1>3. /\ cloud' = cloud \/ cloud' = Effect(Call, "released", FALSE)
      /\ schema' = schema
      /\ \E seen \in {cloud'[c].serving, Unknown} : deploy' = GivenUp(deploy, c, seen)
  BY <1>2 DEF Fails, Backward
<1>4. cloud' \in CloudType /\ (cloud' = cloud \/ Changed(cloud', Call, "released", FALSE))
  <2>1. cloud' = Effect(Call, "released", FALSE)
        => cloud' \in CloudType /\ Changed(cloud', Call, "released", FALSE)
    BY <1>1, <1>2, EffectFacts
  <2> QED  BY <1>2, <1>3, <2>1
<1>5. \A s \in Services :
         /\ cloud'[s].made = cloud[s].made /\ cloud'[s].tagged = cloud[s].tagged
         /\ s # c => cloud'[s].want = cloud[s].want /\ cloud'[s].serving = cloud[s].serving
         /\ s = c =>
               /\ cloud'[s].want \in {cloud[s].want, deploy.previous[s]}
               /\ cloud'[s].serving \in {cloud[s].serving, deploy.previous[s]}
  <2>1. CASE cloud' = cloud
    BY <2>1
  <2>2. CASE Changed(cloud', Call, "released", FALSE)
    BY <1>1, <1>2, <2>2, BackEffect
  <2> QED  BY <1>4, <2>1, <2>2
<1>6. PICK seen \in Int : deploy' = GivenUp(deploy, c, seen)
  <2>1. cloud'[c].serving \in Int
    BY <1>2, <1>4 DEF CloudType, ServiceType
  <2> QED  BY <1>3, <2>1 DEF Unknown
<1>7. /\ deploy' \in DeployType /\ Alike(deploy, deploy')
      /\ deploy'.failed = deploy.failed /\ deploy'.previous = deploy.previous
      /\ \A r \in Services \ {c} : deploy'.seen[r] = deploy.seen[r]
      /\ deploy'.restore[c] = "failed"
      /\ \A r \in Services \ {c} : deploy'.restore[r] = deploy.restore[r]
      /\ deploy'.calls = IF c = "api" /\ "worker" \in deploy.attempted THEN GoBack("worker")
                         ELSE <<>>
      /\ deploy'.attempted = deploy.attempted /\ deploy'.created = deploy.created
  BY <1>2, <1>6, GivenUpFacts
<1>8. Turned
  BY <1>2, <1>3, <1>5, <1>7 DEF Turned, Alike
<1>9. GaveUp
  BY <1>2, <1>7, <1>8 DEF GaveUp, Alike
<1> QED  BY <1>2, <1>3, <1>4, <1>7, <1>9 DEF ScriptTypes

-----------------------------------------------------------------------------
(* After the calls: the tags are removed, and the summary is written.      *)

(* What the end of a release leaves alone.                                 *)
Settled ==
    /\ ~Idle /\ deploy'.phase \in {"cleaning", "ended"}
    /\ deploy'.worker = deploy.worker /\ deploy'.version = deploy.version
    /\ deploy'.failed = deploy.failed /\ deploy'.previous = deploy.previous
    /\ deploy'.seen = deploy.seen /\ deploy'.restore = deploy.restore
    /\ deploy'.attempted = deploy.attempted /\ deploy'.created = deploy.created
    /\ deploy'.moved = deploy.moved /\ deploy'.cut = deploy.cut
    /\ schema' = schema
    /\ \A s \in Services :
          /\ cloud'[s].want = cloud[s].want /\ cloud'[s].serving = cloud[s].serving
          /\ cloud'[s].made = cloud[s].made

LEMMA SettledKeeps ==
  ASSUME ScriptInv, Settled
  PROVE  /\ Part' = Part /\ Part \subseteq Services
         /\ OnPlan' /\ OnWayBack' /\ AtRest' /\ TakesPart' /\ VersionsNear' /\ Captured'
         /\ MovedSeen' /\ Promoted' /\ WentBack' /\ Ordered' /\ WorkerHolds' /\ Made' /\ Migrates'
PROOF
<1>1. /\ ~Idle /\ deploy'.phase \in {"cleaning", "ended"}
      /\ deploy'.worker = deploy.worker /\ deploy'.version = deploy.version
      /\ deploy'.failed = deploy.failed /\ deploy'.previous = deploy.previous
      /\ deploy'.restore = deploy.restore
      /\ deploy'.attempted = deploy.attempted /\ deploy'.created = deploy.created
      /\ deploy'.moved = deploy.moved
      /\ schema' = schema
  BY DEF Settled
<1>2. \A s \in Services :
         /\ cloud'[s].want = cloud[s].want /\ cloud'[s].serving = cloud[s].serving
         /\ cloud'[s].made = cloud[s].made
  BY DEF Settled
<1>3. ~Idle' /\ ~Running' /\ ~Forward' /\ ~Backward'
  BY <1>1 DEF Idle, Running, Forward, Backward
<1>4. Part' = Part /\ Part \subseteq Services /\ "api" \in Services /\ "worker" \in Services
  BY <1>1 DEF Part, Services
<1>5. OnPlan' /\ OnWayBack' /\ AtRest' /\ Promoted' /\ WentBack' /\ WorkerHolds'
  BY <1>3 DEF OnPlan, OnWayBack, AtRest, Promoted, WentBack, WorkerHolds
<1>6. /\ TakesPart /\ VersionsNear /\ Captured /\ MovedSeen /\ Ordered /\ Made /\ Migrates
  BY DEF ScriptInv, Traffic
<1>7. TakesPart'
  BY <1>1, <1>3, <1>4, <1>6 DEF TakesPart
<1>8. VersionsNear'
  <2>1. ASSUME NEW s \in Part  PROVE Near(s)'
    BY <1>1, <1>2, <1>4, <1>6, <2>1 DEF VersionsNear, Near
  <2> QED  BY <1>4, <2>1 DEF VersionsNear
<1>9. Captured' /\ MovedSeen'
  BY <1>1, <1>2, <1>3, <1>4, <1>6 DEF Captured, MovedSeen, Lower
<1>10. Ordered'
  BY <1>1, <1>2, <1>4, <1>6 DEF Ordered, OnNew
<1>11. Made' /\ Migrates'
  BY <1>1, <1>2, <1>3, <1>4, <1>6 DEF Made, Migrates
<1> QED  BY <1>4, <1>5, <1>7, <1>8, <1>9, <1>10, <1>11

LEMMA FinallyKeeps ==
  ASSUME ScriptInv, Finally
  PROVE  ScriptInv'
PROOF
<1> DEFINE calls == Cleaning(deploy)
           cleanup == IF deploy.created = {} THEN "not needed" ELSE deploy.cleanup
<1>1. /\ Running /\ deploy.calls = <<>> /\ cloud' = cloud /\ schema' = schema
      /\ ScriptTypes /\ Promoted /\ WentBack /\ Restored /\ Tags /\ TakesPart
  BY DEF Finally, ScriptInv, Traffic
<1>2. /\ deploy \in DeployType /\ cloud \in CloudType /\ schema \in Int
      /\ deploy.created \subseteq Services /\ deploy.cut \in BOOLEAN /\ deploy.failed \in BOOLEAN
      /\ \A s \in Services : deploy.restore[s] \in {"not attempted", "restored", "failed"}
  BY <1>1, TypeFacts
<1>3. /\ calls \in CallSeqs
      /\ \A i \in 1..Len(calls) : calls[i].do = "untag" /\ calls[i].on \in Services
      /\ \A s \in deploy.created : \E i \in 1..Len(calls) : calls[i].on = s
  <2>1. deploy.created \subseteq Services /\ calls = Cleaning(deploy)
    BY <1>2
  <2> HIDE DEF calls
  <2>2. /\ calls \in Seq(CallType)
        /\ \A i \in 1..Len(calls) : calls[i].do = "untag" /\ calls[i].on \in Services
        /\ \A s \in deploy.created : \E i \in 1..Len(calls) : calls[i].on = s
    BY <2>1, CleaningFacts
  <2> QED  BY <2>2 DEF CallSeqs
<1>4. deploy' = [deploy EXCEPT !.phase = "cleaning", !.calls = calls, !.cleanup = cleanup]
  BY <1>2 DEF Finally, DeployType
<1>5. cleanup \in Notes
  <2>1. deploy.cleanup \in Notes
    BY <1>2 DEF DeployType
  <2> QED  BY <2>1 DEF Notes
<1> HIDE DEF calls, cleanup
<1>6. /\ deploy' \in DeployType /\ deploy'.phase = "cleaning" /\ deploy'.calls = calls
      /\ deploy'.worker = deploy.worker /\ deploy'.version = deploy.version
      /\ deploy'.failed = deploy.failed /\ deploy'.previous = deploy.previous
      /\ deploy'.seen = deploy.seen /\ deploy'.restore = deploy.restore
      /\ deploy'.attempted = deploy.attempted /\ deploy'.created = deploy.created
      /\ deploy'.moved = deploy.moved /\ deploy'.cut = deploy.cut
  <2>1. "cleaning" \in Phases
    BY DEF Phases
  <2> QED  BY <1>2, <1>3, <1>4, <1>5, <2>1 DEF DeployType
<1>7. Settled
  BY <1>1, <1>6 DEF Settled, Running, Idle
<1>8. /\ Part' = Part /\ Part \subseteq Services
      /\ OnPlan' /\ OnWayBack' /\ AtRest' /\ TakesPart' /\ VersionsNear' /\ Captured'
      /\ MovedSeen' /\ Promoted' /\ WentBack' /\ Ordered' /\ WorkerHolds' /\ Made' /\ Migrates'
  BY <1>7, SettledKeeps
<1>9. ScriptTypes'
  BY <1>1, <1>2, <1>6 DEF ScriptTypes
<1>10. OnlyUntags' /\ NothingLeft'
  BY <1>3, <1>6 DEF OnlyUntags, NothingLeft, Left, Idle, Running
<1>11. Restored'
  BY <1>1, <1>6 DEF Restored, OnPrevious
<1>12. Left = 0
  BY <1>1 DEF Left
<1>13. Outcome'
  <2>1. ASSUME NEW s \in Part, ~deploy.cut, deploy.failed, s \in deploy.attempted
        PROVE  \/ deploy.restore[s] = "failed"
               \/ deploy.restore[s] = "restored" /\ cloud[s].want = deploy.previous[s]
    <3>1. LeftBack(s) <= 1 /\ LeftBack(s) <= 0
      BY <1>12 DEF LeftBack
    <3>2. Backward
      BY <1>1, <2>1 DEF Backward
    <3>3. deploy.restore[s] # "not attempted" /\ (deploy.restore[s] = "failed" \/ OnPrevious(s))
      BY <1>1, <2>1, <3>1, <3>2 DEF WentBack, BackOnPrevious
    <3> QED  BY <1>2, <1>8, <3>3 DEF OnPrevious
  <2>2. ASSUME NEW s \in Part, ~deploy.cut, ~deploy.failed
        PROVE  deploy.seen[s] = deploy.version /\ cloud[s].want = deploy.version
    <3>1. LeftOf(s) <= 1
      BY <1>12 DEF LeftOf
    <3>2. Forward
      BY <1>1, <2>2 DEF Forward
    <3> QED  BY <1>1, <3>1, <3>2 DEF Promoted, OnNew
  <2> QED  BY <1>1, <1>6, <1>8, <2>1, <2>2 DEF Outcome
<1>14. Tags'
  <2>1. \A s \in Services : cloud[s].tagged => \E i \in 1..Left' : deploy'.calls[i].on = s
    BY <1>1, <1>3, <1>6 DEF Tags, Left
  <2> QED  BY <1>1, <1>6, <2>1 DEF Tags, Running
<1> QED
  BY <1>8, <1>9, <1>10, <1>11, <1>13, <1>14 DEF ScriptInv, Course, Traffic

LEMMA SummarizeKeeps ==
  ASSUME ScriptInv, Summarize
  PROVE  ScriptInv'
PROOF
<1>1. /\ deploy.phase = "cleaning" /\ deploy.calls = <<>> /\ cloud' = cloud /\ schema' = schema
      /\ ScriptTypes /\ Outcome /\ Tags
  BY DEF Summarize, ScriptInv, Traffic
<1>2. deploy \in DeployType
  BY <1>1 DEF ScriptTypes
<1>3. /\ deploy' \in DeployType /\ deploy'.phase = "ended" /\ deploy'.calls = <<>>
      /\ deploy'.cleanup = deploy.cleanup
      /\ deploy'.worker = deploy.worker /\ deploy'.version = deploy.version
      /\ deploy'.failed = deploy.failed /\ deploy'.previous = deploy.previous
      /\ deploy'.seen = deploy.seen /\ deploy'.restore = deploy.restore
      /\ deploy'.attempted = deploy.attempted /\ deploy'.created = deploy.created
      /\ deploy'.moved = deploy.moved /\ deploy'.cut = deploy.cut
  <2>1. "ended" \in Phases /\ deploy' = [deploy EXCEPT !.phase = "ended"]
    BY DEF Phases, Summarize
  <2> QED  BY <1>1, <1>2, <2>1 DEF DeployType
<1>4. Settled
  BY <1>1, <1>3 DEF Settled, Idle
<1>5. /\ Part' = Part /\ Part \subseteq Services
      /\ OnPlan' /\ OnWayBack' /\ AtRest' /\ TakesPart' /\ VersionsNear' /\ Captured'
      /\ MovedSeen' /\ Promoted' /\ WentBack' /\ Ordered' /\ WorkerHolds' /\ Made' /\ Migrates'
  BY <1>4, SettledKeeps
<1>6. ScriptTypes'
  BY <1>1, <1>3 DEF ScriptTypes
<1>7. OnlyUntags' /\ NothingLeft' /\ Restored'
  BY <1>3 DEF OnlyUntags, NothingLeft, Restored, Running
<1>8. Outcome'
  BY <1>1, <1>3, <1>5 DEF Outcome
<1>9. Tags'
  <2>1. Left = 0 /\ \A i \in 1..0 : FALSE
    BY <1>1 DEF Left
  <2>2. \A s \in Services : cloud[s].tagged => deploy.cleanup = "failed"
    BY <1>1, <2>1 DEF Tags
  <2> QED  BY <1>1, <1>3, <2>2 DEF Tags, Running
<1> QED  BY <1>5, <1>6, <1>7, <1>8, <1>9 DEF ScriptInv, Course, Traffic

(* A tag is removed, or its removal fails.                                 *)
Cleaned ==
    /\ Settled /\ deploy'.phase = "cleaning" /\ deploy'.calls = Tail(deploy.calls)
    /\ \A s \in Services : cloud'[s].tagged => cloud[s].tagged
    /\ \/ deploy'.cleanup = "failed"
       \/ deploy'.cleanup = deploy.cleanup /\ ~cloud'[Call.on].tagged

LEMMA CleanedKeeps ==
  ASSUME ScriptInv, deploy.phase = "cleaning", deploy.calls # <<>>, ScriptTypes', Cleaned
  PROVE  ScriptInv'
PROOF
<1>1. /\ Settled /\ deploy'.phase = "cleaning" /\ deploy'.calls = Tail(deploy.calls)
      /\ \A s \in Services : cloud'[s].tagged => cloud[s].tagged
      /\ \/ deploy'.cleanup = "failed"
         \/ deploy'.cleanup = deploy.cleanup /\ ~cloud'[Call.on].tagged
  BY DEF Cleaned
<1>2. /\ deploy'.failed = deploy.failed /\ deploy'.previous = deploy.previous
      /\ deploy'.version = deploy.version
      /\ deploy'.seen = deploy.seen /\ deploy'.restore = deploy.restore
      /\ deploy'.attempted = deploy.attempted /\ deploy'.cut = deploy.cut
      /\ \A s \in Services :
            cloud'[s].want = cloud[s].want /\ cloud'[s].serving = cloud[s].serving
  BY <1>1 DEF Settled
<1>3. /\ Part' = Part /\ Part \subseteq Services
      /\ OnPlan' /\ OnWayBack' /\ AtRest' /\ TakesPart' /\ VersionsNear' /\ Captured'
      /\ MovedSeen' /\ Promoted' /\ WentBack' /\ Ordered' /\ WorkerHolds' /\ Made' /\ Migrates'
  BY <1>1, SettledKeeps
<1>4. ScriptTypes /\ OnlyUntags /\ Restored /\ Outcome /\ Tags
  BY DEF ScriptInv, Course, Traffic
<1>5. /\ Left \in Nat /\ Left >= 1 /\ Left' = Left - 1
      /\ \A i \in 1..Left' : deploy'.calls[i] = deploy.calls[i + 1]
  <2>1. deploy.calls \in Seq(CallType)
    BY <1>4, TypeFacts
  <2>2. /\ Len(deploy.calls) \in Nat /\ Len(deploy.calls) >= 1
        /\ Len(Tail(deploy.calls)) = Len(deploy.calls) - 1
        /\ \A i \in 1..Len(Tail(deploy.calls)) : Tail(deploy.calls)[i] = deploy.calls[i + 1]
    BY <2>1, TailFacts
  <2> QED  BY <1>1, <2>2 DEF Left
<1>6. OnlyUntags'
  <2>1. ASSUME NEW i \in 1..Left'
        PROVE  deploy'.calls[i].do = "untag" /\ deploy'.calls[i].on \in Services
    <3>1. i + 1 \in 1..Left
      BY <1>5
    <3> QED  BY <1>4, <1>5, <3>1 DEF OnlyUntags
  <2> QED  BY <2>1 DEF OnlyUntags
<1>7. NothingLeft'
  BY <1>1 DEF NothingLeft, Idle, Running
<1>8. Restored'
  BY <1>2, <1>4 DEF Restored, OnPrevious
<1>9. Outcome'
  BY <1>1, <1>2, <1>3, <1>4 DEF Outcome
<1>10. Tags'
  <2>1. ASSUME NEW s \in Services, cloud'[s].tagged
        PROVE  deploy'.cleanup = "failed" \/ \E i \in 1..Left' : deploy'.calls[i].on = s
    <3>1. deploy.cleanup = "failed" \/ \E i \in 1..Left : deploy.calls[i].on = s
      BY <1>1, <1>4, <2>1 DEF Tags
    <3>2. CASE deploy.cleanup = "failed"
      BY <1>1, <3>2
    <3>3. ASSUME NEW i \in 1..Left, deploy.calls[i].on = s
          PROVE  deploy'.cleanup = "failed" \/ \E j \in 1..Left' : deploy'.calls[j].on = s
      <4>1. CASE i = 1
        BY <1>1, <2>1, <3>3, <4>1 DEF Call
      <4>2. CASE i # 1
        <5>1. i - 1 \in 1..Left' /\ (i - 1) + 1 = i
          BY <1>5, <4>2
        <5>2. deploy'.calls[i - 1] = deploy.calls[i]
          BY <1>5, <5>1
        <5> QED  BY <3>3, <5>1, <5>2
      <4> QED  BY <4>1, <4>2
    <3> QED  BY <3>1, <3>2, <3>3
  <2> QED  BY <1>1, <2>1 DEF Tags, Running
<1> QED  BY <1>3, <1>6, <1>7, <1>8, <1>9, <1>10 DEF ScriptInv, Course, Traffic

LEMMA CallCleans ==
  ASSUME ScriptInv, deploy.phase = "cleaning", Returns \/ Fails
  PROVE  ScriptTypes' /\ Cleaned
PROOF
<1>1. ScriptTypes /\ deploy.calls # <<>> /\ OnlyUntags
  BY DEF ScriptInv, Course, Returns, Fails
<1>2. /\ deploy \in DeployType /\ cloud \in CloudType /\ schema \in Int
      /\ deploy.calls \in Seq(CallType)
  BY <1>1, TypeFacts
<1>3. /\ Call \in CallType /\ Call.do = "untag" /\ Call.on \in Services
      /\ Tail(deploy.calls) \in CallSeqs
  <2>1. /\ deploy.calls[1] \in CallType /\ Len(deploy.calls) \in Nat /\ Len(deploy.calls) >= 1
        /\ Tail(deploy.calls) \in Seq(CallType)
    BY <1>1, <1>2, TailFacts
  <2>2. 1 \in 1..Left
    BY <2>1 DEF Left
  <2> QED  BY <1>1, <2>1, <2>2 DEF OnlyUntags, Call, CallSeqs
<1>4. ASSUME NEW image \in {"released", "other"}, NEW waited \in BOOLEAN,
             cloud' = Effect(Call, image, waited)
      PROVE  /\ cloud' \in CloudType
             /\ \A s \in Services :
                   /\ cloud'[s].want = cloud[s].want /\ cloud'[s].serving = cloud[s].serving
                   /\ cloud'[s].made = cloud[s].made
                   /\ cloud'[s].tagged = IF s = Call.on THEN FALSE ELSE cloud[s].tagged
  <2>1. cloud' \in CloudType /\ Changed(cloud', Call, image, waited)
    BY <1>1, <1>3, <1>4, EffectFacts
  <2> QED  BY <1>3, <2>1 DEF Changed
<1>5. CASE Returns
  <2>1. PICK image \in {"released", "other"}, waited \in BOOLEAN :
           /\ cloud' = Effect(Call, image, waited)
           /\ schema' = IF Call.do = "migrate" /\ image = "released" THEN Migrated ELSE schema
           /\ deploy' = IF Call.on = "job"
                        THEN Judged(Call, deploy, Unknown, image)
                        ELSE Judged(Call, Begun(Call, deploy), cloud'[Call.on].serving,
                                    cloud[Call.on].made)
    BY <1>5 DEF Returns
  <2>2. Call.on # "job" /\ Begun(Call, deploy) = deploy
    BY <1>3 DEF Services, Begun
  <2>3. deploy' = [deploy EXCEPT !.calls = Tail(@)]
    BY <1>3, <2>1, <2>2 DEF Judged
  <2>4. /\ deploy' \in DeployType /\ Alike(deploy, deploy')
        /\ deploy'.failed = deploy.failed /\ deploy'.previous = deploy.previous
        /\ deploy'.seen = deploy.seen /\ deploy'.restore = deploy.restore
        /\ deploy'.cleanup = deploy.cleanup /\ deploy'.calls = Tail(deploy.calls)
        /\ deploy'.attempted = deploy.attempted /\ deploy'.created = deploy.created
    BY <1>1, <1>2, <2>3, NextFacts
  <2>5. /\ cloud' \in CloudType
        /\ \A s \in Services :
              /\ cloud'[s].want = cloud[s].want /\ cloud'[s].serving = cloud[s].serving
              /\ cloud'[s].made = cloud[s].made
              /\ cloud'[s].tagged = IF s = Call.on THEN FALSE ELSE cloud[s].tagged
    BY <1>4, <2>1
  <2>6. schema' = schema
    BY <1>3, <2>1
  <2>7. Settled
    BY <2>4, <2>5, <2>6 DEF Settled, Alike, Idle
  <2>8. Cleaned
    BY <1>3, <2>4, <2>5, <2>7 DEF Cleaned, Alike
  <2> QED  BY <1>2, <2>4, <2>5, <2>6, <2>8 DEF ScriptTypes
<1>6. CASE Fails
  <2>1. /\ cloud' = cloud \/ cloud' = Effect(Call, "released", FALSE)
        /\ schema' = schema
        /\ deploy' = [deploy EXCEPT !.cleanup = "failed", !.calls = Tail(@)]
    BY <1>3, <1>6 DEF Fails, Running
  <2>2. /\ cloud' \in CloudType
        /\ \A s \in Services :
              /\ cloud'[s].want = cloud[s].want /\ cloud'[s].serving = cloud[s].serving
              /\ cloud'[s].made = cloud[s].made
              /\ cloud'[s].tagged => cloud[s].tagged
    <3>1. CASE cloud' = cloud
      BY <1>2, <3>1
    <3>2. CASE cloud' = Effect(Call, "released", FALSE)
      BY <1>4, <3>2
    <3> QED  BY <2>1, <3>1, <3>2
  <2>3. /\ deploy' \in DeployType /\ Alike(deploy, deploy')
        /\ deploy'.failed = deploy.failed /\ deploy'.previous = deploy.previous
        /\ deploy'.seen = deploy.seen /\ deploy'.restore = deploy.restore
        /\ deploy'.cleanup = "failed" /\ deploy'.calls = Tail(deploy.calls)
        /\ deploy'.attempted = deploy.attempted /\ deploy'.created = deploy.created
    <3> DEFINE t == Tail(deploy.calls)
    <3>1. t \in CallSeqs
      BY <1>3
    <3>2. deploy' = [deploy EXCEPT !.cleanup = "failed", !.calls = t]
      BY <1>2, <2>1 DEF DeployType
    <3>3. "failed" \in Notes
      BY DEF Notes
    <3> HIDE DEF t
    <3>4. /\ deploy' \in DeployType /\ Alike(deploy, deploy')
          /\ deploy'.failed = deploy.failed /\ deploy'.previous = deploy.previous
          /\ deploy'.seen = deploy.seen /\ deploy'.restore = deploy.restore
          /\ deploy'.cleanup = "failed" /\ deploy'.calls = t
          /\ deploy'.attempted = deploy.attempted /\ deploy'.created = deploy.created
      BY <1>2, <3>1, <3>2, <3>3 DEF DeployType, Alike
    <3> QED  BY <3>4 DEF t
  <2>4. Settled
    BY <2>1, <2>2, <2>3 DEF Settled, Alike, Idle
  <2>5. Cleaned
    BY <2>2, <2>3, <2>4 DEF Cleaned, Alike
  <2> QED  BY <1>2, <2>1, <2>2, <2>3, <2>5 DEF ScriptTypes
<1> QED  BY <1>5, <1>6

-----------------------------------------------------------------------------
(* The steps of the script.                                                *)
LEMMA CallTurns ==
  ASSUME ScriptInv, deploy.calls # <<>>, Running
  PROVE  /\ Forward \/ Backward
         /\ Call \in CallType /\ Call.do # "untag"
         /\ Call.on = "job" => Call.do \in {"update", "migrate"}
         /\ Backward => Call.do \in BackVerbs /\ Call.on \in Services
PROOF
<1>1. ScriptTypes /\ OnPlan /\ OnWayBack /\ NothingLeft /\ TakesPart
  BY DEF ScriptInv, Course, Traffic
<1>2. Forward \/ Backward
  <2>1. deploy.failed \in BOOLEAN /\ deploy.cut \in BOOLEAN
    BY <1>1, TypeFacts
  <2> QED  BY <1>1, <2>1 DEF NothingLeft, Forward, Backward
<1>3. CASE Forward
  <2>1. /\ Call \in CallType /\ Call.do \in ForwardVerbs
        /\ Call.on = "job" <=> Call.do \in {"update", "migrate"}
    BY <1>1, <1>3, ForwardCall
  <2> QED  BY <1>2, <1>3, <2>1 DEF ForwardVerbs, Forward, Backward
<1>4. CASE Backward
  <2>1. Call \in CallType /\ Call.do \in BackVerbs /\ Call.on \in deploy.attempted
    BY <1>1, <1>4, BackwardCall DEF TakesPart
  <2>2. Call.on \in Services /\ "job" \notin Services
    BY <1>1, <2>1 DEF TakesPart, Part, Services
  <2> QED  BY <1>2, <2>1, <2>2 DEF BackVerbs
<1> QED  BY <1>2, <1>3, <1>4

LEMMA InterruptedFacts ==
  ASSUME ScriptInv, Interrupted
  PROVE  /\ deploy.calls # <<>> /\ ScriptTypes'
         /\ (Forward /\ CutForward) \/ (Backward /\ CutBack)
PROOF
<1> DEFINE x == Begun(Call, deploy)
<1>1. /\ ScriptTypes /\ Running /\ deploy.calls # <<>>
      /\ cloud' = cloud \/ cloud' = Effect(Call, "released", FALSE)
      /\ schema' = schema \/ schema' = IF Call.do = "migrate" THEN Migrated ELSE schema
      /\ deploy' = [x EXCEPT !.calls = <<>>, !.cut = TRUE]
  BY DEF Interrupted, ScriptInv
<1>2. /\ deploy \in DeployType /\ cloud \in CloudType /\ schema \in Int
  BY <1>1 DEF ScriptTypes
<1>3. /\ Forward \/ Backward
      /\ Call \in CallType /\ Call.do # "untag"
      /\ Call.on = "job" => Call.do \in {"update", "migrate"}
      /\ Backward => Call.do \in BackVerbs /\ Call.on \in Services
  BY <1>1, CallTurns
<1>4. cloud' \in CloudType /\ (cloud' = cloud \/ Changed(cloud', Call, "released", FALSE))
  <2>1. CASE cloud' = cloud
    BY <1>2, <2>1
  <2>2. CASE cloud' = Effect(Call, "released", FALSE)
    <3>1. Call.do \in {"deploy", "promote", "restore", "untag"} => Call.on \in Services
      BY <1>3 DEF CallType, Services
    <3> QED  BY <1>1, <1>3, <2>2, <3>1, EffectFacts
  <2> QED  BY <1>1, <2>1, <2>2
<1>5. schema' \in Int /\ (schema' = schema \/ (Call.do = "migrate" /\ schema' = Migrated))
  BY <1>1, <1>2, MigratedFacts
<1>6. /\ x \in DeployType /\ Alike(deploy, x)
      /\ x.failed = deploy.failed /\ x.previous = deploy.previous /\ x.seen = deploy.seen
      /\ x.restore = deploy.restore
      /\ x.attempted = IF Call.do = "promote" THEN deploy.attempted \cup {Call.on}
                       ELSE deploy.attempted
      /\ x.created = IF Call.do = "deploy" THEN deploy.created \cup {Call.on}
                     ELSE deploy.created
  <2>1. CASE Call.on \in Services
    <3>1. x = Begun(Call, deploy)
      OBVIOUS
    <3> HIDE DEF x
    <3> QED  BY <1>2, <1>3, <2>1, <3>1, BegunFacts
  <2>2. CASE Call.on \notin Services
    <3>1. Call.do \in {"update", "migrate"}
      BY <1>3, <2>2 DEF CallType
    <3>2. x = deploy
      BY <3>1 DEF Begun
    <3> HIDE DEF x
    <3> QED  BY <1>2, <3>1, <3>2 DEF Alike
  <2> QED  BY <2>1, <2>2
<1> HIDE DEF x
<1>7. <<>> \in CallSeqs
  BY DEF CallSeqs
<1>8. /\ deploy' \in DeployType /\ deploy'.phase = x.phase /\ deploy'.worker = x.worker
      /\ deploy'.version = x.version /\ deploy'.moved = x.moved
      /\ deploy'.failed = x.failed /\ deploy'.previous = x.previous /\ deploy'.seen = x.seen
      /\ deploy'.restore = x.restore /\ deploy'.attempted = x.attempted
      /\ deploy'.created = x.created /\ deploy'.cut = TRUE /\ deploy'.calls = <<>>
  BY <1>1, <1>6, <1>7 DEF DeployType
<1>9. ScriptTypes'
  BY <1>4, <1>5, <1>8 DEF ScriptTypes
<1>10. CASE Forward
  <2>1. CutForward
    BY <1>4, <1>5, <1>6, <1>8 DEF CutForward, Noted, Alike
  <2> QED  BY <1>1, <1>9, <1>10, <2>1
<1>11. CASE Backward
  <2>1. /\ deploy.failed = TRUE /\ Call.do \in BackVerbs
        /\ Call.do \notin {"promote", "deploy", "migrate"}
    BY <1>2, <1>3, <1>11 DEF Backward, BackVerbs, DeployType
  <2>2. \A s \in Services :
           /\ cloud'[s].made = cloud[s].made /\ cloud'[s].tagged = cloud[s].tagged
           /\ s # Call.on =>
                 cloud'[s].want = cloud[s].want /\ cloud'[s].serving = cloud[s].serving
           /\ s = Call.on =>
                 /\ cloud'[s].want \in {cloud[s].want, deploy.previous[s]}
                 /\ cloud'[s].serving \in {cloud[s].serving, deploy.previous[s]}
    <3>1. CASE cloud' = cloud
      BY <3>1
    <3>2. CASE Changed(cloud', Call, "released", FALSE)
      BY <1>1, <2>1, <3>2, BackEffect
    <3> QED  BY <1>4, <3>1, <3>2
  <2>3. Turned
    BY <1>5, <1>6, <1>8, <2>1, <2>2 DEF Turned, Alike
  <2>4. CutBack
    BY <1>6, <1>8, <2>3 DEF CutBack
  <2> QED  BY <1>1, <1>9, <1>11, <2>4
<1> QED  BY <1>3, <1>10, <1>11

LEMMA InterruptedKeeps ==
  ASSUME ScriptInv, Interrupted
  PROVE  ScriptInv'
BY InterruptedFacts, CutForwardKeeps, CutBackKeeps

(* A call returns, or raises.                                              *)
LEMMA CallKeeps ==
  ASSUME ScriptInv, Returns \/ Fails
  PROVE  ScriptInv'
PROOF
<1>1. /\ ScriptTypes /\ NothingLeft /\ deploy.calls # <<>>
  BY DEF ScriptInv, Course, Returns, Fails
<1>2. deploy.phase \in Phases
  BY <1>1, TypeFacts
<1>3. Running \/ deploy.phase = "cleaning"
  BY <1>1, <1>2 DEF NothingLeft, Phases, Running, Idle
<1>4. CASE deploy.phase = "cleaning"
  BY <1>1, <1>4, CallCleans, CleanedKeeps
<1>5. CASE Running
  <2>1. Forward \/ Backward
    BY <1>1, <1>5, CallTurns
  <2>2. ASSUME Forward, Returns  PROVE ScriptInv'
    <3>1. /\ ScriptTypes'
          /\ \/ Raised
             \/ \E image \in {"released", "other"}, waited \in BOOLEAN : Passed(image, waited)
      BY <2>2, ReturnsForward
    <3>2. CASE Raised
      BY <1>1, <2>2, <3>1, <3>2, RaisedKeeps
    <3>3. ASSUME NEW image \in {"released", "other"}, NEW waited \in BOOLEAN,
                 Passed(image, waited)
          PROVE  ScriptInv'
      BY <1>1, <2>2, <3>1, <3>3, PassedKeeps
    <3> QED  BY <3>1, <3>2, <3>3
  <2>3. ASSUME Forward, Fails  PROVE ScriptInv'
    BY <1>1, <2>3, FailsForward, RaisedKeeps
  <2>4. ASSUME Backward, Returns  PROVE ScriptInv'
    BY <1>1, <2>4, ReturnsBackward, WentOnKeeps, GaveUpKeeps
  <2>5. ASSUME Backward, Fails  PROVE ScriptInv'
    BY <1>1, <2>5, FailsBackward, GaveUpKeeps
  <2> QED  BY <2>1, <2>2, <2>3, <2>4, <2>5
<1> QED  BY <1>3, <1>4, <1>5

(* Traffic arrives.                                                        *)
LEMMA ArrivesKeeps ==
  ASSUME ScriptInv, Arrives
  PROVE  ScriptInv'
PROOF
<1>1. /\ ScriptTypes /\ Course /\ Traffic
      /\ deploy' = deploy /\ schema' = schema
  BY DEF Arrives, ScriptInv
<1>2. PICK r \in Services :
         /\ cloud[r].serving # cloud[r].want
         /\ cloud' = [cloud EXCEPT ![r].serving = cloud[r].want]
  BY DEF Arrives
<1>3. cloud \in CloudType /\ cloud[r] \in ServiceType /\ cloud[r].want \in Int
  BY <1>1 DEF ScriptTypes, CloudType, ServiceType
<1>4. /\ cloud' \in CloudType
      /\ \A s \in Services :
            /\ cloud'[s].want = cloud[s].want
            /\ cloud'[s].serving = IF s = r THEN cloud[s].want ELSE cloud[s].serving
            /\ cloud'[s].made = cloud[s].made /\ cloud'[s].tagged = cloud[s].tagged
  <2> DEFINE n == [cloud[r] EXCEPT !.serving = cloud[r].want]
  <2>1. cloud' = [cloud EXCEPT ![r] = n]
    BY <1>2, <1>3 DEF CloudType
  <2>2. /\ n \in ServiceType /\ n.want = cloud[r].want /\ n.serving = cloud[r].want
        /\ n.made = cloud[r].made /\ n.tagged = cloud[r].tagged
    BY <1>3 DEF ServiceType
  <2> HIDE DEF n
  <2>3. cloud' \in CloudType /\ cloud'[r] = n /\ \A s \in Services \ {r} : cloud'[s] = cloud[s]
    BY <1>3, <2>1, <2>2 DEF CloudType
  <2> QED  BY <2>2, <2>3
<1>5. ~Idle
  BY <1>1, <1>2 DEF Traffic, AtRest
<1>6. /\ (Idle' <=> Idle) /\ (Running' <=> Running) /\ (Forward' <=> Forward)
      /\ (Backward' <=> Backward) /\ Left' = Left /\ Part' = Part /\ Part \subseteq Services
      /\ "api" \in Services /\ "worker" \in Services /\ "api" \in Part
  BY <1>1 DEF Idle, Running, Forward, Backward, Left, Part, Services
<1>7. ScriptTypes' /\ Course'
  BY <1>1, <1>4, <1>6 DEF ScriptTypes, Course, OnPlan, OnWayBack, OnlyUntags, NothingLeft
<1>8. \A s \in Services : /\ OnNew(s) => OnNew(s)'
                          /\ OnPrevious(s) => OnPrevious(s)'
                          /\ BackOnPrevious(s) => BackOnPrevious(s)'
                          /\ ToPrevious(s) => ToPrevious(s)'
                          /\ Stays(s) => Stays(s)'
  BY <1>1, <1>4 DEF OnNew, OnPrevious, BackOnPrevious, ToPrevious, Stays
<1>9. \A s \in Services : LeftOf(s)' = LeftOf(s) /\ LeftBack(s)' = LeftBack(s)
  BY <1>1, <1>6 DEF LeftOf, LeftBack
<1>10. AtRest' /\ TakesPart' /\ Captured'
  BY <1>1, <1>5, <1>6, <1>9 DEF Traffic, AtRest, TakesPart, Captured
<1>11. VersionsNear'
  <2>1. ASSUME NEW s \in Part  PROVE Near(s)'
    <3>1. Near(s) /\ s \in Services
      BY <1>1, <1>5, <1>6 DEF Traffic, VersionsNear
    <3>2. /\ cloud'[s].want = cloud[s].want
          /\ cloud'[s].serving = cloud[s].want \/ cloud'[s].serving = cloud[s].serving
      BY <1>4, <3>1
    <3> QED  BY <1>1, <3>1, <3>2 DEF Near
  <2> QED  BY <1>6, <2>1 DEF VersionsNear
<1>12. MovedSeen'
  <2>1. Lower => Lower'
    BY <1>1, <1>4, <1>6 DEF Lower
  <2> QED  BY <1>1, <1>6, <2>1 DEF Traffic, MovedSeen
<1>13. Promoted' /\ WentBack'
  <2>1. ASSUME Forward, NEW s \in Part
        PROVE  /\ LeftOf(s) >= 3 => s \notin deploy.attempted
               /\ LeftOf(s) <= 2 => s \in deploy.attempted /\ Stays(s)'
               /\ LeftOf(s) <= 1 => deploy.seen[s] = deploy.version /\ OnNew(s)'
               /\ deploy.restore[s] = "not attempted"
    BY <1>1, <1>6, <1>8, <2>1 DEF Traffic, Promoted
  <2>2. ASSUME Backward, NEW s \in deploy.attempted
        PROVE  /\ LeftBack(s) >= 1 => deploy.restore[s] = "not attempted"
               /\ LeftBack(s) <= 2 => deploy.restore[s] = "failed" \/ ToPrevious(s)'
               /\ LeftBack(s) <= 1 => deploy.restore[s] = "failed" \/ BackOnPrevious(s)'
               /\ LeftBack(s) <= 0 => deploy.restore[s] # "not attempted"
    <3>1. s \in Services
      BY <1>1, <1>6 DEF Traffic, TakesPart
    <3> QED  BY <1>1, <1>8, <2>2, <3>1 DEF Traffic, WentBack
  <2>3. Promoted'
    BY <1>1, <1>6, <1>9, <2>1 DEF Promoted
  <2>4. \A s \in deploy.attempted : s \in Services
    BY <1>1, <1>6 DEF Traffic, TakesPart
  <2>5. WentBack'
    BY <1>1, <1>6, <1>9, <2>2, <2>4 DEF WentBack
  <2> QED  BY <2>3, <2>5
<1>14. Restored' /\ Outcome' /\ WorkerHolds'
  BY <1>1, <1>4, <1>6, <1>8 DEF Traffic, Restored, Outcome, WorkerHolds
<1>15. Ordered'
  <2>1. /\ cloud'["api"].want = cloud["api"].want
        /\ \/ cloud'["api"].serving = cloud["api"].want
           \/ cloud'["api"].serving = cloud["api"].serving
    BY <1>4, <1>6
  <2> QED  BY <1>1, <1>6, <1>8, <2>1 DEF Traffic, Ordered
<1>16. Made' /\ Migrates' /\ Tags'
  BY <1>1, <1>4, <1>6, <1>9 DEF Traffic, Made, Migrates, Tags
<1> QED
  BY <1>7, <1>10, <1>11, <1>12, <1>13, <1>14, <1>15, <1>16 DEF ScriptInv, Traffic

(* Traffic is moved by somebody else, before it is looked at or before its *)
(* promotion is verified.                                                  *)
LEMMA LookDue ==
  ASSUME NEW worker \in BOOLEAN, NEW n \in 1..Steps(worker), NEW s \in Services,
         Due(worker, n).do \in {"look", "verify"}, Due(worker, n).on = s
  PROVE  LET m == IF Due(worker, n).do = "look" THEN 5 ELSE 2
         IN  (s = "api" /\ n = m) \/ (s = "worker" /\ worker /\ n = m + 7)
PROOF
<1>1. n \in Int /\ n >= 1 /\ n <= 18 /\ (~worker => n <= 10)
  BY DEF Steps
<1>2. CASE n <= 7
  <2>1. /\ n \in 1..7 /\ Due(worker, n).do = RollFromEnd[n] /\ Due(worker, n).on = "api"
    BY <1>1, <1>2 DEF Due
  <2> QED  BY <2>1, VerbsFacts
<1>3. CASE n > 7 /\ n <= 14 /\ worker
  <2>1. n - 7 \in 1..7 /\ ~(n <= 7)
    BY <1>1, <1>3
  <2>2. Due(worker, n) = [do |-> RollFromEnd[n - 7], on |-> "worker"]
    BY <1>3, <2>1 DEF Due
  <2>3. CASE Due(worker, n).do = "look"
    <3>1. n - 7 = 5 /\ s = "worker"
      BY <2>1, <2>2, <2>3, VerbsFacts
    <3>2. n = 5 + 7
      BY <1>1, <3>1
    <3> QED  BY <1>3, <2>3, <3>1, <3>2
  <2>4. CASE Due(worker, n).do # "look"
    <3>1. n - 7 = 2 /\ s = "worker"
      BY <2>1, <2>2, <2>4, VerbsFacts
    <3>2. n = 2 + 7
      BY <1>1, <3>1
    <3> QED  BY <1>3, <2>4, <3>1, <3>2
  <2> QED  BY <2>3, <2>4
<1>4. CASE n > 7 /\ ~(n <= 14 /\ worker)
  BY <1>1, <1>4 DEF Due
<1> QED  BY <1>1, <1>2, <1>3, <1>4

LEMMA MeddlesKeeps ==
  ASSUME ScriptInv, Meddles
  PROVE  ScriptInv'
PROOF
<1>1. /\ ScriptTypes /\ Course /\ Traffic /\ Running /\ schema' = schema
  BY DEF Meddles, ScriptInv
<1>2. PICK r \in Services \ deploy.moved :
         /\ \/ ToCome("look", r)
            \/ ToCome("verify", r) /\ (ToCome("promote", r) => r = "worker")
         /\ cloud[r].serving > 0
         /\ cloud' = Told(r, cloud[r].serving - 1, TRUE)
         /\ deploy' = [deploy EXCEPT !.moved = @ \cup {r}]
  BY DEF Meddles
<1>3. /\ deploy \in DeployType /\ cloud \in CloudType /\ schema \in Int
      /\ deploy.calls \in Seq(CallType) /\ Left \in Nat /\ deploy.worker \in BOOLEAN
      /\ deploy.version \in Int
      /\ \A s \in Services : cloud[s].want \in Int /\ cloud[s].serving \in Int
  BY <1>1, TypeFacts
<1>4. PICK i \in 1..Left :
         /\ deploy.calls[i].do \in {"look", "verify"} /\ deploy.calls[i].on = r
         /\ deploy.calls[i].do = "verify" /\ r = "api" => ~ToCome("promote", r)
  <2>1. DOMAIN deploy.calls = 1..Left
    BY <1>3 DEF Left
  <2>2. PICK do \in {"look", "verify"} :
           ToCome(do, r) /\ (do = "verify" /\ r = "api" => ~ToCome("promote", r))
    BY <1>2
  <2>3. PICK i \in DOMAIN deploy.calls : deploy.calls[i] = [do |-> do, on |-> r]
    BY <2>2 DEF ToCome, Range
  <2> QED  BY <2>1, <2>2, <2>3
<1>5. Forward
  <2>1. deploy.calls # <<>>
    BY <1>3, <1>4 DEF Left
  <2>2. Forward \/ Backward
    BY <1>1, <2>1, CallTurns
  <2>3. ASSUME Backward  PROVE FALSE
    <3>1. /\ Left <= BackSteps(deploy.worker)
          /\ deploy.calls[i] = DueBack(deploy.worker, Left + 1 - i)
      BY <1>1, <1>4, <2>3 DEF Course, OnWayBack
    <3> DEFINE n == Left + 1 - i
    <3>2. n \in 1..6
      BY <1>3, <3>1 DEF BackSteps
    <3>3. (n <= 3 => n \in 1..3) /\ (~(n <= 3) => n - 3 \in 1..3)
      BY <3>2
    <3>4. DueBack(deploy.worker, n).do = GoBackFromEnd[IF n <= 3 THEN n ELSE n - 3]
      BY DEF DueBack
    <3> HIDE DEF n
    <3>5. GoBackFromEnd[IF n <= 3 THEN n ELSE n - 3] \notin {"look", "verify"}
      BY <3>3, VerbsFacts
    <3> QED  BY <1>4, <3>1, <3>4, <3>5 DEF n
  <2> QED  BY <2>2, <2>3
<1>6. \/ r = "api" /\ (Left >= 5 \/ Left = 2)
      \/ r = "worker" /\ deploy.worker /\ Left >= 9
  <2> DEFINE n == Left + 1 - i
  <2>1. /\ Left <= Steps(deploy.worker) /\ deploy.calls[i] = Due(deploy.worker, n)
        /\ \A j \in 1..Left : deploy.calls[j] = Due(deploy.worker, Left + 1 - j)
    BY <1>1, <1>5 DEF Course, OnPlan
  <2>2. n \in 1..Steps(deploy.worker) /\ Left >= n
    BY <1>3, <2>1 DEF Steps
  <2> HIDE DEF n
  <2> DEFINE m == IF Due(deploy.worker, n).do = "look" THEN 5 ELSE 2
  <2>3. (r = "api" /\ n = m) \/ (r = "worker" /\ deploy.worker /\ n = m + 7)
    BY <1>2, <1>3, <1>4, <2>1, <2>2, LookDue
  <2>4. ASSUME r = "api", m = 2, Left >= 3  PROVE FALSE
    <3>1. deploy.calls[i].do = "verify"
      BY <1>4, <2>1, <2>4
    <3>2. Left - 2 \in 1..Left /\ Left + 1 - (Left - 2) = 3
      BY <1>3, <2>4
    <3>3. deploy.calls[Left - 2] = Due(deploy.worker, 3)
      BY <2>1, <3>2
    <3>4. Due(deploy.worker, 3) = [do |-> "promote", on |-> "api"]
      BY DEF Due, RollFromEnd
    <3>5. DOMAIN deploy.calls = 1..Left
      BY <1>3 DEF Left
    <3>6. ToCome("promote", r)
      BY <2>4, <3>2, <3>3, <3>4, <3>5 DEF ToCome, Range
    <3> QED  BY <1>4, <2>4, <3>1, <3>6
  <2>5. m = 5 \/ m = 2
    OBVIOUS
  <2> HIDE DEF m
  <2> QED  BY <1>3, <2>2, <2>3, <2>4, <2>5
<1>7. /\ ~Idle /\ deploy.version >= 1 /\ Part \subseteq Services /\ "api" \in Part
      /\ "api" \in Services /\ "worker" \in Services
      /\ deploy.attempted \subseteq Part
      /\ LeftOf("api") = Left /\ LeftOf("worker") = Left - 7
      /\ \A s \in Part : Near(s) /\ (LeftOf(s) >= 3 => s \notin deploy.attempted)
                         /\ deploy.restore[s] = "not attempted"
  BY <1>1, <1>5, ForwardFacts DEF ScriptInv, Services
<1>8. r \in Part /\ LeftOf(r) \in Int /\ LeftOf(r) >= 2
  <2>1. CASE r = "api"
    <3>1. Left >= 2
      BY <1>3, <1>6, <2>1
    <3>2. LeftOf(r) = Left /\ r \in Part
      BY <1>7, <2>1
    <3> QED  BY <1>3, <3>1, <3>2
  <2>2. CASE r = "worker"
    <3>1. LeftOf(r) = Left - 7 /\ Left >= 9 /\ r \in Part
      BY <1>2, <1>6, <1>7, <2>2 DEF Part
    <3> QED  BY <1>3, <3>1
  <2> QED  BY <1>6, <2>1, <2>2
<1> DEFINE low == cloud[r].serving - 1
<1>9. /\ low \in Int /\ low >= deploy.version - 2 /\ low < deploy.version
      /\ r \notin deploy.attempted => low < deploy.version - 1
  <2>1. Near(r) /\ r \notin deploy.moved /\ r \in Services
    BY <1>2, <1>7, <1>8
  <2>2. /\ cloud[r].serving \in Int /\ cloud[r].serving <= deploy.version
        /\ cloud[r].serving >= deploy.version - 1
        /\ r \notin deploy.attempted => cloud[r].serving < deploy.version
    BY <1>3, <2>1 DEF Near
  <2> QED  BY <1>3, <2>2
<1>10. /\ cloud' \in CloudType
       /\ \A s \in Services :
             /\ cloud'[s].want = IF s = r THEN low ELSE cloud[s].want
             /\ cloud'[s].serving = IF s = r THEN low ELSE cloud[s].serving
             /\ cloud'[s].made = cloud[s].made /\ cloud'[s].tagged = cloud[s].tagged
  <2> DEFINE n == [cloud[r] EXCEPT !.want = low, !.serving = low]
  <2>1. low \in Int
    BY <1>9
  <2>2. cloud[r] \in ServiceType
    BY <1>2, <1>3 DEF CloudType
  <2>3. cloud' = [cloud EXCEPT ![r] = n]
    BY <1>2, <1>3 DEF CloudType, Told
  <2> HIDE DEF low
  <2>4. /\ n \in ServiceType /\ n.want = low /\ n.serving = low
        /\ n.made = cloud[r].made /\ n.tagged = cloud[r].tagged
    BY <2>1, <2>2 DEF ServiceType
  <2> HIDE DEF n
  <2>5. cloud' \in CloudType /\ cloud'[r] = n /\ \A s \in Services \ {r} : cloud'[s] = cloud[s]
    BY <1>2, <1>3, <2>3, <2>4 DEF CloudType
  <2> QED  BY <2>4, <2>5
<1> HIDE DEF low
<1>11. /\ deploy' \in DeployType /\ deploy'.moved = deploy.moved \cup {r}
       /\ deploy'.phase = deploy.phase /\ deploy'.worker = deploy.worker
       /\ deploy'.version = deploy.version /\ deploy'.failed = deploy.failed
       /\ deploy'.previous = deploy.previous /\ deploy'.seen = deploy.seen
       /\ deploy'.restore = deploy.restore /\ deploy'.calls = deploy.calls
       /\ deploy'.cleanup = deploy.cleanup
       /\ deploy'.attempted = deploy.attempted /\ deploy'.created = deploy.created
       /\ deploy'.cut = deploy.cut
  <2> DEFINE moved == deploy.moved \cup {r}
  <2>1. moved \in Parts
    <3>1. deploy.moved \in Parts
      BY <1>3 DEF DeployType
    <3> QED  BY <1>2, <3>1 DEF Parts
  <2>2. deploy' = [deploy EXCEPT !.moved = moved]
    BY <1>2, <1>3 DEF DeployType
  <2> HIDE DEF moved
  <2>3. /\ deploy' \in DeployType /\ deploy'.moved = moved
        /\ deploy'.phase = deploy.phase /\ deploy'.worker = deploy.worker
        /\ deploy'.version = deploy.version /\ deploy'.failed = deploy.failed
        /\ deploy'.previous = deploy.previous /\ deploy'.seen = deploy.seen
        /\ deploy'.restore = deploy.restore /\ deploy'.calls = deploy.calls
        /\ deploy'.cleanup = deploy.cleanup
        /\ deploy'.attempted = deploy.attempted /\ deploy'.created = deploy.created
        /\ deploy'.cut = deploy.cut
    BY <1>3, <2>1, <2>2 DEF DeployType
  <2> QED  BY <2>3 DEF moved
<1>12. /\ ~Idle' /\ Running' /\ (Forward' <=> Forward) /\ ~Backward'
       /\ Left' = Left /\ Part' = Part /\ \A s \in Services : LeftOf(s)' = LeftOf(s)
  BY <1>5, <1>7, <1>11 DEF Idle, Running, Forward, Backward, Left, LeftOf, Part
<1>13. ScriptTypes' /\ Course'
  BY <1>1, <1>3, <1>10, <1>11, <1>12
  DEF ScriptTypes, Course, OnPlan, OnWayBack, OnlyUntags, NothingLeft
<1>14. AtRest' /\ WentBack' /\ WorkerHolds' /\ Outcome'
  BY <1>12 DEF AtRest, WentBack, WorkerHolds, Outcome, Running
<1>15. TakesPart'
  BY <1>1, <1>8, <1>11, <1>12 DEF Traffic, TakesPart, Idle
<1>16. VersionsNear'
  <2>1. ASSUME NEW s \in Part, s = r  PROVE Near(s)'
    <3>1. /\ cloud'[s].want = low /\ cloud'[s].serving = low
          /\ Near(s) /\ s \in deploy'.moved
      BY <1>7, <1>10, <1>11, <2>1
    <3> QED  BY <1>3, <1>9, <1>11, <3>1 DEF Near
  <2>2. ASSUME NEW s \in Part, s # r  PROVE Near(s)'
    <3>1. /\ cloud'[s].want = cloud[s].want /\ cloud'[s].serving = cloud[s].serving
          /\ Near(s) /\ (s \in deploy'.moved <=> s \in deploy.moved)
      BY <1>7, <1>10, <1>11, <2>2
    <3> QED  BY <1>11, <3>1 DEF Near
  <2> QED  BY <1>12, <2>1, <2>2 DEF VersionsNear
<1>17. Captured'
  BY <1>1, <1>7, <1>11, <1>12 DEF Traffic, Captured
<1>18. MovedSeen'
  <2>1. ASSUME "api" \in deploy'.moved  PROVE Lower' /\ (Left >= 5 \/ Left = 2)
    <3>1. CASE r = "api"
      <4>1. cloud'["api"].want = low /\ cloud'["api"].serving = low
        BY <1>7, <1>10, <3>1
      <4> QED  BY <1>6, <1>9, <1>11, <3>1, <4>1 DEF Lower
    <3>2. CASE r # "api"
      <4>1. "api" \in deploy.moved
        BY <1>11, <2>1, <3>2
      <4>2. /\ cloud'["api"].want = cloud["api"].want
            /\ cloud'["api"].serving = cloud["api"].serving
        BY <1>7, <1>10, <3>2
      <4>3. Lower /\ (Left >= 5 \/ Left = 2)
        BY <1>1, <1>5, <1>7, <4>1 DEF Traffic, MovedSeen
      <4>4. Lower'
        BY <1>1, <1>11, <1>12, <4>2, <4>3 DEF Lower
      <4> QED  BY <4>3, <4>4
    <3> QED  BY <3>1, <3>2
  <2> QED  BY <1>11, <1>12, <2>1 DEF MovedSeen
<1>19. Promoted'
  <2>1. ASSUME NEW s \in Part
        PROVE  /\ LeftOf(s) >= 3 => s \notin deploy.attempted
               /\ LeftOf(s) <= 2 => s \in deploy.attempted /\ Stays(s)'
               /\ LeftOf(s) <= 1 => deploy.seen[s] = deploy.version /\ OnNew(s)'
               /\ deploy.restore[s] = "not attempted"
    <3>1. /\ LeftOf(s) >= 3 => s \notin deploy.attempted
          /\ LeftOf(s) <= 2 => s \in deploy.attempted /\ Stays(s)
          /\ LeftOf(s) <= 1 => deploy.seen[s] = deploy.version /\ OnNew(s)
          /\ deploy.restore[s] = "not attempted"
      BY <1>1, <1>5 DEF Traffic, Promoted
    <3>2. (LeftOf(s) <= 2 => Stays(s)') /\ (LeftOf(s) <= 1 => OnNew(s)')
      <4>1. CASE s = r
        <5>1. ~(LeftOf(s) <= 1)
          BY <1>8, <4>1
        <5>2. cloud'[s].serving = low
          BY <1>2, <1>10, <4>1
        <5>3. low # deploy.version
          BY <1>3, <1>9
        <5> QED  BY <1>11, <5>1, <5>2, <5>3 DEF Stays
      <4>2. CASE s # r
        <5>1. cloud'[s].want = cloud[s].want /\ cloud'[s].serving = cloud[s].serving
          BY <1>7, <1>10, <4>2
        <5> QED  BY <1>11, <3>1, <5>1 DEF Stays, OnNew
      <4> QED  BY <4>1, <4>2
    <3> QED  BY <3>1, <3>2
  <2> QED  BY <1>7, <1>11, <1>12, <2>1 DEF Promoted
<1>20. Restored'
  <2>1. ASSUME NEW s \in Services, deploy.restore[s] = "restored"  PROVE FALSE
    <3>1. s \in deploy.attempted
      BY <1>1, <2>1 DEF Traffic, Restored
    <3> QED  BY <1>7, <2>1, <3>1
  <2> QED  BY <1>11, <2>1 DEF Restored
<1>21. Ordered'
  <2>1. CASE r = "worker"
    BY <1>11, <2>1 DEF Ordered
  <2>2. CASE r = "api"
    <3>1. cloud'["api"].want < deploy.version /\ cloud'["api"].serving < deploy.version
      <4>1. cloud'["api"].want = low /\ cloud'["api"].serving = low
        BY <1>7, <1>10, <2>2
      <4> QED  BY <1>9, <4>1
    <3> QED  BY <1>11, <3>1 DEF Ordered
  <2> QED  BY <1>6, <2>1, <2>2
<1>22. Made' /\ Migrates'
  BY <1>1, <1>7, <1>10, <1>11, <1>12 DEF Traffic, Made, Migrates
<1>23. Tags'
  BY <1>1, <1>7, <1>10, <1>11, <1>12 DEF Traffic, Tags, Running
<1> QED
  BY <1>13, <1>14, <1>15, <1>16, <1>17, <1>18, <1>19, <1>20, <1>21, <1>22, <1>23
  DEF ScriptInv, Traffic

-----------------------------------------------------------------------------
(* What happens between two releases.                                      *)

(* The schema is there for whatever serves.                                *)
LEMMA SchemaReaches ==
  ASSUME ScriptInv
  PROVE  \A s \in Part : schema >= cloud[s].serving
PROOF
<1>1. ScriptTypes /\ AtRest /\ VersionsNear /\ Migrates /\ Part \subseteq Services
  <2>1. ScriptTypes /\ AtRest /\ VersionsNear /\ Migrates
    BY DEF ScriptInv, Traffic
  <2> QED  BY <2>1 DEF Part, Services
<1>2. /\ schema \in Int /\ deploy.version \in Int
      /\ \A s \in Services : cloud[s].serving \in Int
  BY <1>1, TypeFacts
<1>3. ASSUME NEW s \in Part  PROVE schema >= cloud[s].serving
  <2>1. s \in Services /\ cloud[s].serving \in Int
    BY <1>1, <1>2
  <2>2. CASE Idle
    <3>1. cloud[s].serving = 0 /\ schema = 0
      BY <1>1, <2>1, <2>2 DEF AtRest
    <3> QED  BY <3>1
  <2>3. CASE ~Idle /\ s \in deploy.attempted
    <3>1. cloud[s].serving <= deploy.version
      BY <1>1, <2>3 DEF VersionsNear, Near
    <3>2. schema >= deploy.version
      BY <1>1, <2>3 DEF Migrates
    <3> QED  BY <1>2, <2>1, <3>1, <3>2
  <2>4. CASE ~Idle /\ s \notin deploy.attempted
    <3>1. cloud[s].serving < deploy.version
      BY <1>1, <2>4 DEF VersionsNear, Near
    <3>2. schema >= deploy.version - 1
      BY <1>1, <2>4 DEF Migrates
    <3> QED  BY <1>2, <2>1, <3>1, <3>2
  <2> QED  BY <2>2, <2>3, <2>4
<1> QED  BY <1>3

(* What a release starts from.                                             *)
Starts(v) ==
    /\ deploy'.phase = "running" /\ deploy'.worker = deploy.worker /\ deploy'.version = v
    /\ deploy'.failed = FALSE /\ deploy'.cut = FALSE
    /\ \A s \in Services :
          /\ deploy'.previous[s] = IF s = "api" THEN v - 1 ELSE Unknown
          /\ deploy'.restore[s] = "not attempted"
    /\ deploy'.calls = Plan(deploy.worker)
    /\ deploy'.attempted = {} /\ deploy'.created = {} /\ deploy'.moved = {}
    /\ schema' = schema
    /\ \A s \in Services :
          /\ cloud'[s].want = cloud[s].want /\ cloud'[s].serving = cloud[s].serving
          /\ cloud'[s].tagged = FALSE
          /\ s \in Part => cloud[s].want = v - 1 /\ cloud[s].serving = v - 1

LEMMA BeginFacts ==
  ASSUME ScriptInv, NEW v \in Int, Begin(v)
  PROVE  ScriptTypes' /\ Starts(v)
PROOF
<1> DEFINE previous == [s \in Services |-> IF s = "api" THEN v - 1 ELSE Unknown]
           seen == [s \in Services |-> Unknown]
           restore == [s \in Services |-> "not attempted"]
           calls == Plan(deploy.worker)
<1>1. /\ deploy \in DeployType /\ cloud \in CloudType /\ schema \in Int
      /\ deploy.worker \in BOOLEAN
  <2>1. ScriptTypes
    BY DEF ScriptInv
  <2> QED  BY <2>1, TypeFacts
<1>2. /\ deploy' = [deploy EXCEPT
              !.phase = "running", !.version = v, !.failed = FALSE, !.previous = previous,
              !.seen = seen, !.cleanup = "ok", !.restore = restore, !.calls = calls,
              !.attempted = {}, !.created = {}, !.moved = {}, !.cut = FALSE]
      /\ cloud' = [s \in Services |-> [cloud[s] EXCEPT !.made = "nothing", !.tagged = FALSE]]
      /\ schema' = schema
      /\ \A s \in Services : deploy.worker \/ s = "api" =>
             cloud[s].want = v - 1 /\ cloud[s].serving = v - 1
  BY DEF Begin
<1>3. /\ previous \in Versions /\ seen \in Versions /\ restore \in Restores
      /\ "running" \in Phases /\ "ok" \in Notes /\ {} \in Parts
      /\ \A s \in Services : /\ previous[s] = IF s = "api" THEN v - 1 ELSE Unknown
                             /\ restore[s] = "not attempted"
  BY DEF Versions, Restores, Phases, Notes, Parts, Unknown
<1>4. calls \in CallSeqs
  <2>1. calls = Plan(deploy.worker)
    OBVIOUS
  <2> HIDE DEF calls
  <2> QED  BY <1>1, <2>1, PlanFacts DEF CallSeqs
<1> HIDE DEF previous, seen, restore, calls
<1>5. /\ deploy' \in DeployType
      /\ deploy'.phase = "running" /\ deploy'.worker = deploy.worker /\ deploy'.version = v
      /\ deploy'.failed = FALSE /\ deploy'.cut = FALSE
      /\ deploy'.previous = previous /\ deploy'.restore = restore
      /\ deploy'.calls = calls
      /\ deploy'.attempted = {} /\ deploy'.created = {} /\ deploy'.moved = {}
  BY <1>1, <1>2, <1>3, <1>4 DEF DeployType
<1>6. ASSUME NEW s \in Services
      PROVE  /\ cloud'[s] \in ServiceType
             /\ cloud'[s].want = cloud[s].want /\ cloud'[s].serving = cloud[s].serving
             /\ cloud'[s].tagged = FALSE
  <2>1. cloud[s] \in ServiceType
    BY <1>1 DEF CloudType
  <2>2. cloud'[s] = [cloud[s] EXCEPT !.made = "nothing", !.tagged = FALSE]
    BY <1>2
  <2>3. "nothing" \in Images
    BY DEF Images
  <2> QED  BY <2>1, <2>2, <2>3 DEF ServiceType
<1>7. cloud' \in CloudType
  BY <1>2, <1>6 DEF CloudType
<1>8. \A s \in Services : s \in Part => cloud[s].want = v - 1 /\ cloud[s].serving = v - 1
  BY <1>2 DEF Part
<1>9. deploy'.calls = Plan(deploy.worker)
  BY <1>5 DEF calls
<1>10. \A s \in Services : /\ deploy'.previous[s] = IF s = "api" THEN v - 1 ELSE Unknown
                           /\ deploy'.restore[s] = "not attempted"
  BY <1>3, <1>5
<1>11. Starts(v)
  BY <1>2, <1>5, <1>6, <1>8, <1>9, <1>10 DEF Starts
<1> QED  BY <1>1, <1>2, <1>5, <1>7, <1>11 DEF ScriptTypes

LEMMA BeginKeeps ==
  ASSUME ScriptInv, NEW v \in Nat, v >= 1, Begin(v)
  PROVE  ScriptInv'
PROOF
<1>1. ScriptTypes' /\ Starts(v)
  BY BeginFacts
<1>2. /\ deploy'.phase = "running" /\ deploy'.worker = deploy.worker /\ deploy'.version = v
      /\ deploy'.failed = FALSE /\ deploy'.cut = FALSE
      /\ deploy'.calls = Plan(deploy.worker)
      /\ deploy'.attempted = {} /\ deploy'.created = {} /\ deploy'.moved = {}
      /\ schema' = schema
  BY <1>1 DEF Starts
<1>3. \A s \in Services :
         /\ deploy'.previous[s] = IF s = "api" THEN v - 1 ELSE Unknown
         /\ deploy'.restore[s] = "not attempted"
         /\ cloud'[s].want = cloud[s].want /\ cloud'[s].serving = cloud[s].serving
         /\ cloud'[s].tagged = FALSE
         /\ s \in Part => cloud[s].want = v - 1 /\ cloud[s].serving = v - 1
  BY <1>1 DEF Starts
<1>4. /\ Part' = Part /\ Part \subseteq Services /\ "api" \in Part /\ "api" \in Services
      /\ ~Idle' /\ Running' /\ ~Backward'
      /\ deploy.worker \in BOOLEAN /\ schema \in Int
      /\ "worker" \in Part => deploy.worker
  <2>1. ScriptTypes
    BY DEF ScriptInv
  <2>2. deploy.worker \in BOOLEAN /\ schema \in Int
    BY <2>1, TypeFacts
  <2> QED  BY <1>2, <2>2 DEF Part, Services, Idle, Running, Backward
<1>5. /\ Left' = Steps(deploy.worker)
      /\ \A i \in 1..Left' : deploy'.calls[i] = Due(deploy.worker, Left' + 1 - i)
  <2>1. /\ Len(deploy'.calls) = Steps(deploy.worker)
        /\ \A i \in 1..Steps(deploy.worker) :
              deploy'.calls[i] = Due(deploy.worker, Steps(deploy.worker) + 1 - i)
    BY <1>2, <1>4, PlanFacts
  <2> QED  BY <2>1 DEF Left
<1>6. /\ Left' \in Int /\ Left' >= 10 /\ (deploy.worker => Left' = 18)
  BY <1>4, <1>5 DEF Steps
<1>7. \A s \in Part : LeftOf(s)' \in Int /\ LeftOf(s)' >= 10
  <2>1. ASSUME NEW s \in Part, s = "worker"  PROVE LeftOf(s)' \in Int /\ LeftOf(s)' >= 10
    <3>1. LeftOf(s)' = Left' - 7 /\ Left' = 18
      BY <1>4, <1>6, <2>1 DEF LeftOf
    <3> QED  BY <3>1
  <2>2. ASSUME NEW s \in Part, s # "worker"  PROVE LeftOf(s)' \in Int /\ LeftOf(s)' >= 10
    <3>1. LeftOf(s)' = Left'
      BY <2>2 DEF LeftOf
    <3> QED  BY <1>6, <3>1
  <2> QED  BY <2>1, <2>2
<1>8. \A s \in Part : ~(LeftOf(s)' <= 9) /\ ~(LeftOf(s)' <= 5) /\ ~(LeftOf(s)' <= 2)
                      /\ ~(LeftOf(s)' <= 1)
  BY <1>7
<1>9. OnPlan' /\ OnWayBack' /\ OnlyUntags' /\ NothingLeft'
  <2>1. Left' <= Steps(deploy.worker)
    BY <1>5, <1>6
  <2>2. OnPlan'
    BY <1>2, <1>5, <2>1 DEF OnPlan
  <2> QED  BY <1>2, <1>4, <2>2 DEF OnWayBack, OnlyUntags, NothingLeft, Idle, Running
<1>10. AtRest' /\ WentBack' /\ WorkerHolds'
  BY <1>4 DEF AtRest, WentBack, WorkerHolds
<1>11. TakesPart'
  BY <1>2, <1>3, <1>4 DEF TakesPart
<1>12. VersionsNear'
  <2>1. ASSUME NEW s \in Part  PROVE Near(s)'
    <3>1. /\ cloud'[s].want = v - 1 /\ cloud'[s].serving = v - 1
          /\ deploy'.previous[s] = v - 1 \/ deploy'.previous[s] = Unknown
      BY <1>3, <1>4, <2>1
    <3> QED  BY <1>2, <3>1 DEF Near, Unknown
  <2> QED  BY <1>4, <2>1 DEF VersionsNear
<1>13. Captured' /\ MovedSeen' /\ Promoted' /\ Made'
  BY <1>2, <1>3, <1>4, <1>8 DEF Captured, MovedSeen, Promoted, Made
<1>14. Restored' /\ Outcome' /\ Tags'
  BY <1>2, <1>3 DEF Restored, Outcome, Tags
<1>15. Ordered'
  <2>1. cloud'["api"].want < deploy'.version /\ cloud'["api"].serving < deploy'.version
    <3>1. cloud'["api"].want = v - 1 /\ cloud'["api"].serving = v - 1
      BY <1>3, <1>4
    <3> QED  BY <1>2, <3>1
  <2> QED  BY <2>1 DEF Ordered
<1>16. Migrates'
  <2>1. schema' >= v - 1
    <3>1. schema >= cloud["api"].serving /\ cloud["api"].serving = v - 1
      BY <1>3, <1>4, SchemaReaches
    <3> QED  BY <1>2, <3>1
  <2>2. ~(Left' <= IF deploy.worker THEN 14 ELSE 7)
    BY <1>4, <1>6
  <2> QED  BY <1>2, <2>1, <2>2 DEF Migrates
<1> QED
  BY <1>1, <1>9, <1>10, <1>11, <1>12, <1>13, <1>14, <1>15, <1>16
  DEF ScriptInv, Course, Traffic

LEMMA RollBackKeeps ==
  ASSUME ScriptInv, RollBack
  PROVE  ScriptInv'
PROOF
<1>1. /\ ScriptTypes /\ Course /\ Traffic /\ deploy.phase = "ended"
      /\ deploy' = deploy /\ schema' = schema
  BY DEF RollBack, ScriptInv
<1>2. /\ deploy \in DeployType /\ cloud \in CloudType /\ schema \in Int
      /\ deploy.version \in Int
      /\ \A s \in Services : deploy.previous[s] \in Int /\ cloud[s].want \in Int
                             /\ cloud[s].serving \in Int
  BY <1>1, TypeFacts
<1>3. ASSUME NEW s \in Services
      PROVE  /\ cloud'[s] \in ServiceType
             /\ cloud'[s].want = IF deploy.previous[s] = Unknown THEN cloud[s].want
                                 ELSE deploy.previous[s]
             /\ cloud'[s].serving = IF deploy.previous[s] = Unknown THEN cloud[s].serving
                                    ELSE deploy.previous[s]
             /\ cloud'[s].made = cloud[s].made /\ cloud'[s].tagged = cloud[s].tagged
  <2>1. cloud[s] \in ServiceType /\ deploy.previous[s] \in Int
    BY <1>2 DEF CloudType
  <2>2. cloud'[s] = IF deploy.previous[s] = Unknown THEN cloud[s]
                    ELSE [cloud[s] EXCEPT !.want = deploy.previous[s],
                                          !.serving = deploy.previous[s]]
    BY DEF RollBack
  <2> QED  BY <2>1, <2>2 DEF ServiceType
<1>4. cloud' \in CloudType
  BY <1>3 DEF RollBack, CloudType
<1>5. /\ ~Idle /\ ~Idle' /\ ~Running' /\ ~Forward' /\ ~Backward'
      /\ Left' = Left /\ Part' = Part /\ Part \subseteq Services
      /\ "api" \in Services /\ "api" \in Part
  BY <1>1 DEF Idle, Running, Forward, Backward, Left, Part, Services
<1>6. ScriptTypes' /\ Course'
  BY <1>1, <1>2, <1>4, <1>5
  DEF ScriptTypes, Course, OnPlan, OnWayBack, OnlyUntags, NothingLeft
<1>7. AtRest' /\ WentBack' /\ WorkerHolds' /\ Promoted' /\ Restored'
  BY <1>1, <1>5 DEF AtRest, WentBack, WorkerHolds, Promoted, Restored
<1>8. TakesPart' /\ Captured' /\ MovedSeen' /\ Migrates'
  <2>1. deploy.previous["api"] = deploy.version - 1 /\ deploy.version >= 1
    BY <1>1, <1>5 DEF Traffic, TakesPart
  <2>2. cloud'["api"].want < deploy.version /\ cloud'["api"].serving < deploy.version
    BY <1>2, <1>3, <1>5, <2>1 DEF Unknown
  <2>3. MovedSeen'
    BY <1>1, <1>5, <2>2 DEF MovedSeen, Lower
  <2> QED  BY <1>1, <1>5, <2>3 DEF Traffic, TakesPart, Captured, Migrates, Idle
<1>9. VersionsNear'
  <2>1. ASSUME NEW s \in Part  PROVE Near(s)'
    <3>1. Near(s) /\ s \in Services
      BY <1>1, <1>5 DEF Traffic, VersionsNear
    <3>2. CASE deploy.previous[s] = Unknown
      BY <1>1, <1>3, <3>1, <3>2 DEF Near
    <3>3. CASE deploy.previous[s] # Unknown
      <4>1. /\ cloud'[s].want = deploy.previous[s] /\ cloud'[s].serving = deploy.previous[s]
            /\ deploy.previous[s] \in Int
        BY <1>2, <1>3, <3>1, <3>3
      <4> QED  BY <1>1, <1>2, <3>1, <3>3, <4>1 DEF Near
    <3> QED  BY <3>2, <3>3
  <2> QED  BY <1>5, <2>1 DEF VersionsNear
<1>10. Outcome'
  <2>1. ASSUME ~deploy.cut, deploy.failed, NEW s \in Part, s \in deploy.attempted
        PROVE  \/ deploy.restore[s] = "failed"
               \/ deploy.restore[s] = "restored" /\ cloud'[s].want = deploy.previous[s]
    <3>1. \/ deploy.restore[s] = "failed"
          \/ deploy.restore[s] = "restored" /\ cloud[s].want = deploy.previous[s]
      BY <1>1, <2>1 DEF Traffic, Outcome
    <3> QED  BY <1>3, <1>5, <3>1
  <2>2. ASSUME ~deploy.cut, ~deploy.failed, NEW s \in Part
        PROVE  deploy.seen[s] = deploy.version
    BY <1>1, <2>2 DEF Traffic, Outcome
  <2> QED  BY <1>1, <1>5, <2>1, <2>2 DEF Outcome
<1>11. Ordered'
  <2>1. deploy.previous["api"] = deploy.version - 1 /\ deploy.version >= 1
    BY <1>1, <1>5 DEF Traffic, TakesPart
  <2>2. cloud'["api"].want = deploy.version - 1 /\ cloud'["api"].serving = deploy.version - 1
    BY <1>2, <1>3, <1>5, <2>1 DEF Unknown
  <2> QED  BY <1>1, <1>2, <2>2 DEF Ordered
<1>12. Made' /\ Tags'
  BY <1>1, <1>3, <1>5 DEF Traffic, Made, Tags, Running
<1> QED
  BY <1>6, <1>7, <1>8, <1>9, <1>10, <1>11, <1>12 DEF ScriptInv, Traffic

-----------------------------------------------------------------------------
(* The invariant.                                                          *)
LEMMA ScriptStarts ==
  ASSUME Init
  PROVE  ScriptInv
PROOF
<1>1. /\ deploy \in [phase : {"idle"}, worker : BOOLEAN, version : {0}, failed : {FALSE},
                   previous : {[s \in Services |-> Unknown]}, seen : {[s \in Services |-> Unknown]},
                   restore : {[s \in Services |-> "not attempted"]}, cleanup : {"ok"},
                   calls : {<<>>}, attempted : {{}}, created : {{}},
                   moved : {{}}, cut : {FALSE}]
      /\ cloud = [s \in Services |-> [want |-> 0, serving |-> 0, made |-> "nothing",
                                      tagged |-> FALSE]]
      /\ schema = 0
  BY DEF Init, ReleaseInit
<1> DEFINE unknown == [s \in Services |-> Unknown]
           untried == [s \in Services |-> "not attempted"]
<1>2. /\ unknown \in Versions /\ untried \in Restores
      /\ "idle" \in Phases /\ "ok" \in Notes /\ {} \in Parts /\ <<>> \in CallSeqs
      /\ \A s \in Services : unknown[s] = Unknown /\ untried[s] = "not attempted"
  BY DEF Versions, Restores, Phases, Notes, Parts, CallSeqs, Unknown
<1>3. /\ deploy \in [phase : {"idle"}, worker : BOOLEAN, version : {0}, failed : {FALSE},
                     previous : {unknown}, seen : {unknown},
                     restore : {untried}, cleanup : {"ok"},
                     calls : {<<>>}, attempted : {{}}, created : {{}},
                     moved : {{}}, cut : {FALSE}]
  BY <1>1
<1> HIDE DEF unknown, untried
<1>4. /\ deploy \in DeployType
      /\ deploy.phase = "idle" /\ deploy.version = 0 /\ deploy.failed = FALSE
      /\ deploy.previous = unknown /\ deploy.restore = untried
      /\ deploy.calls = <<>> /\ deploy.attempted = {} /\ deploy.created = {}
      /\ deploy.moved = {} /\ deploy.cut = FALSE
  <2>1. /\ deploy.phase = "idle" /\ deploy.worker \in BOOLEAN /\ deploy.version = 0
        /\ deploy.failed = FALSE /\ deploy.previous = unknown /\ deploy.seen = unknown
        /\ deploy.restore = untried /\ deploy.cleanup = "ok" /\ deploy.calls = <<>>
        /\ deploy.attempted = {} /\ deploy.created = {} /\ deploy.moved = {}
        /\ deploy.cut = FALSE
    BY <1>3
  <2>2. deploy = [phase |-> deploy.phase, worker |-> deploy.worker, version |-> deploy.version,
                  failed |-> deploy.failed, previous |-> deploy.previous, seen |-> deploy.seen,
                  restore |-> deploy.restore, cleanup |-> deploy.cleanup,
                  calls |-> deploy.calls, attempted |-> deploy.attempted,
                  created |-> deploy.created, moved |-> deploy.moved, cut |-> deploy.cut]
    BY <1>3
  <2>3. /\ deploy.phase \in Phases /\ deploy.worker \in BOOLEAN /\ deploy.version \in Int
        /\ deploy.failed \in BOOLEAN /\ deploy.previous \in Versions
        /\ deploy.seen \in Versions /\ deploy.restore \in Restores
        /\ deploy.cleanup \in Notes /\ deploy.calls \in CallSeqs
        /\ deploy.attempted \in Parts /\ deploy.created \in Parts /\ deploy.moved \in Parts
        /\ deploy.cut \in BOOLEAN
    <3>1. /\ deploy.phase \in Phases /\ deploy.previous \in Versions
          /\ deploy.seen \in Versions /\ deploy.restore \in Restores
          /\ deploy.cleanup \in Notes /\ deploy.calls \in CallSeqs
          /\ deploy.attempted \in Parts /\ deploy.created \in Parts
          /\ deploy.moved \in Parts
      BY <1>2, <2>1
    <3>2. deploy.failed \in BOOLEAN /\ deploy.cut \in BOOLEAN /\ deploy.worker \in BOOLEAN
      BY <2>1
    <3>3. deploy.version \in Int
      BY <2>1
    <3> QED  BY <3>1, <3>2, <3>3
  <2>4. deploy \in DeployType
    BY <2>2, <2>3 DEF DeployType
  <2> QED  BY <2>1, <2>4
<1>5. /\ cloud \in CloudType
      /\ \A s \in Services : cloud[s].want = 0 /\ cloud[s].serving = 0 /\ cloud[s].tagged = FALSE
  <2> DEFINE r == [want |-> 0, serving |-> 0, made |-> "nothing", tagged |-> FALSE]
  <2>1. r \in ServiceType /\ r.want = 0 /\ r.serving = 0 /\ r.tagged = FALSE
    BY DEF ServiceType, Images
  <2>2. cloud = [s \in Services |-> r]
    BY <1>1
  <2> HIDE DEF r
  <2> QED  BY <2>1, <2>2 DEF CloudType
<1>6. Idle /\ ~Running /\ ~Forward /\ ~Backward
  BY <1>4 DEF Idle, Running, Forward, Backward
<1>7. ScriptTypes
  <2>1. schema = 0
    BY <1>1
  <2>2. schema \in Int
    BY <2>1
  <2> QED  BY <1>4, <1>5, <2>2 DEF ScriptTypes
<1>8. Course
  BY <1>4, <1>6 DEF Course, OnPlan, OnWayBack, OnlyUntags, NothingLeft
<1>9. AtRest
  <2>1. deploy.previous["api"] = Unknown
    BY <1>2, <1>4 DEF Services
  <2> QED  BY <1>1, <1>4, <1>5, <2>1 DEF AtRest
<1>10. /\ TakesPart /\ VersionsNear /\ Captured /\ MovedSeen /\ Promoted /\ WentBack
  BY <1>4, <1>6 DEF TakesPart, VersionsNear, Captured, MovedSeen, Promoted, WentBack
<1>11. Restored /\ Outcome /\ Ordered /\ WorkerHolds /\ Made /\ Migrates /\ Tags
  BY <1>4, <1>5, <1>6
  DEF Restored, Outcome, Ordered, WorkerHolds, Made, Migrates, Tags
<1> QED  BY <1>7, <1>8, <1>9, <1>10, <1>11 DEF ScriptInv, Traffic

LEMMA ScriptStays ==
  ASSUME ScriptInv, UNCHANGED releaseVars
  PROVE  ScriptInv'
PROOF
<1>1. deploy' = deploy /\ cloud' = cloud /\ schema' = schema
  BY DEF releaseVars
<1>2. ScriptTypes' /\ Course'
  BY <1>1 DEF ScriptInv, ScriptTypes, Course, OnPlan, OnWayBack, OnlyUntags, NothingLeft,
              Forward, Backward, Running, Idle, Left
<1>3. /\ (Idle' <=> Idle) /\ (Running' <=> Running) /\ (Forward' <=> Forward)
      /\ (Backward' <=> Backward) /\ Left' = Left /\ Part' = Part
  BY <1>1 DEF Idle, Running, Forward, Backward, Left, Part
<1>5. AtRest' /\ TakesPart' /\ VersionsNear'
  BY <1>1, <1>3 DEF ScriptInv, Traffic, AtRest, TakesPart, VersionsNear, Near
<1>6. \A s : /\ LeftOf(s)' = LeftOf(s) /\ LeftBack(s)' = LeftBack(s)
             /\ (OnNew(s)' <=> OnNew(s)) /\ (Stays(s)' <=> Stays(s))
             /\ (ToPrevious(s)' <=> ToPrevious(s))
             /\ (BackOnPrevious(s)' <=> BackOnPrevious(s))
  BY <1>1, <1>3 DEF LeftOf, LeftBack, OnNew, OnPrevious, Stays, ToPrevious, BackOnPrevious
<1>9. Lower' <=> Lower
  BY <1>1, <1>3 DEF Lower
<1>7. Captured' /\ MovedSeen'
  BY <1>1, <1>3, <1>6, <1>9 DEF ScriptInv, Traffic, Captured, MovedSeen
<1>8. Promoted' /\ WentBack'
  BY <1>1, <1>3, <1>6 DEF ScriptInv, Traffic, Promoted, WentBack
<1>4. Restored' /\ Outcome' /\ Ordered' /\ WorkerHolds' /\ Made' /\ Migrates' /\ Tags'
  BY <1>1 DEF ScriptInv, Traffic, Restored, Outcome, Ordered, WorkerHolds, Made, Migrates, Tags,
              OnNew, OnPrevious, LeftOf, Part, Forward, Backward, Running, Idle, Left
<1> QED  BY <1>2, <1>4, <1>5, <1>7, <1>8 DEF ScriptInv, Traffic

LEMMA ScriptSteps ==
  ASSUME ScriptInv, [Next]_vars
  PROVE  ScriptInv'
PROOF
<1>1. CASE Releases
  <2>1. PICK v \in 1..Latest : Begin(v)
    BY <1>1 DEF Releases
  <2>2. v \in Nat /\ v >= 1
    BY ReleaseDeployAssumption
  <2> QED  BY <2>1, <2>2, BeginKeeps
<1>2. CASE RollsBack
  BY <1>2, RollBackKeeps DEF RollsBack
<1>3. CASE Script
  BY <1>3, CallKeeps, FinallyKeeps, SummarizeKeeps, InterruptedKeeps, ArrivesKeeps, MeddlesKeeps
  DEF Script, ReleaseStep
<1>4. CASE UNCHANGED releaseVars
  BY <1>4, ScriptStays
<1> QED
  BY <1>1, <1>2, <1>3, <1>4 DEF Next, Request, BackfillStarts, BackfillRuns, vars

-----------------------------------------------------------------------------
(* The invariants of the run.                                              *)
LEMMA ScriptInvariant == Spec => []ScriptInv
PROOF
<1>1. Init => ScriptInv
  BY ScriptStarts
<1>2. ScriptInv /\ [Next]_vars => ScriptInv'
  BY ScriptSteps
<1> QED  BY <1>1, <1>2, PTL DEF Spec

LEMMA OrderedIsWorkerFirst ==
  ASSUME ScriptInv
  PROVE  WorkerFirst
PROOF
<1>1. ScriptTypes /\ AtRest /\ VersionsNear /\ Ordered
  BY DEF ScriptInv, Traffic
<1>2. /\ deploy.version \in Int /\ "api" \in Services /\ "worker" \in Services
      /\ \A s \in Services : cloud[s].serving \in Int
  BY <1>1, TypeFacts DEF Services
<1>3. SUFFICES ASSUME deploy.worker, deploy.restore["api"] # "failed",
                      "worker" \notin deploy.moved
               PROVE  ~(cloud["api"].serving > cloud["worker"].serving)
  BY DEF WorkerFirst
<1>4. CASE Idle
  BY <1>1, <1>2, <1>4 DEF AtRest
<1>5. CASE ~Idle
  <2>1. "api" \in Part /\ "worker" \in Part
    BY <1>2, <1>3 DEF Part
  <2>2. /\ cloud["api"].serving <= deploy.version
        /\ cloud["worker"].serving >= deploy.version - 1
    BY <1>1, <1>3, <1>5, <2>1 DEF VersionsNear, Near
  <2>3. \/ cloud["api"].serving < deploy.version
        \/ cloud["worker"].serving = deploy.version
    BY <1>1, <1>3, <1>5 DEF Ordered, OnNew
  <2> QED  BY <1>2, <2>2, <2>3
<1> QED  BY <1>4, <1>5

LEMMA MadeIsProved ==
  ASSUME ScriptInv
  PROVE  ProvedBeforeServing
PROOF
<1>1. ScriptTypes /\ VersionsNear /\ Made /\ TakesPart
  BY DEF ScriptInv, Traffic
<1>2. \A s \in Part : schema >= cloud[s].serving
  BY SchemaReaches
<1>3. ASSUME ~Idle, NEW s \in Part, cloud[s].serving = deploy.version
      PROVE  cloud[s].made = "released"
  <2>1. deploy.version \in Int
    BY <1>1, TypeFacts
  <2>2. s \notin deploy.attempted => cloud[s].serving < deploy.version
    BY <1>1, <1>3 DEF VersionsNear, Near
  <2>3. s \in deploy.attempted
    BY <1>3, <2>1, <2>2
  <2> QED  BY <1>1, <1>3, <2>3 DEF Made
<1> QED  BY <1>2, <1>3 DEF ProvedBeforeServing, Idle

LEMMA OutcomeIsWhole ==
  ASSUME ScriptInv
  PROVE  AllOrNothing
PROOF
<1>1. ScriptTypes /\ VersionsNear /\ Outcome
  BY DEF ScriptInv, Traffic
<1>2. ASSUME deploy.phase \in {"cleaning", "ended"}, ~deploy.cut, NEW s \in Part
      PROVE  IF deploy.failed
             THEN cloud[s].want < deploy.version \/ deploy.restore[s] = "failed"
             ELSE deploy.seen[s] = deploy.version
  <2>1. /\ s \notin deploy.attempted => cloud[s].want < deploy.version
        /\ deploy.previous[s] < deploy.version
    BY <1>1, <1>2 DEF VersionsNear, Near, Idle
  <2>2. IF deploy.failed
        THEN s \in deploy.attempted =>
                 \/ deploy.restore[s] = "failed"
                 \/ deploy.restore[s] = "restored" /\ cloud[s].want = deploy.previous[s]
        ELSE deploy.seen[s] = deploy.version
    BY <1>1, <1>2 DEF Outcome
  <2> QED  BY <2>1, <2>2
<1> QED  BY <1>2 DEF AllOrNothing

(* Only Summarize ends a deploy(), and it changes nothing else.            *)
LEMMA EndsBySummarize ==
  ASSUME ScriptInv, [Next]_vars, deploy.phase = "cleaning", deploy'.phase = "ended"
  PROVE  Summarize
PROOF
<1>1. CASE Returns \/ Fails
  BY <1>1, CallCleans DEF Cleaned
<1>2. CASE Releases \/ RollsBack \/ Finally \/ Interrupted \/ Arrives \/ Meddles
  BY <1>2 DEF Releases, Begin, RollsBack, RollBack, Finally, Interrupted, Arrives, Meddles, Running
<1>3. CASE UNCHANGED releaseVars
  BY <1>3 DEF releaseVars
<1> QED
  BY <1>1, <1>2, <1>3
  DEF Next, Script, ReleaseStep, Request, BackfillStarts, BackfillRuns, vars

LEMMA SummaryIsTrue ==
  ASSUME ScriptInv, [Next]_vars, deploy.phase = "cleaning", deploy'.phase = "ended",
         ~deploy.cut, NEW s \in Part
  PROVE  /\ deploy.restore[s] = "restored" => cloud[s].serving = deploy.previous[s]
         /\ cloud[s].tagged => deploy.cleanup = "failed"
         /\ s \in deploy.attempted =>
                \/ deploy.seen[s] = cloud[s].want
                \/ deploy.restore[s] = "failed"
PROOF
<1>1. Restored /\ Outcome /\ Tags /\ s \in Services
  <2>1. Restored /\ Outcome /\ Tags
    BY DEF ScriptInv, Traffic
  <2> QED  BY <2>1 DEF Part, Services
<1>2. Left = 0 /\ \A i \in 1..0 : FALSE
  BY EndsBySummarize DEF Summarize, Left
<1>3. deploy.restore[s] = "restored" =>
         OnPrevious(s) /\ deploy.seen[s] = deploy.previous[s]
  BY <1>1 DEF Restored
<1>4. cloud[s].tagged => deploy.cleanup = "failed"
  BY <1>1, <1>2 DEF Tags
<1>5. IF deploy.failed
      THEN s \in deploy.attempted => deploy.restore[s] \in {"failed", "restored"}
      ELSE deploy.seen[s] = deploy.version /\ cloud[s].want = deploy.version
  BY <1>1 DEF Outcome
<1> QED  BY <1>3, <1>4, <1>5 DEF OnPrevious

(* The API of a release never serves beside the worker of the one before   *)
(* (release_deploy.py:8-12).                                               *)
THEOREM ApiFollowsWorker == Spec => []WorkerFirst
PROOF
<1>1. ScriptInv => WorkerFirst
  BY OrderedIsWorkerFirst
<1> QED  BY <1>1, ScriptInvariant, PTL

(* Nothing serves before its schema is there, or from another image.       *)
THEOREM ServesWhatWasProved == Spec => []ProvedBeforeServing
PROOF
<1>1. ScriptInv => ProvedBeforeServing
  BY MadeIsProved
<1> QED  BY <1>1, ScriptInvariant, PTL

(* A release that was not cut short put every service on its version, or   *)
(* none, or says which it could not move back.                             *)
THEOREM ReleaseIsWhole == Spec => []AllOrNothing
PROOF
<1>1. ScriptInv => AllOrNothing
  BY OutcomeIsWhole
<1> QED  BY <1>1, ScriptInvariant, PTL

(* What the summary says of restored traffic, of tags and of what serves   *)
(* is so when it is written.                                               *)
THEOREM SummaryHolds == Spec => SummaryTellsTruth
PROOF
<1> DEFINE Truth ==
       (deploy.phase = "cleaning" /\ deploy'.phase = "ended" /\ ~deploy.cut) =>
          \A s \in Part :
             /\ deploy.restore[s] = "restored" => cloud[s].serving = deploy.previous[s]
             /\ cloud[s].tagged => deploy.cleanup = "failed"
             /\ s \in deploy.attempted =>
                    \/ deploy.seen[s] = cloud[s].want
                    \/ deploy.restore[s] = "failed"
<1>1. ScriptInv /\ [Next]_vars => [Truth]_vars
  BY SummaryIsTrue
<1> HIDE DEF Truth
<1>2. Spec => [][Truth]_vars
  BY <1>1, ScriptInvariant, PTL DEF Spec
<1> QED  BY <1>2 DEF SummaryTellsTruth, Truth

-----------------------------------------------------------------------------
(* The columns.                                                            *)

(* A statement is executed: the row is the one that is committed later.    *)
LEMMA ExecutesKeeps ==
  ASSUME RowTypes, ToldIsCompleted, NEW t \in Todos, NEW version \in Int, NEW row \in Rows,
         NEW value \in Values,
         row # None => row.completed = value,
         (row # None /\ version >= DualWrites) => row.stamped = row.completed,
         Executes(t, version, row, value)
  PROVE  /\ RowTypes' /\ ToldIsCompleted'
         /\ (Clean /\ version >= DualWrites) => Clean'
PROOF
<1> DEFINE w == [by |-> version, row |-> row, value |-> value]
<1>1. /\ w \in Write /\ w.by = version /\ w.row = row /\ w.value = value
  BY DEF Write
<1>2. /\ writing' = [writing EXCEPT ![t] = w]
      /\ todos' = todos /\ told' = told
  BY DEF Executes
<1> HIDE DEF w
<1>3. /\ writing' \in [Todos -> Write \cup {None}] /\ writing'[t] = w
      /\ \A u \in Todos \ {t} : writing'[u] = writing[u]
  BY <1>1, <1>2 DEF RowTypes
<1>4. RowTypes'
  BY <1>2, <1>3 DEF RowTypes
<1>5. ASSUME NEW u \in Todos, writing'[u] # None, writing'[u].row # None
      PROVE  /\ writing'[u].row.completed = writing'[u].value
             /\ writing'[u].by >= DualWrites =>
                    writing'[u].row.stamped = writing'[u].row.completed
  <2>1. CASE u = t
    BY <1>1, <1>3, <1>5, <2>1
  <2>2. CASE u # t
    BY <1>3, <1>5, <2>2 DEF ToldIsCompleted
  <2> QED  BY <2>1, <2>2
<1>6. ToldIsCompleted'
  BY <1>2, <1>5 DEF ToldIsCompleted
<1>7. ASSUME Clean, version >= DualWrites  PROVE Clean'
  <2>1. ASSUME NEW u \in Todos, writing'[u] # None, writing'[u].row # None
        PROVE  writing'[u].row.stamped = writing'[u].row.completed
    <3>1. CASE u = t
      BY <1>1, <1>3, <1>7, <2>1, <3>1
    <3>2. CASE u # t
      BY <1>3, <1>7, <2>1, <3>2 DEF Clean
    <3> QED  BY <3>1, <3>2
  <2> QED  BY <1>2, <1>7, <2>1 DEF Clean, Reconciled
<1> QED  BY <1>4, <1>6, <1>7

LEMMA CommitsKeeps ==
  ASSUME RowTypes, ToldIsCompleted, NEW t \in Todos, Commits(t) \/ GoesBack(t)
  PROVE  RowTypes' /\ ToldIsCompleted' /\ (Clean => Clean')
PROOF
<1>1. /\ writing[t] # None /\ writing' = [writing EXCEPT ![t] = None]
      /\ \/ /\ todos' = [todos EXCEPT ![t] = writing[t].row]
            /\ told' = [told EXCEPT ![t] = writing[t].value]
         \/ todos' = todos /\ told' = told
  BY DEF Commits, GoesBack
<1>2. writing[t] \in Write
  BY <1>1 DEF RowTypes
<1>3. writing[t].row \in Rows /\ writing[t].value \in Values
  BY <1>2 DEF Write
<1> DEFINE row == writing[t].row
           value == writing[t].value
<1>4. row \in Rows /\ value \in Values
  BY <1>3
<1>5. row # None => row.completed = value
  BY <1>1 DEF ToldIsCompleted
<1>6. (Clean /\ row # None) => row.stamped = row.completed
  BY <1>1 DEF Clean
<1>7. \/ todos' = [todos EXCEPT ![t] = row] /\ told' = [told EXCEPT ![t] = value]
      \/ todos' = todos /\ told' = told
  BY <1>1
<1> HIDE DEF row, value
<1>8. /\ writing' \in [Todos -> Write \cup {None}] /\ writing'[t] = None
      /\ \A u \in Todos \ {t} : writing'[u] = writing[u]
  BY <1>1 DEF RowTypes
<1>9. /\ todos' \in [Todos -> Rows] /\ told' \in [Todos -> Values]
      /\ \A u \in Todos \ {t} : todos'[u] = todos[u] /\ told'[u] = told[u]
      /\ \/ todos'[t] = row /\ told'[t] = value
         \/ todos'[t] = todos[t] /\ told'[t] = told[t]
  BY <1>4, <1>7 DEF RowTypes
<1>10. RowTypes'
  BY <1>8, <1>9 DEF RowTypes
<1>11. ASSUME NEW u \in Todos, todos'[u] # None  PROVE todos'[u].completed = told'[u]
  <2>1. todos[u] # None => todos[u].completed = told[u]
    BY DEF ToldIsCompleted
  <2>2. CASE u = t
    BY <1>5, <1>9, <1>11, <2>1, <2>2
  <2>3. CASE u # t
    BY <1>9, <1>11, <2>1, <2>3
  <2> QED  BY <2>2, <2>3
<1>12. ToldIsCompleted'
  <2>1. ASSUME NEW u \in Todos, writing'[u] # None, writing'[u].row # None
        PROVE  /\ writing'[u].row.completed = writing'[u].value
               /\ writing'[u].by >= DualWrites =>
                      writing'[u].row.stamped = writing'[u].row.completed
    <3>1. u # t /\ writing'[u] = writing[u]
      BY <1>8, <2>1
    <3> QED  BY <2>1, <3>1 DEF ToldIsCompleted
  <2> QED  BY <1>11, <2>1 DEF ToldIsCompleted
<1>13. ASSUME Clean  PROVE Clean'
  <2>1. ASSUME NEW u \in Todos, todos'[u] # None
        PROVE  todos'[u].completed = todos'[u].stamped
    <3>1. todos[u] # None => todos[u].completed = todos[u].stamped
      BY <1>13 DEF Clean, Reconciled
    <3>2. CASE u = t
      BY <1>6, <1>9, <1>13, <2>1, <3>1, <3>2
    <3>3. CASE u # t
      BY <1>9, <2>1, <3>1, <3>3
    <3> QED  BY <3>2, <3>3
  <2>2. ASSUME NEW u \in Todos, writing'[u] # None, writing'[u].row # None
        PROVE  writing'[u].row.stamped = writing'[u].row.completed
    <3>1. u # t /\ writing'[u] = writing[u]
      BY <1>8, <2>2
    <3> QED  BY <1>13, <2>2, <3>1 DEF Clean
  <2> QED  BY <2>1, <2>2 DEF Clean, Reconciled
<1> QED  BY <1>10, <1>12, <1>13

LEMMA RequestKeeps ==
  ASSUME ScriptInv, RowTypes, ToldIsCompleted, Request
  PROVE  /\ RowTypes' /\ ToldIsCompleted'
         /\ (Clean /\ Serving >= DualWrites) => Clean'
PROOF
<1>1. Serving \in Int
  <2>1. ScriptTypes
    BY DEF ScriptInv
  <2> QED  BY <2>1, TypeFacts DEF Serving, Services
<1>2. PICK t \in Todos :
         \/ CreateTodo(t, Serving) \/ RemoveTodo(t, Serving)
         \/ \E value \in BOOLEAN : UpdateTodo(t, Serving, value)
         \/ Commits(t) \/ GoesBack(t)
  BY DEF Request
<1>3. CASE CreateTodo(t, Serving)
  <2> DEFINE row == [completed |-> FALSE, stamped |-> FALSE]
  <2>1. row \in Rows /\ row.completed = FALSE /\ row.stamped = row.completed
    BY DEF Rows, Row
  <2>2. Executes(t, Serving, row, FALSE)
    BY <1>3 DEF CreateTodo
  <2>3. FALSE \in Values
    BY DEF Values
  <2> HIDE DEF row
  <2> QED  BY <1>1, <2>1, <2>2, <2>3, ExecutesKeeps
<1>4. CASE RemoveTodo(t, Serving)
  <2>1. Executes(t, Serving, None, None)
    BY <1>4 DEF RemoveTodo
  <2>2. None \in Rows /\ None \in Values
    BY DEF Rows, Values
  <2> QED  BY <1>1, <2>1, <2>2, ExecutesKeeps
<1>5. ASSUME NEW value \in BOOLEAN, UpdateTodo(t, Serving, value)
      PROVE  /\ RowTypes' /\ ToldIsCompleted'
             /\ (Clean /\ Serving >= DualWrites) => Clean'
  <2> DEFINE row == IF Serving >= DualWrites THEN SetCompleted(todos[t], value)
                    ELSE SetByOldProgram(todos[t], value)
  <2>1. Executes(t, Serving, row, value)
    BY <1>5 DEF UpdateTodo
  <2>2. todos[t] \in Row
    BY <1>5 DEF UpdateTodo, RowTypes, Rows
  <2>3. row \in Row /\ row.completed = value
        /\ (Serving >= DualWrites => row.stamped = row.completed)
    <3>1. CASE Serving >= DualWrites
      <4>1. row = [completed |-> value, stamped |-> value]
        BY <3>1 DEF SetCompleted
      <4> HIDE DEF row
      <4> QED  BY <4>1 DEF Row
    <3>2. CASE ~(Serving >= DualWrites)
      <4>1. row = [todos[t] EXCEPT !.completed = value]
        BY <3>2 DEF SetByOldProgram
      <4> HIDE DEF row
      <4> QED  BY <2>2, <3>2, <4>1 DEF Row
    <3> QED  BY <3>1, <3>2
  <2>4. value \in Values /\ row \in Rows
    <3> HIDE DEF row
    <3> QED  BY <2>3 DEF Values, Rows
  <2> HIDE DEF row
  <2> QED  BY <1>1, <2>1, <2>3, <2>4, ExecutesKeeps
<1>6. CASE Commits(t) \/ GoesBack(t)
  BY <1>6, CommitsKeeps
<1> QED  BY <1>2, <1>3, <1>4, <1>5, <1>6

(* The backfill changes a stamp where the columns differ, and no more.     *)
LEMMA BatchKeeps ==
  ASSUME RowTypes, ToldIsCompleted, StampBatch \/ ClearBatch
  PROVE  RowTypes' /\ ToldIsCompleted' /\ (Clean => Clean')
PROOF
<1>1. writing' = writing /\ told' = told
  BY DEF StampBatch, ClearBatch
<1>2. ASSUME NEW t \in Todos
      PROVE  \/ todos'[t] = todos[t]
             \/ /\ todos[t] # None /\ todos[t].completed # todos[t].stamped
                /\ \E stamped \in BOOLEAN : todos'[t] = [todos[t] EXCEPT !.stamped = stamped]
  <2>1. CASE StampBatch
    <3>1. todos'[t] = IF t \in Batch(Unstamped) THEN [todos[t] EXCEPT !.stamped = TRUE]
                      ELSE todos[t]
      BY <2>1 DEF StampBatch
    <3>2. t \in Batch(Unstamped) =>
             todos[t] # None /\ todos[t].completed /\ ~todos[t].stamped
      BY DEF Batch, Unstamped, Unlocked
    <3>3. CASE t \in Batch(Unstamped)
      BY <3>1, <3>2, <3>3
    <3>4. CASE t \notin Batch(Unstamped)
      BY <3>1, <3>4
    <3> QED  BY <3>3, <3>4
  <2>2. CASE ClearBatch
    <3>1. todos'[t] = IF t \in Batch(StaleStamp) THEN [todos[t] EXCEPT !.stamped = FALSE]
                      ELSE todos[t]
      BY <2>2 DEF ClearBatch
    <3>2. t \in Batch(StaleStamp) =>
             todos[t] # None /\ ~todos[t].completed /\ todos[t].stamped
      BY DEF Batch, StaleStamp, Unlocked
    <3>3. CASE t \in Batch(StaleStamp)
      BY <3>1, <3>2, <3>3
    <3>4. CASE t \notin Batch(StaleStamp)
      BY <3>1, <3>4
    <3> QED  BY <3>3, <3>4
  <2> QED  BY <2>1, <2>2
<1>3. ASSUME NEW t \in Todos
      PROVE  /\ todos'[t] \in Rows
             /\ todos'[t] # None => todos[t] # None /\ todos'[t].completed = todos[t].completed
  <2>1. CASE todos'[t] = todos[t]
    BY <2>1 DEF RowTypes
  <2>2. ASSUME todos[t] # None, NEW stamped \in BOOLEAN,
               todos'[t] = [todos[t] EXCEPT !.stamped = stamped]
        PROVE  /\ todos'[t] \in Rows
               /\ todos'[t] # None => todos[t] # None /\ todos'[t].completed = todos[t].completed
    <3>1. todos[t] \in Row
      BY <2>2 DEF RowTypes, Rows
    <3>2. todos'[t] \in Row /\ todos'[t].completed = todos[t].completed
      BY <2>2, <3>1 DEF Row
    <3> QED  BY <2>2, <3>2 DEF Rows
  <2> QED  BY <1>2, <2>1, <2>2
<1>4. RowTypes'
  <2>1. todos' \in [Todos -> Rows]
    BY <1>3 DEF StampBatch, ClearBatch
  <2> QED  BY <1>1, <2>1 DEF RowTypes
<1>5. ToldIsCompleted'
  BY <1>1, <1>3 DEF ToldIsCompleted
<1>6. ASSUME Clean  PROVE Clean'
  <2>1. \A t \in Todos : todos'[t] = todos[t]
    BY <1>2, <1>6 DEF Clean, Reconciled
  <2> QED  BY <1>1, <1>6, <2>1 DEF Clean, Reconciled
<1> QED  BY <1>4, <1>5, <1>6

(* While the stamps matter, whatever answers writes both columns.          *)
LEMMA MattersLate ==
  ASSUME ScriptInv, StampsMatter
  PROVE  Serving >= DualWrites
PROOF
<1> DEFINE v == deploy.version
           want == cloud["api"].want
           serving == cloud["api"].serving
<1>1. ScriptTypes /\ AtRest /\ TakesPart /\ VersionsNear /\ MovedSeen
  BY DEF ScriptInv, Traffic
<1>2. /\ v \in Int /\ want \in Int /\ serving \in Int
      /\ DualWrites \in Nat /\ ReadsStamps \in Nat /\ DualWrites < ReadsStamps
      /\ deploy.previous["api"] \in Int
  BY <1>1, TypeFacts, TodoColumnsAssumption DEF Services
<1>3. ~Idle
  <2>1. ASSUME Idle  PROVE FALSE
    <3>1. want = 0 /\ serving = 0 /\ deploy.previous["api"] = -1
      BY <1>1, <2>1 DEF AtRest, Services, Unknown
    <3>2. ~Forward
      BY <2>1 DEF Idle, Forward, Running
    <3>3. /\ ~(want >= ReadsStamps) /\ ~(serving >= ReadsStamps)
          /\ ~(deploy.previous["api"] >= ReadsStamps)
      BY <1>2, <3>1
    <3> QED  BY <3>2, <3>3 DEF StampsMatter
  <2> QED  BY <2>1
<1>4. /\ deploy.previous["api"] = v - 1
      /\ want <= v /\ serving <= v
      /\ "api" \notin deploy.attempted => want < v
      /\ "api" \notin deploy.moved => serving >= v - 1
      /\ serving >= v - 2
      /\ "api" \in deploy.moved => want < v /\ serving < v
  BY <1>1, <1>3 DEF TakesPart, VersionsNear, Near, Part, Services, MovedSeen, Lower
<1>5. \/ deploy.previous["api"] >= ReadsStamps
      \/ want >= ReadsStamps
      \/ serving >= ReadsStamps
      \/ "api" \notin deploy.moved /\ v >= ReadsStamps
  BY DEF StampsMatter
<1> HIDE DEF v, want, serving
<1>6. serving >= DualWrites
  BY <1>2, <1>4, <1>5
<1> QED  BY <1>6 DEF Serving, serving

(* No step of the script makes the stamps matter.                          *)
Kept ==
    /\ deploy'.previous["api"] = deploy.previous["api"]
    /\ cloud'["api"].want >= ReadsStamps => StampsMatter
    /\ cloud'["api"].serving >= ReadsStamps => StampsMatter
    /\ Forward' => /\ Forward /\ Left' <= Left /\ deploy'.version = deploy.version
                   /\ deploy.moved \subseteq deploy'.moved

LEMMA KeptMatters ==
  ASSUME ScriptTypes, ScriptTypes', Kept, StampsMatter'
  PROVE  StampsMatter
PROOF
<1>1. /\ Left \in Int /\ Left' \in Int
      /\ (Left' <= Left /\ Left' >= 3 => Left >= 3)
  <2>1. Left \in Nat
    BY TypeFacts
  <2>2. Left' \in Nat
    <3>1. deploy'.calls \in CallSeqs
      BY DEF ScriptTypes, DeployType
    <3> QED  BY <3>1 DEF CallSeqs, Left
  <2> QED  BY <2>1, <2>2
<1>2. CASE deploy'.previous["api"] >= ReadsStamps
  BY <1>2 DEF Kept, StampsMatter
<1>3. CASE cloud'["api"].want >= ReadsStamps \/ cloud'["api"].serving >= ReadsStamps
  BY <1>3 DEF Kept
<1>4. CASE Forward' /\ Left' >= 3 /\ "api" \notin deploy'.moved /\ deploy'.version >= ReadsStamps
  BY <1>1, <1>4 DEF Kept, StampsMatter
<1> QED  BY <1>2, <1>3, <1>4 DEF StampsMatter

LEMMA ForwardMatters ==
  ASSUME ScriptInv, Forward, deploy.calls # <<>>, Shifted,
         deploy'.previous["api"] = deploy.previous["api"],
         deploy'.version = deploy.version, deploy'.moved = deploy.moved,
         Forward' => Left' <= Left
  PROVE  Kept
PROOF
<1>1. ScriptTypes /\ MovedSeen
  BY DEF ScriptInv, Traffic
<1>2. /\ IF At("api", 3)
         THEN /\ cloud'["api"].want \in {cloud["api"].want, deploy.version}
              /\ cloud'["api"].serving \in {cloud["api"].serving, deploy.version}
         ELSE cloud'["api"].want = cloud["api"].want
              /\ cloud'["api"].serving = cloud["api"].serving
  BY DEF Shifted, Services
<1>3. At("api", 3) /\ deploy.version >= ReadsStamps => StampsMatter
  <2>1. SUFFICES ASSUME At("api", 3), deploy.version >= ReadsStamps  PROVE StampsMatter
    OBVIOUS
  <2>2. Left = 3
    BY <2>1 DEF At, LeftOf
  <2>3. Left >= 3 /\ ~(Left >= 5 \/ Left = 2)
    BY <2>2
  <2>4. "api" \notin deploy.moved
    BY <1>1, <2>3 DEF MovedSeen
  <2> QED  BY <2>1, <2>3, <2>4 DEF StampsMatter
<1>4. /\ cloud["api"].want >= ReadsStamps => StampsMatter
      /\ cloud["api"].serving >= ReadsStamps => StampsMatter
  BY DEF StampsMatter
<1>5. /\ cloud'["api"].want >= ReadsStamps => StampsMatter
      /\ cloud'["api"].serving >= ReadsStamps => StampsMatter
  BY <1>2, <1>3, <1>4
<1> QED  BY <1>5 DEF Kept

LEMMA BackMatters ==
  ASSUME ScriptInv, Backward, deploy.calls # <<>>, Turned
  PROVE  Kept
PROOF
<1>1. /\ cloud'["api"].want \in {cloud["api"].want, deploy.previous["api"]}
      /\ cloud'["api"].serving \in {cloud["api"].serving, deploy.previous["api"]}
      /\ deploy'.failed = TRUE /\ deploy'.previous = deploy.previous
  BY DEF Turned, Services
<1>2. ~Forward'
  BY <1>1 DEF Forward
<1>3. /\ cloud["api"].want >= ReadsStamps => StampsMatter
      /\ cloud["api"].serving >= ReadsStamps => StampsMatter
      /\ deploy.previous["api"] >= ReadsStamps => StampsMatter
  BY DEF StampsMatter
<1> QED  BY <1>1, <1>2, <1>3 DEF Kept

LEMMA SettledMatters ==
  ASSUME Settled
  PROVE  Kept
PROOF
<1>1. /\ cloud'["api"].want = cloud["api"].want
      /\ cloud'["api"].serving = cloud["api"].serving
      /\ deploy'.previous = deploy.previous /\ ~Forward'
  BY DEF Settled, Services, Forward, Running
<1> QED  BY <1>1 DEF Kept, StampsMatter

LEMMA CallMatters ==
  ASSUME ScriptInv, Returns \/ Fails
  PROVE  Kept
PROOF
<1>1. /\ ScriptTypes /\ NothingLeft /\ OnPlan /\ deploy.calls # <<>>
  BY DEF ScriptInv, Course, Returns, Fails
<1>2. deploy.phase \in Phases /\ deploy.calls \in Seq(CallType)
  BY <1>1, TypeFacts
<1>3. Running \/ deploy.phase = "cleaning"
  BY <1>1, <1>2 DEF NothingLeft, Phases, Running, Idle
<1>4. CASE deploy.phase = "cleaning"
  BY <1>4, CallCleans, SettledMatters DEF Cleaned
<1>5. CASE Running
  <2>1. Forward \/ Backward
    BY <1>1, <1>5, CallTurns
  <2>2. ASSUME Forward, Raised  PROVE Kept
    <3>1. /\ deploy'.previous = deploy.previous /\ deploy'.version = deploy.version
          /\ deploy'.moved = deploy.moved /\ Noted
          /\ \/ cloud' = cloud
             \/ \E image \in {"released", "other"}, waited \in BOOLEAN :
                    Changed(cloud', Call, image, waited)
      BY <2>2 DEF Raised, Alike
    <3>2. ~Forward'
      BY <2>2 DEF Raised, Forward
    <3>3. Shifted
      BY <1>1, <2>2, <3>1, ShiftedFacts
    <3> QED  BY <1>1, <2>2, <3>1, <3>2, <3>3, ForwardMatters
  <2>3. ASSUME Forward, NEW image \in {"released", "other"}, NEW waited \in BOOLEAN,
               Passed(image, waited)
        PROVE  Kept
    <3>1. /\ deploy'.version = deploy.version /\ deploy'.moved = deploy.moved /\ Noted
          /\ Changed(cloud', Call, image, waited) /\ deploy'.calls = Tail(deploy.calls)
      BY <2>3 DEF Passed, Alike
    <3>2. deploy'.previous["api"] = deploy.previous["api"]
      BY <2>3 DEF Passed, Services
    <3>3. Shifted
      BY <1>1, <2>3, <3>1, ShiftedFacts
    <3>4. Left' <= Left
      BY <1>1, <1>2, <3>1, TailFacts DEF Left
    <3> QED  BY <1>1, <2>3, <3>1, <3>2, <3>3, <3>4, ForwardMatters
  <2>4. ASSUME Backward  PROVE Kept
    <3>1. Turned
      BY <2>4, ReturnsBackward, FailsBackward DEF WentOn, GaveUp
    <3> QED  BY <1>1, <2>4, <3>1, BackMatters
  <2> QED  BY <2>1, <2>2, <2>3, <2>4, ReturnsForward, FailsForward
<1> QED  BY <1>3, <1>4, <1>5

LEMMA InterruptionMatters ==
  ASSUME ScriptInv, Interrupted
  PROVE  Kept
PROOF
<1>1. /\ deploy.calls # <<>>
      /\ (Forward /\ CutForward) \/ (Backward /\ CutBack)
  BY InterruptedFacts
<1>2. CASE Forward /\ CutForward
  <2>1. /\ deploy'.previous = deploy.previous /\ deploy'.version = deploy.version
        /\ deploy'.moved = deploy.moved /\ Noted
        /\ \/ cloud' = cloud
           \/ \E image \in {"released", "other"}, waited \in BOOLEAN :
                  Changed(cloud', Call, image, waited)
    BY <1>2 DEF CutForward
  <2>2. ~Forward'
    BY <1>2 DEF CutForward, Forward
  <2>3. Shifted
    BY <1>1, <1>2, <2>1, ShiftedFacts
  <2> QED  BY <1>1, <1>2, <2>1, <2>2, <2>3, ForwardMatters
<1>3. CASE Backward /\ CutBack
  BY <1>1, <1>3, BackMatters DEF CutBack
<1> QED  BY <1>1, <1>2, <1>3

LEMMA OthersMatter ==
  ASSUME ScriptInv, Finally \/ Summarize \/ Arrives \/ Meddles \/ RollBack
  PROVE  Kept
PROOF
<1>1. /\ deploy \in DeployType /\ cloud \in CloudType /\ "api" \in Services
      /\ cloud["api"] \in ServiceType
      /\ cloud["api"].want \in Int /\ cloud["api"].serving \in Int
      /\ Left \in Int /\ ReadsStamps \in Int
  <2>1. ScriptTypes
    BY DEF ScriptInv
  <2>2. /\ deploy \in DeployType /\ cloud \in CloudType /\ "api" \in Services
        /\ cloud["api"].want \in Int /\ cloud["api"].serving \in Int /\ Left \in Nat
    BY <2>1, TypeFacts DEF Services
  <2>3. cloud["api"] \in ServiceType
    BY <2>2 DEF CloudType
  <2>4. Left \in Int /\ ReadsStamps \in Int
    BY <2>2, TodoColumnsAssumption
  <2> QED  BY <2>2, <2>3, <2>4
<1>2. /\ cloud["api"].want >= ReadsStamps => StampsMatter
      /\ cloud["api"].serving >= ReadsStamps => StampsMatter
      /\ deploy.previous["api"] >= ReadsStamps => StampsMatter
  BY DEF StampsMatter
<1>3. CASE Finally \/ Summarize
  <2>1. /\ cloud' = cloud /\ deploy'.previous = deploy.previous
        /\ deploy'.phase \in {"cleaning", "ended"}
    BY <1>1, <1>3 DEF Finally, Summarize, DeployType
  <2> QED  BY <1>2, <2>1 DEF Kept, Forward, Running
<1>4. CASE Arrives
  <2>1. deploy' = deploy
    BY <1>4 DEF Arrives
  <2>2. /\ cloud'["api"].want = cloud["api"].want
        /\ cloud'["api"].serving \in {cloud["api"].serving, cloud["api"].want}
    <3>1. PICK r \in Services : cloud' = [cloud EXCEPT ![r].serving = cloud[r].want]
      BY <1>4 DEF Arrives
    <3>2. cloud[r] \in ServiceType
      BY <1>1 DEF CloudType
    <3>3. cloud'["api"] = IF r = "api" THEN [cloud["api"] EXCEPT !.serving = cloud["api"].want]
                          ELSE cloud["api"]
      BY <1>1, <3>1 DEF CloudType
    <3> QED  BY <1>1, <3>3 DEF ServiceType
  <2>3. Forward' => Forward /\ Left' <= Left
    BY <1>1, <2>1 DEF Forward, Running, Left
  <2> QED  BY <1>2, <2>1, <2>2, <2>3 DEF Kept
<1>5. CASE Meddles
  <2>1. PICK r \in Services :
           /\ cloud' = Told(r, cloud[r].serving - 1, TRUE)
           /\ deploy' = [deploy EXCEPT !.moved = @ \cup {r}]
    BY <1>5 DEF Meddles
  <2>2. /\ deploy'.previous = deploy.previous /\ deploy'.version = deploy.version
        /\ deploy'.phase = deploy.phase /\ deploy'.failed = deploy.failed
        /\ deploy'.cut = deploy.cut /\ deploy'.calls = deploy.calls
        /\ deploy.moved \subseteq deploy'.moved
    BY <1>1, <2>1 DEF DeployType
  <2>3. cloud'["api"] = IF r = "api"
                        THEN [cloud["api"] EXCEPT !.want = cloud["api"].serving - 1,
                                                  !.serving = cloud["api"].serving - 1]
                        ELSE cloud["api"]
    <3>1. cloud' = [cloud EXCEPT ![r].want = cloud[r].serving - 1,
                                 ![r].serving = cloud[r].serving - 1]
      BY <2>1 DEF Told
    <3>2. CASE r = "api"
      <4> DEFINE low == cloud["api"].serving - 1
                 n == [cloud["api"] EXCEPT !.want = low, !.serving = low]
      <4>1. cloud' = [cloud EXCEPT !["api"] = n]
        BY <1>1, <3>1, <3>2 DEF CloudType, ServiceType
      <4> HIDE DEF n
      <4>2. cloud'["api"] = n
        BY <1>1, <4>1 DEF CloudType
      <4> QED  BY <3>2, <4>2 DEF n
    <3>3. CASE r # "api"
      BY <1>1, <3>1, <3>3 DEF CloudType
    <3> QED  BY <3>2, <3>3
  <2>4. \/ cloud'["api"].want = cloud["api"].want /\ cloud'["api"].serving = cloud["api"].serving
        \/ /\ cloud'["api"].want = cloud["api"].serving - 1
           /\ cloud'["api"].serving = cloud["api"].serving - 1
    BY <1>1, <2>3 DEF ServiceType
  <2>5. cloud["api"].serving - 1 >= ReadsStamps => cloud["api"].serving >= ReadsStamps
    BY <1>1
  <2>6. Forward' => Forward /\ Left' <= Left
    BY <1>1, <2>2 DEF Forward, Running, Left
  <2> QED  BY <1>2, <2>2, <2>4, <2>5, <2>6 DEF Kept
<1>6. CASE RollBack
  <2>1. /\ deploy' = deploy /\ deploy.phase = "ended"
        /\ cloud'["api"] = IF deploy.previous["api"] = Unknown THEN cloud["api"]
                           ELSE [cloud["api"] EXCEPT !.want = deploy.previous["api"],
                                                     !.serving = deploy.previous["api"]]
    BY <1>1, <1>6 DEF RollBack
  <2>2. /\ cloud'["api"].want \in {cloud["api"].want, deploy.previous["api"]}
        /\ cloud'["api"].serving \in {cloud["api"].serving, deploy.previous["api"]}
    BY <1>1, <2>1 DEF ServiceType
  <2> QED  BY <1>2, <2>1, <2>2 DEF Kept, Forward, Running
<1> QED  BY <1>3, <1>4, <1>5, <1>6

(* A release that starts makes the stamps matter only past the gate.       *)
LEMMA BeginMatters ==
  ASSUME ScriptInv, ToldIsCompleted, NEW v \in Nat, v >= ReadsStamps => GatePassed,
         Begin(v), StampsMatter'
  PROVE  StampsMatter \/ Clean
PROOF
<1>1. Starts(v)
  BY BeginFacts
<1>2. /\ deploy'.previous["api"] = v - 1 /\ deploy'.version = v
      /\ cloud'["api"].want = cloud["api"].want
      /\ cloud'["api"].serving = cloud["api"].serving
      /\ cloud["api"].serving = v - 1
  BY <1>1 DEF Starts, Services, Part
<1>3. ASSUME GatePassed  PROVE Clean
  BY <1>3 DEF GatePassed, Clean, ToldIsCompleted
<1> QED  BY <1>2, <1>3 DEF StampsMatter

(* The columns agree wherever it matters.                                  *)
LEMMA ColumnsStart ==
  ASSUME Init
  PROVE  RowTypes /\ ToldIsCompleted /\ StampsKept
PROOF
<1>1. \A t \in Todos : todos[t] = None /\ writing[t] = None /\ told[t] = None
  BY DEF Init, TodosInit
<1>2. RowTypes
  BY DEF Init, TodosInit, RowTypes, Rows, Values
<1> QED  BY <1>1, <1>2 DEF ToldIsCompleted, StampsKept, Clean, Reconciled

LEMMA ColumnsSteps ==
  ASSUME ReleaseInv, [Next]_vars
  PROVE  ReleaseInv'
PROOF
<1>1. ScriptInv /\ RowTypes /\ ToldIsCompleted /\ StampsKept
  BY DEF ReleaseInv
<1>2. ScriptInv' /\ ScriptTypes /\ ScriptTypes'
  <2>1. ScriptInv'
    BY <1>1, ScriptSteps
  <2> QED  BY <1>1, <2>1 DEF ScriptInv
<1>3. ASSUME UNCHANGED todoVars
      PROVE  RowTypes' /\ ToldIsCompleted' /\ (Clean => Clean')
  BY <1>1, <1>3 DEF todoVars, RowTypes, ToldIsCompleted, Clean, Reconciled
<1>4. ASSUME UNCHANGED releaseVars  PROVE StampsMatter' => StampsMatter
  BY <1>4 DEF releaseVars, StampsMatter, Forward, Running, Left
<1>5. CASE Releases
  <2>1. PICK v \in 1..Latest : (v >= ReadsStamps => GatePassed) /\ Begin(v)
    BY <1>5 DEF Releases
  <2>2. v \in Nat
    BY ReleaseDeployAssumption
  <2>3. StampsMatter' => StampsMatter \/ Clean
    BY <1>1, <2>1, <2>2, BeginMatters
  <2>4. UNCHANGED todoVars
    BY <1>5 DEF Releases
  <2> QED  BY <1>1, <1>2, <1>3, <2>3, <2>4 DEF ReleaseInv, StampsKept
<1>6. CASE RollsBack \/ Script
  <2>1. Kept
    BY <1>1, <1>6, CallMatters, InterruptionMatters, OthersMatter DEF RollsBack, Script, ReleaseStep
  <2>2. UNCHANGED todoVars
    BY <1>6 DEF RollsBack, Script
  <2>3. StampsMatter' => StampsMatter
    BY <1>2, <2>1, KeptMatters
  <2> QED  BY <1>1, <1>2, <1>3, <2>2, <2>3 DEF ReleaseInv, StampsKept
<1>7. CASE Request
  <2>1. /\ RowTypes' /\ ToldIsCompleted'
        /\ (Clean /\ Serving >= DualWrites) => Clean'
    BY <1>1, <1>7, RequestKeeps
  <2>2. StampsMatter' => StampsMatter
    BY <1>4, <1>7 DEF Request
  <2>3. StampsMatter => Serving >= DualWrites
    BY <1>1, MattersLate
  <2> QED  BY <1>1, <1>2, <2>1, <2>2, <2>3 DEF ReleaseInv, StampsKept
<1>8. CASE BackfillRuns
  <2>1. RowTypes' /\ ToldIsCompleted' /\ (Clean => Clean')
    BY <1>1, <1>8, BatchKeeps DEF BackfillRuns
  <2>2. StampsMatter' => StampsMatter
    BY <1>4, <1>8 DEF BackfillRuns
  <2> QED  BY <1>1, <1>2, <2>1, <2>2 DEF ReleaseInv, StampsKept
<1>9. CASE UNCHANGED releaseVars /\ UNCHANGED <<todos, writing, told>>
  <2>1. RowTypes' /\ ToldIsCompleted' /\ (Clean => Clean')
    BY <1>1, <1>9 DEF RowTypes, ToldIsCompleted, Clean, Reconciled
  <2>2. StampsMatter' => StampsMatter
    BY <1>4, <1>9
  <2> QED  BY <1>1, <1>2, <2>1, <2>2 DEF ReleaseInv, StampsKept
<1> QED
  BY <1>5, <1>6, <1>7, <1>8, <1>9
  DEF Next, BackfillStarts, StartBackfill, BackfillDies, vars, todoVars

(* A user is shown the completion that was last acknowledged, whatever     *)
(* version answers.                                                        *)
THEOREM UsersReadTheTruth == Spec => []ReadsTrue
PROOF
<1>1. Init => ReleaseInv
  BY ScriptStarts, ColumnsStart DEF ReleaseInv
<1>2. ReleaseInv /\ [Next]_vars => ReleaseInv'
  BY ColumnsSteps
<1>3. ReleaseInv => ReadsTrue
  <2>1. ASSUME ReleaseInv, NEW t \in Todos, todos[t] # None
        PROVE  Shown(todos[t], Serving) = told[t]
    <3>1. todos[t].completed = told[t]
      BY <2>1 DEF ReleaseInv, ToldIsCompleted
    <3>2. Serving >= ReadsStamps => todos[t].completed = todos[t].stamped
      BY <2>1 DEF ReleaseInv, StampsKept, StampsMatter, Clean, Reconciled, Serving
    <3> QED  BY <3>1, <3>2 DEF Shown
  <2> QED  BY <2>1 DEF ReadsTrue
<1> QED  BY <1>1, <1>2, <1>3, PTL DEF Spec
=============================================================================

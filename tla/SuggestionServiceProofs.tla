----------------------- MODULE SuggestionServiceProofs -----------------------
(***************************************************************************)
(* Proofs about SuggestionService for every number of plans, requests,     *)
(* rows, API processes, workers and sweeps, and every length of the two    *)
(* deadlines.                                                              *)
(***************************************************************************)
EXTENDS SuggestionService, FiniteSetTheorems, SequenceTheorems, TLAPS

(* The row of a plan that went on is a row.                                *)
LEMMA AdvancedType ==
    ASSUME NEW row \in Row, NEW c \in Command, Accepts(row.state, c), NEW base \in Nat
    PROVE  Advanced(row, c, base) \in Row
  <1>. DEFINE tr == Transition(row, c)
              cr == CreatedTodos(TitlesToCreate(row, c), base)
  <1>1. TitlesToCreate(row, c) \in Seq(Titles) /\ NextProposals(row, c) \in Seq(Titles)
    <2>1. /\ c.kind = "submit" => c.titles \in Seq(Titles)
          /\ <<row.title>> \in Seq(Titles) /\ row.proposals \in Seq(Titles)
          /\ <<>> \in Seq(Titles)
      BY BreakdownsAssumption DEF Command, Row
    <2>. QED  BY <2>1 DEF TitlesToCreate, NextProposals
  <1>2. cr \in Seq(CreatedTodo)
    <2>1. ASSUME NEW titles \in Seq(Titles)
          PROVE  CreatedTodos(titles, base) \in Seq(CreatedTodo)
      <3>1. \A i \in 1..Len(titles) : [id |-> base + i, title |-> titles[i]] \in CreatedTodo
        BY DEF CreatedTodo
      <3>. QED  BY <3>1 DEF CreatedTodos
    <2>. QED  BY <1>1, <2>1
  <1>3. tr \in Row
    <2>1. NextState(row.state, c) \in States
      BY DEF NextState, States, ActiveStates, TerminalStates
    <2>2. NextFlag(row, c) \in Flags
      BY DEF NextFlag, Flags, Row
    <2>. QED  BY <1>1, <2>1, <2>2 DEF Transition, Row
  <1>. DEFINE n == row.revision + 1
  <1>4. Advanced(row, c, base) = [tr EXCEPT !.revision = n, !.created = cr]
    BY DEF Advanced
  <1>5. n \in Nat
    BY DEF Row
  <1>. HIDE DEF tr, cr, n
  <1>. QED  BY <1>2, <1>3, <1>4, <1>5 DEF Row

ApiState == {Idle} \cup Reserving \cup LookingUp \cup Loaded \cup Reading
              \cup Answering \cup Calling \cup Saving
WorkerState == {Idle} \cup Claiming \cup Claimed \cup Finishing
SweepState  == {Idle} \cup Sweeping

(* What a process holds is known by its pc.                                *)
LEMMA ApiShapes ==
    ASSUME NEW t \in ApiState
    PROVE  /\ t.pc = "reserving" => t \in Reserving
           /\ t.pc = "looking" => t \in LookingUp
           /\ t.pc \in {"enqueueing", "reading"} => t \in Loaded
           /\ t.pc = "found" => t \in Reading
           /\ t.pc = "answering" => t \in Answering
           /\ t.pc = "calling" => t \in Calling
           /\ t.pc = "saving" => t \in Saving
           /\ t.pc = "idle" => t = Idle
  BY DEF ApiState, Idle, Reserving, LookingUp, Loaded, Reading, Answering,
         Calling, Saving

LEMMA WorkerShapes ==
    ASSUME NEW t \in WorkerState
    PROVE  /\ t.pc = "claiming" => t \in Claiming
           /\ t.pc = "claimed" => t \in Claimed
           /\ t.pc = "finishing" => t \in Finishing
           /\ t.pc = "idle" => t = Idle
  BY DEF WorkerState, Idle, Claiming, Claimed, Finishing

LEMMA SweepShapes ==
    ASSUME NEW t \in SweepState
    PROVE  /\ t.pc = "sweeping" => t \in Sweeping
           /\ t.pc = "idle" => t = Idle
  BY DEF SweepState, Idle, Sweeping

(* A row with another status, or with a claim marker, is a row, and is the *)
(* same in everything else.                                                *)
LEMMA RowWithStatus ==
    ASSUME NEW row \in SuggestionRow, NEW s \in Statuses
    PROVE  /\ [row EXCEPT !.status = s] \in SuggestionRow
           /\ [row EXCEPT !.status = s].payload = row.payload
           /\ [row EXCEPT !.status = s].status = s
           /\ [row EXCEPT !.status = s].started = row.started
           /\ [row EXCEPT !.status = s].workflow = row.workflow
           /\ [row EXCEPT !.status = s].request = row.request
           /\ [row EXCEPT !.status = s].cloud = row.cloud
           /\ [row EXCEPT !.status = s].queued = row.queued
           /\ [row EXCEPT !.status = s].expires = row.expires
  BY DEF SuggestionRow

LEMMA RowWithMarker ==
    ASSUME NEW row \in SuggestionRow, NEW now \in Nat
    PROVE  /\ [row EXCEPT !.started = now] \in SuggestionRow
           /\ [row EXCEPT !.started = now].payload = row.payload
           /\ [row EXCEPT !.started = now].started = now
           /\ [row EXCEPT !.started = now].status = row.status
           /\ [row EXCEPT !.started = now].workflow = row.workflow
           /\ [row EXCEPT !.started = now].request = row.request
           /\ [row EXCEPT !.started = now].cloud = row.cloud
           /\ [row EXCEPT !.started = now].queued = row.queued
           /\ [row EXCEPT !.started = now].expires = row.expires
  BY DEF SuggestionRow

LEMMA PendingRowType ==
    ASSUME NEW w \in WorkflowIds, NEW r \in RequestIds, NEW m \in SuggestPayload,
           NEW c \in BOOLEAN, NEW now \in Nat
    PROVE  PendingRow(w, r, m, c, now) \in SuggestionRow
  BY TTLAssumption DEF PendingRow, SuggestionRow, Statuses, FinalStatuses

-----------------------------------------------------------------------------
(* The inductive invariant.  Row ids are given out in order; a process     *)
(* only works on rows there are, of the kind its mode makes, on a clock    *)
(* not before the row's; rows are within the table's constraints; what a   *)
(* sweep has doomed is pending and locked, and no two sweeps hold one      *)
(* workflow.                                                               *)
IdsInv ==
    /\ lastId <= MaxSuggestions
    /\ \A i \in SuggestionIds : Used(suggestions, i) <=> i <= lastId

CloudRow(i, now) ==
    /\ i \in SuggestionIds
    /\ Used(suggestions, i)
    /\ suggestions[i].cloud
    /\ suggestions[i].queued <= now

ApiRefs(t) ==
    /\ t.pc = "reserving" => t.now <= clock
    /\ t.pc \in {"looking", "enqueueing"} => CloudRow(t.id, clock)
    /\ t.pc = "calling" => Used(suggestions, t.id) /\ ~suggestions[t.id].cloud
    /\ t.pc = "saving" => /\ Used(suggestions, t.id)
                          /\ suggestions[t.id].cloud => t.result = "failed"

WorkerRefs(t) ==
    /\ t.pc \in {"claiming", "finishing"} => CloudRow(t.id, t.now) /\ t.now <= clock
    /\ t.pc = "claimed" => CloudRow(t.id, clock)

RefsInv ==
    /\ \A i \in tasks : CloudRow(i, clock)
    /\ \A p \in Callers : ApiRefs(api[p])
    /\ \A q \in Workers : WorkerRefs(worker[q])

LocksInv ==
    /\ \A s \in Sweepers : sweep[s].pc = "sweeping" =>
          /\ \A i \in sweep[s].left : Used(suggestions, i)
          /\ \A i \in sweep[s].doomed :
                /\ Pending(suggestions, i)
                /\ suggestions[i].cloud
                /\ suggestions[i].workflow \in sweep[s].held
    /\ \A s1, s2 \in Sweepers :
          /\ sweep[s1].pc = "sweeping" /\ sweep[s2].pc = "sweeping" /\ s1 # s2
          => sweep[s1].held \cap sweep[s2].held = {}

RowsInv ==
    /\ TableChecksHold
    /\ \A i \in SuggestionIds : Used(suggestions, i) => suggestions[i].queued <= clock

Inv == TypeOK /\ IdsInv /\ RowsInv /\ RefsInv /\ LocksInv

LEMMA InvInit == Init => Inv
  <1>. SUFFICES ASSUME Init PROVE Inv
    OBVIOUS
  <1>1. TypeOK
    BY SuggestionServiceAssumption DEF Init, TypeOK
  <1>2. IdsInv
    BY MaxSuggestionsAssumption DEF Init, IdsInv, Used, SuggestionIds
  <1>3. RefsInv
    BY DEF Init, RefsInv, ApiRefs, WorkerRefs, Idle
  <1>4. LocksInv
    BY DEF Init, LocksInv, Idle
  <1>5. RowsInv
    BY DEF Init, RowsInv, TableChecksHold, Used
  <1>. QED  BY <1>1, <1>2, <1>3, <1>4, <1>5 DEF Inv

(* Outbox counters stay counters.                                          *)
LEMMA RecordType ==
    ASSUME TypeOK, NEW w \in WorkflowIds, NEW o \in Outcomes, Record(w, o)
    PROVE  outbox' \in [WorkflowIds -> [Outcomes -> Nat]]
  <1>1. outbox[w][o] + 1 \in Nat
    BY DEF TypeOK
  <1>2. outbox' = [outbox EXCEPT ![w] = [outbox[w] EXCEPT ![o] = outbox[w][o] + 1]]
    BY DEF Record, TypeOK
  <1>3. [outbox[w] EXCEPT ![o] = outbox[w][o] + 1] \in [Outcomes -> Nat]
    BY <1>1 DEF TypeOK
  <1>. QED  BY <1>2, <1>3 DEF TypeOK

(* The rows after one of them got another status.                          *)
LEMMA SetStatusType ==
    ASSUME TypeOK, NEW i \in SuggestionIds, Used(suggestions, i),
           NEW st \in Statuses, SetStatus(i, st)
    PROVE  /\ suggestions' \in [SuggestionIds -> SuggestionRow \cup {None}]
           /\ suggestions[i] \in SuggestionRow
           /\ suggestions[i].workflow \in WorkflowIds
  <1>1. suggestions[i] \in SuggestionRow
    BY DEF TypeOK, Used
  <1>2. suggestions[i].workflow \in WorkflowIds
    BY <1>1 DEF SuggestionRow
  <1>3. suggestions' = [suggestions EXCEPT ![i] = [suggestions[i] EXCEPT !.status = st]]
    BY DEF SetStatus, TypeOK
  <1>. QED  BY <1>1, <1>2, <1>3, RowWithStatus DEF TypeOK

-----------------------------------------------------------------------------
(* Every step keeps the types, first the steps of API processes.           *)
LEMMA ApiTypes ==
    ASSUME Inv, NEW p \in Callers, ApiStep(p)
    PROVE  TypeOK'
  <1>. USE DEF Inv
  <1>0. api \in [Callers -> ApiState] /\ api[p] \in ApiState
    BY DEF TypeOK, ApiState
  <1>1. ASSUME NEW w \in WorkflowIds, NEW r \in RequestIds,
               NEW m \in SuggestPayloads, NEW c \in CloudModes,
               BeginReserve(p, w, r, m, c)
        PROVE  TypeOK'
    <2>1. [pc |-> "reserving", workflow |-> w, request |-> r, payload |-> m,
           cloud |-> c, now |-> clock] \in Reserving
      BY SuggestionServiceAssumption DEF Reserving, TypeOK
    <2>. QED  BY <1>1, <2>1 DEF BeginReserve, TypeOK, tables
  <1>2. ASSUME ReserveNew(p)
        PROVE  TypeOK'
    <2>. DEFINE t == api[p]
                i == lastId + 1
                row == PendingRow(t.workflow, t.request, t.payload, t.cloud, t.now)
    <2>1. t \in Reserving
      BY <1>0, <1>2, ApiShapes DEF ReserveNew
    <2>2. row \in SuggestionRow
      BY <2>1, PendingRowType DEF Reserving
    <2>3. \A j \in SuggestionIds : Pending(suggestions, j) =>
             [suggestions[j] EXCEPT !.status = "superseded"] \in SuggestionRow
      BY ZenonT(60), RowWithStatus DEF Pending, Used, TypeOK, Statuses, FinalStatuses
    <2>4. Superseded(t.workflow) \in [SuggestionIds -> SuggestionRow \cup {None}]
      BY <2>3 DEF Superseded, TypeOK
    <2>5. i \in SuggestionIds /\ i \in Nat
      BY <1>2 DEF ReserveNew, Room, TypeOK
    <2>6. suggestions' \in [SuggestionIds -> SuggestionRow \cup {None}]
      <3>1. suggestions' = [Superseded(t.workflow) EXCEPT ![i] = row]
        BY <1>2 DEF ReserveNew
      <3>. HIDE DEF row, i
      <3>. QED  BY <2>2, <2>4, <3>1
    <2>7. [pc |-> "looking", id |-> i] \in LookingUp /\ [pc |-> "calling", id |-> i] \in Calling
      BY <2>5 DEF LookingUp, Calling
    <2>8. api' \in [Callers -> ApiState] /\ grants' \in [SuggestionIds -> Nat]
      BY SMTT(30), <1>0, <1>2, <2>7 DEF ReserveNew, ApiState, TypeOK
    <2>. QED  BY <1>2, <2>5, <2>6, <2>8 DEF ReserveNew, TypeOK, ApiState
  <1>3. ASSUME ReservePending(p)
        PROVE  TypeOK'
    <2>1. PICK i \in SuggestionIds :
             api' = [api EXCEPT ![p] =
                       IF api[p].cloud THEN [pc |-> "looking", id |-> i]
                       ELSE [pc |-> "saving", id |-> i, result |-> "failed"]]
      BY <1>3 DEF ReservePending
    <2>2. /\ [pc |-> "looking", id |-> i] \in LookingUp
          /\ [pc |-> "saving", id |-> i, result |-> "failed"] \in Saving
      BY DEF LookingUp, Saving, Results
    <2>3. api' \in [Callers -> ApiState]
      BY <1>0, <2>1, <2>2 DEF ApiState
    <2>. QED  BY <1>3, <2>3 DEF ReservePending, TypeOK, tables, ApiState
  <1>4. ASSUME ReserveAnswered(p)
        PROVE  TypeOK'
    BY <1>4 DEF ReserveAnswered, TypeOK, tables
  <1>5. ASSUME LookUp(p)
        PROVE  TypeOK'
    <2>1. api[p].id \in SuggestionIds /\ Used(suggestions, api[p].id)
      BY <1>0, <1>5, ApiShapes DEF LookUp, LookingUp, RefsInv, ApiRefs, CloudRow
    <2>2. suggestions[api[p].id] \in SuggestionRow
      BY <2>1 DEF TypeOK, Used
    <2>3. \A x \in {"enqueueing", "reading"} :
             [pc |-> x, workflow |-> suggestions[api[p].id].workflow, id |-> api[p].id,
              seen |-> suggestions[api[p].id].status] \in Loaded
      BY <2>1, <2>2 DEF Loaded, SuggestionRow
    <2>. QED  BY <1>5, <2>3 DEF LookUp, TypeOK, tables
  <1>6. ASSUME Enqueue(p)
        PROVE  TypeOK'
    <2>1. api[p] \in Loaded
      BY <1>0, <1>6, ApiShapes DEF Enqueue
    <2>2. api[p].id \in SuggestionIds
      BY <1>6 DEF Enqueue, RefsInv, ApiRefs, CloudRow
    <2>3. [api[p] EXCEPT !.pc = "reading"] \in Loaded
      BY <2>1 DEF Loaded
    <2>4. api' = [api EXCEPT ![p] = [api[p] EXCEPT !.pc = "reading"]]
      BY <1>0, <1>6 DEF Enqueue
    <2>. QED  BY <1>0, <1>6, <2>2, <2>3, <2>4 DEF Enqueue, TypeOK, tables
  <1>7. ASSUME EnqueueFails(p)
        PROVE  TypeOK'
    <2>1. api[p] \in Loaded
      BY <1>0, <1>7, ApiShapes DEF EnqueueFails
    <2>2. api[p].id \in SuggestionIds
      BY <1>7 DEF EnqueueFails, RefsInv, ApiRefs, CloudRow
    <2>. QED  BY <1>0, <1>7, <2>2 DEF EnqueueFails, TypeOK, tables
  <1>8. ASSUME NEW w \in WorkflowIds, BeginGet(p, w)
        PROVE  TypeOK'
    <2>1. [pc |-> "reading", workflow |-> w, id |-> None, seen |-> "pending"] \in Loaded
      BY DEF Loaded, Statuses
    <2>. QED  BY <1>8, <2>1 DEF BeginGet, TypeOK, tables
  <1>9. ASSUME ReadPlan(p)
        PROVE  TypeOK'
    <2>1. api[p] \in Loaded
      BY <1>0, <1>9, ApiShapes DEF ReadPlan
    <2>2. [pc |-> "found", workflow |-> api[p].workflow, id |-> api[p].id,
           seen |-> api[p].seen, plan |-> plans[api[p].workflow]] \in Reading
      BY <2>1 DEF Reading, Loaded, TypeOK
    <2>. QED  BY <1>9, <2>2 DEF ReadPlan, TypeOK, tables
  <1>10. ASSUME ReadLatest(p)
         PROVE  TypeOK'
    <2>1. api[p] \in Reading
      BY <1>0, <1>10, ApiShapes DEF ReadLatest
    <2>2. \A i \in RowsOf(suggestions, api[p].workflow) :
             [pc |-> "answering", id |-> i, status |-> StatusRead(api[p], i),
              revision |-> api[p].plan.revision] \in Answering
      BY <2>1 DEF Reading, Answering, RowsOf, StatusRead, TypeOK, Used, Row, SuggestionRow
    <2>3. api' \in [Callers -> ApiState]
      BY <1>0, <1>10, <2>2 DEF ReadLatest, ApiState
    <2>. QED  BY <1>10, <2>3 DEF ReadLatest, TypeOK, tables, ApiState
  <1>11. ASSUME EndRequest(p)
         PROVE  TypeOK'
    BY <1>11 DEF EndRequest, TypeOK, tables
  <1>12. ASSUME NEW result \in Results, ProviderAnswers(p, result)
         PROVE  TypeOK'
    <2>1. api[p] \in Calling
      BY <1>0, <1>12, ApiShapes DEF ProviderAnswers
    <2>2. [pc |-> "saving", id |-> api[p].id, result |-> result] \in Saving
      BY <2>1 DEF Calling, Saving
    <2>. QED  BY <1>12, <2>2 DEF ProviderAnswers, TypeOK, tables
  <1>13. ASSUME FinishInline(p)
         PROVE  TypeOK'
    <2>1. api[p] \in Saving
      BY <1>0, <1>13, ApiShapes DEF FinishInline
    <2>2. api[p].id \in SuggestionIds /\ Used(suggestions, api[p].id) /\ api[p].result \in Results
      BY <1>13, <2>1 DEF FinishInline, Saving, RefsInv, ApiRefs
    <2>3. /\ suggestions' \in [SuggestionIds -> SuggestionRow \cup {None}]
          /\ outbox' \in [WorkflowIds -> [Outcomes -> Nat]]
      <3>1. CASE UNCHANGED <<suggestions, outbox>>
        BY <3>1 DEF TypeOK
      <3>2. CASE SetResult(api[p].id, api[p].result)
        BY <2>2, <3>2, SetStatusType, RecordType
           DEF SetResult, Results, Outcomes, Statuses, FinalStatuses
      <3>. QED  BY <1>13, <3>1, <3>2 DEF FinishInline
    <2>. QED  BY <1>13, <2>3 DEF FinishInline, TypeOK
  <1>. QED
    BY <1>1, <1>2, <1>3, <1>4, <1>5, <1>6, <1>7, <1>8, <1>9, <1>10, <1>11, <1>12,
       <1>13 DEF ApiStep

LEMMA WorkerTypes ==
    ASSUME Inv, NEW q \in Workers, WorkerStep(q)
    PROVE  TypeOK'
  <1>. USE DEF Inv
  <1>0. worker \in [Workers -> WorkerState] /\ worker[q] \in WorkerState
    BY DEF TypeOK, WorkerState
  <1>1. ASSUME NEW i \in SuggestionIds, Deliver(q, i)
        PROVE  TypeOK'
    <2>1. [pc |-> "claiming", id |-> i, now |-> clock] \in Claiming
      BY DEF Claiming, TypeOK
    <2>. QED  BY <1>1, <2>1 DEF Deliver, TypeOK, tables
  <1>2. ASSUME Claim(q)
        PROVE  TypeOK'
    <2>. DEFINE t == worker[q]
                i == t.id
    <2>1. /\ t \in Claiming /\ i \in SuggestionIds /\ t.now \in Nat
          /\ Used(suggestions, i) /\ suggestions[i] \in SuggestionRow
      BY <1>0, <1>2, WorkerShapes
         DEF Claim, Claiming, RefsInv, WorkerRefs, CloudRow, Used, TypeOK
    <2>2. [pc |-> "claimed", id |-> i, started |-> t.now] \in Claimed
      BY <2>1 DEF Claimed
    <2>3. worker' \in [Workers -> WorkerState]
      BY <1>0, <1>2, <2>2 DEF Claim, WorkerState
    <2>4. grants' \in [SuggestionIds -> Nat]
      BY <1>2, <2>1 DEF Claim, TypeOK
    <2>5. /\ suggestions' \in [SuggestionIds -> SuggestionRow \cup {None}]
          /\ outbox' \in [WorkflowIds -> [Outcomes -> Nat]]
      <3>1. CASE UNCHANGED <<suggestions, outbox>>
        BY <3>1 DEF TypeOK
      <3>2. CASE FailRow(i)
        BY <2>1, <3>2, SetStatusType, RecordType
           DEF FailRow, Outcomes, Statuses, FinalStatuses
      <3>3. CASE SupersedeRow(i)
        BY <2>1, <3>3, SetStatusType
           DEF SupersedeRow, Statuses, FinalStatuses, TypeOK
      <3>4. CASE suggestions' = [suggestions EXCEPT ![i].started = t.now] /\ UNCHANGED outbox
        <4>1. [suggestions[i] EXCEPT !.started = t.now] \in SuggestionRow
          BY <2>1, RowWithMarker
        <4>2. suggestions' = [suggestions EXCEPT ![i] = [suggestions[i] EXCEPT !.started = t.now]]
          BY <3>4 DEF TypeOK
        <4>. HIDE DEF t, i
        <4>. QED  BY <2>1, <3>4, <4>1, <4>2 DEF TypeOK
      <3>. QED  BY <1>2, <3>1, <3>2, <3>3, <3>4 DEF Claim
    <2>. QED  BY <1>2, <2>3, <2>4, <2>5 DEF Claim, TypeOK, WorkerState
  <1>3. ASSUME NEW result \in Results, ProviderReturns(q, result)
        PROVE  TypeOK'
    <2>1. worker[q] \in Claimed
      BY <1>0, <1>3, WorkerShapes DEF ProviderReturns
    <2>2. [pc |-> "finishing", id |-> worker[q].id, started |-> worker[q].started,
           result |-> result, now |-> clock] \in Finishing
      BY <2>1 DEF Claimed, Finishing, TypeOK
    <2>. QED  BY <1>3, <2>2 DEF ProviderReturns, TypeOK, tables
  <1>4. ASSUME FinishClaimed(q)
        PROVE  TypeOK'
    <2>. DEFINE t == worker[q]
                i == t.id
    <2>1. /\ i \in SuggestionIds /\ t.result \in Results
          /\ Used(suggestions, i)
      BY <1>0, <1>4, WorkerShapes
         DEF FinishClaimed, Finishing, RefsInv, WorkerRefs, CloudRow
    <2>2. /\ suggestions' \in [SuggestionIds -> SuggestionRow \cup {None}]
          /\ outbox' \in [WorkflowIds -> [Outcomes -> Nat]]
      <3>1. CASE UNCHANGED <<suggestions, outbox>>
        BY <3>1 DEF TypeOK
      <3>2. CASE SetResult(i, t.result)
        BY <2>1, <3>2, SetStatusType, RecordType
           DEF SetResult, Results, Outcomes, Statuses, FinalStatuses
      <3>3. CASE SupersedeRow(i)
        BY <2>1, <3>3, SetStatusType
           DEF SupersedeRow, Statuses, FinalStatuses, TypeOK
      <3>. QED  BY <1>4, <3>1, <3>2, <3>3 DEF FinishClaimed
    <2>. QED  BY <1>4, <2>2 DEF FinishClaimed, TypeOK
  <1>5. ASSUME DeliveryDies(q)
        PROVE  TypeOK'
    BY <1>5 DEF DeliveryDies, TypeOK, tables
  <1>. QED  BY <1>1, <1>2, <1>3, <1>4, <1>5 DEF WorkerStep

LEMMA SweepTypes ==
    ASSUME Inv, NEW s \in Sweepers, SweepStep(s)
    PROVE  TypeOK'
  <1>. USE DEF Inv
  <1>0. sweep \in [Sweepers -> SweepState] /\ sweep[s] \in SweepState
    BY DEF TypeOK, SweepState
  <1>1. ASSUME BeginSweep(s)
        PROVE  TypeOK'
    <2>1. [pc |-> "sweeping", now |-> clock, left |-> Batch(clock), held |-> {},
           doomed |-> {}] \in Sweeping
      BY DEF Sweeping, Batch, TypeOK
    <2>. QED  BY <1>1, <2>1 DEF BeginSweep, TypeOK, tables
  <1>2. ASSUME NEW i \in SuggestionIds, SweepRow(s, i)
        PROVE  TypeOK'
    <2>1. sweep[s] \in Sweeping
      BY <1>0, <1>2, SweepShapes DEF SweepRow, NextUp
    <2>2. suggestions[i].workflow \in WorkflowIds
      BY <1>2 DEF SweepRow, NextUp, LocksInv, Used, TypeOK, SuggestionRow
    <2>. DEFINE d == IF Sweepable(s, i) THEN sweep[s].doomed \cup {i} ELSE sweep[s].doomed
                new == [sweep[s] EXCEPT !.left = sweep[s].left \ {i},
                                        !.held = sweep[s].held \cup {suggestions[i].workflow},
                                        !.doomed = d]
    <2>3. d \in SUBSET SuggestionIds
      BY <2>1 DEF Sweeping
    <2>4. sweep' = [sweep EXCEPT ![s] = new]
      BY <1>0, <1>2 DEF SweepRow
    <2>5. new \in Sweeping
      <3>. HIDE DEF d
      <3>. QED  BY <2>1, <2>2, <2>3 DEF Sweeping
    <2>. HIDE DEF new
    <2>. QED  BY ZenonT(40), <1>2, <2>4, <2>5 DEF SweepRow, TypeOK, tables
  <1>3. ASSUME NEW i \in SuggestionIds, SkipRow(s, i)
        PROVE  TypeOK'
    <2>1. sweep[s] \in Sweeping
      BY <1>0, <1>3, SweepShapes DEF SkipRow, NextUp
    <2>2. [sweep[s] EXCEPT !.left = sweep[s].left \ {i}] \in Sweeping
      BY <2>1 DEF Sweeping
    <2>3. sweep' = [sweep EXCEPT ![s] = [sweep[s] EXCEPT !.left = sweep[s].left \ {i}]]
      BY <1>0, <1>3 DEF SkipRow
    <2>. QED  BY <1>3, <2>2, <2>3 DEF SkipRow, TypeOK, tables
  <1>4. ASSUME EndSweep(s)
        PROVE  TypeOK'
    <2>. DEFINE d == sweep[s].doomed
    <2>1. \A i \in d \cap SuggestionIds :
             [suggestions[i] EXCEPT !.status = "failed"] \in SuggestionRow
      <3>. TAKE i \in d \cap SuggestionIds
      <3>1. suggestions[i] \in SuggestionRow
        BY <1>4 DEF EndSweep, LocksInv, Pending, Used, TypeOK
      <3>2. "failed" \in Statuses
        BY DEF Statuses, FinalStatuses
      <3>. QED  BY <3>1, <3>2, RowWithStatus
    <2>2. suggestions' \in [SuggestionIds -> SuggestionRow \cup {None}]
      <3>1. \A i \in SuggestionIds :
               (IF i \in d THEN [suggestions[i] EXCEPT !.status = "failed"]
                ELSE suggestions[i]) \in SuggestionRow \cup {None}
        BY <2>1 DEF TypeOK
      <3>2. suggestions' = [i \in SuggestionIds |->
               IF i \in d THEN [suggestions[i] EXCEPT !.status = "failed"]
               ELSE suggestions[i]]
        BY <1>4 DEF EndSweep
      <3>. HIDE DEF d
      <3>. QED  BY <3>1, <3>2
    <2>3. \A w \in WorkflowIds : Cardinality(d \cap RowsOf(suggestions, w)) \in Nat
      <3>1. IsFiniteSet(SuggestionIds)
        BY MaxSuggestionsAssumption, FS_Interval DEF SuggestionIds
      <3>. TAKE w \in WorkflowIds
      <3>2. d \cap RowsOf(suggestions, w) \subseteq SuggestionIds
        BY DEF RowsOf
      <3>. HIDE DEF d
      <3>. QED  BY <3>1, <3>2, FS_Subset, FS_CardinalityType
    <2>4. \A w \in WorkflowIds :
             [outbox[w] EXCEPT !["expired"] =
                outbox[w]["expired"] + Cardinality(d \cap RowsOf(suggestions, w))]
             \in [Outcomes -> Nat]
      <3>. TAKE w \in WorkflowIds
      <3>1. outbox[w] \in [Outcomes -> Nat] /\ "expired" \in Outcomes
        BY DEF TypeOK, Outcomes
      <3>2. outbox[w]["expired"] + Cardinality(d \cap RowsOf(suggestions, w)) \in Nat
        BY <2>3, <3>1
      <3>. QED  BY <3>1, <3>2
    <2>5. outbox' \in [WorkflowIds -> [Outcomes -> Nat]]
      BY <1>4, <2>4 DEF EndSweep
    <2>. QED  BY <1>4, <2>2, <2>5 DEF EndSweep, TypeOK
  <1>5. ASSUME SweepDies(s)
        PROVE  TypeOK'
    BY <1>5 DEF SweepDies, TypeOK, tables
  <1>. QED  BY <1>1, <1>2, <1>3, <1>4, <1>5 DEF SweepStep

(* Type correctness of every step.                                         *)
LEMMA TypesKept == Inv /\ [Next]_vars => TypeOK'
  <1>. SUFFICES ASSUME Inv, [Next]_vars PROVE TypeOK'
    OBVIOUS
  <1>1. ASSUME NEW w \in WorkflowIds, AdvancePlan(w)
        PROVE  TypeOK'
    <2>1. plans[w] \in Row
      BY DEF Inv, TypeOK
    <2>2. PICK c \in Command :
             /\ Accepts(plans[w].state, c)
             /\ plans' = [plans EXCEPT ![w] = Advanced(plans[w], c, 0)]
      BY <1>1 DEF AdvancePlan
    <2>3. Advanced(plans[w], c, 0) \in Row
      BY <2>1, <2>2, AdvancedType
    <2>. QED  BY <1>1, <2>2, <2>3 DEF AdvancePlan, Inv, TypeOK
  <1>2. ASSUME Tick
        PROVE  TypeOK'
    BY <1>2 DEF Tick, Inv, TypeOK, tables
  <1>3. ASSUME UNCHANGED vars
        PROVE  TypeOK'
    BY <1>3 DEF vars, Inv, TypeOK
  <1>. QED
    BY <1>1, <1>2, <1>3, ApiTypes, WorkerTypes, SweepTypes DEF Next

-----------------------------------------------------------------------------
(* What a step can do to the rows: nothing, settle one pending row whose   *)
(* plan no sweep holds, mark one such row as claimed, add one, or commit a *)
(* sweep.                                                                  *)
StatusStep ==
    \E i \in SuggestionIds, st \in FinalStatuses :
        /\ Pending(suggestions, i)
        /\ ~Held(suggestions[i].workflow)
        /\ suggestions' = [suggestions EXCEPT ![i] = [suggestions[i] EXCEPT !.status = st]]
        /\ UNCHANGED <<lastId, tasks, clock, sweep>>

MarkerStep ==
    \E q \in Workers :
        /\ Claim(q)
        /\ ClaimAnswer(suggestions, worker[q].id, PlanOf(worker[q].id), worker[q].now)
              = "claimed"

RowStep ==
    \/ UNCHANGED <<suggestions, lastId>>
    \/ StatusStep
    \/ MarkerStep
    \/ \E p \in Callers : ReserveNew(p)
    \/ \E s \in Sweepers : EndSweep(s)

LEMMA SettlesOne ==
    ASSUME TypeOK, NEW i \in SuggestionIds, NEW st \in FinalStatuses,
           Pending(suggestions, i), ~Held(suggestions[i].workflow), SetStatus(i, st),
           UNCHANGED <<lastId, tasks, clock, sweep>>
    PROVE  StatusStep
  <1>1. suggestions' = [suggestions EXCEPT ![i] = [suggestions[i] EXCEPT !.status = st]]
    BY DEF SetStatus, TypeOK
  <1>. QED  BY <1>1 DEF StatusStep

LEMMA StepShape == Inv /\ [Next]_vars => RowStep
  <1>. SUFFICES ASSUME Inv, [Next]_vars PROVE RowStep
    OBVIOUS
  <1>. USE DEF Inv
  <1>1. ASSUME NEW w \in WorkflowIds, AdvancePlan(w)
        PROVE  RowStep
    BY <1>1 DEF AdvancePlan, RowStep
  <1>2. ASSUME Tick \/ UNCHANGED vars
        PROVE  RowStep
    BY <1>2 DEF Tick, vars, tables, RowStep
  <1>3. ASSUME NEW p \in Callers, ApiStep(p)
        PROVE  RowStep
    <2>1. CASE FinishInline(p)
      <3>. DEFINE i == api[p].id
      <3>1. /\ api[p] \in Saving /\ i \in SuggestionIds /\ api[p].result \in FinalStatuses
            /\ Used(suggestions, i) /\ ~Held(suggestions[i].workflow)
        BY <2>1, ApiShapes
           DEF FinishInline, TypeOK, ApiState, Saving, Results, FinalStatuses,
               RefsInv, ApiRefs
      <3>2. CASE InlineAnswer(suggestions, i, PlanOf(i)) = "saved"
        <4>1. Pending(suggestions, i)
          BY <3>2 DEF InlineAnswer
        <4>2. SetStatus(i, api[p].result)
          BY <2>1, <3>2 DEF FinishInline, SetResult
        <4>3. UNCHANGED <<lastId, tasks, clock, sweep>>
          BY <2>1 DEF FinishInline
        <4>. HIDE DEF i
        <4>. QED  BY <3>1, <4>1, <4>2, <4>3, SettlesOne DEF RowStep
      <3>3. CASE InlineAnswer(suggestions, i, PlanOf(i)) # "saved"
        BY <2>1, <3>3 DEF FinishInline, RowStep
      <3>. QED  BY <3>2, <3>3
    <2>2. CASE ReserveNew(p)
      BY <2>2 DEF RowStep
    <2>3. CASE ~FinishInline(p) /\ ~ReserveNew(p)
      <3>1. UNCHANGED tables
        BY <1>3, <2>3
           DEF ApiStep, BeginReserve, ReservePending, ReserveAnswered, LookUp, Enqueue,
               EnqueueFails, BeginGet, ReadPlan, ReadLatest, EndRequest, ProviderAnswers
      <3>. QED  BY <3>1 DEF tables, RowStep
    <2>. QED  BY <2>1, <2>2, <2>3
  <1>4. ASSUME NEW q \in Workers, WorkerStep(q)
        PROVE  RowStep
    <2>1. CASE Claim(q)
      <3>. DEFINE i == worker[q].id
                  answer == ClaimAnswer(suggestions, i, PlanOf(i), worker[q].now)
      <3>1. /\ i \in SuggestionIds /\ Used(suggestions, i)
            /\ ~Held(suggestions[i].workflow)
        BY <2>1 DEF Claim, RefsInv, WorkerRefs, CloudRow
      <3>2. CASE answer = "claimed"
        BY <2>1, <3>2 DEF RowStep, MarkerStep
      <3>3. CASE answer \in {"timeout", "superseded"}
        <4>1. Pending(suggestions, i)
          BY <3>3 DEF ClaimAnswer
        <4>2. \E st \in FinalStatuses : SetStatus(i, st)
          BY <2>1, <3>3 DEF Claim, FailRow, SupersedeRow, FinalStatuses
        <4>3. UNCHANGED <<lastId, tasks, clock, sweep>>
          BY <2>1 DEF Claim
        <4>. HIDE DEF i
        <4>. QED  BY <3>1, <4>1, <4>2, <4>3, SettlesOne DEF RowStep
      <3>4. CASE answer \in {"no_work", "in_progress"}
        BY <2>1, <3>4 DEF Claim, RowStep
      <3>. QED  BY <3>2, <3>3, <3>4 DEF ClaimAnswer
    <2>2. CASE FinishClaimed(q)
      <3>. DEFINE i == worker[q].id
                  answer == FinishAnswer(suggestions, i, PlanOf(i), worker[q].started,
                                         worker[q].now)
      <3>1. /\ i \in SuggestionIds /\ Used(suggestions, i)
            /\ ~Held(suggestions[i].workflow)
            /\ worker[q].result \in FinalStatuses
        BY <2>2, WorkerShapes
           DEF FinishClaimed, RefsInv, WorkerRefs, CloudRow, TypeOK, WorkerState,
               Finishing, Results, FinalStatuses
      <3>2. CASE answer \in {"saved", "superseded"}
        <4>1. Pending(suggestions, i)
          BY <3>2 DEF FinishAnswer
        <4>2. \E st \in FinalStatuses : SetStatus(i, st)
          BY <2>2, <3>1, <3>2 DEF FinishClaimed, SetResult, SupersedeRow, FinalStatuses
        <4>3. UNCHANGED <<lastId, tasks, clock, sweep>>
          BY <2>2 DEF FinishClaimed
        <4>. HIDE DEF i
        <4>. QED  BY <3>1, <4>1, <4>2, <4>3, SettlesOne DEF RowStep
      <3>3. CASE answer = "discarded"
        BY <2>2, <3>3 DEF FinishClaimed, RowStep
      <3>. QED  BY <3>2, <3>3 DEF FinishAnswer
    <2>3. CASE ~Claim(q) /\ ~FinishClaimed(q)
      <3>1. UNCHANGED tables
        BY <1>4, <2>3 DEF WorkerStep, Deliver, ProviderReturns, DeliveryDies
      <3>. QED  BY <3>1 DEF tables, RowStep
    <2>. QED  BY <2>1, <2>2, <2>3
  <1>5. ASSUME NEW s \in Sweepers, SweepStep(s)
        PROVE  RowStep
    <2>1. CASE EndSweep(s)
      BY <2>1 DEF RowStep
    <2>2. CASE ~EndSweep(s)
      <3>1. UNCHANGED tables
        BY <1>5, <2>2 DEF SweepStep, BeginSweep, SweepRow, SkipRow, SweepDies
      <3>. QED  BY SMTT(30), <3>1 DEF tables, RowStep
    <2>. QED  BY <2>1, <2>2
  <1>. QED  BY <1>1, <1>2, <1>3, <1>4, <1>5 DEF Next

(* What no step does to a row: take it away, change who asked for what,    *)
(* move a claim marker, change a settled row, or touch a row whose plan a  *)
(* running sweep holds.                                                    *)
SameRequest(old, new) ==
    /\ new \in SuggestionRow
    /\ new.workflow = old.workflow
    /\ new.request = old.request
    /\ new.payload = old.payload
    /\ new.cloud = old.cloud
    /\ new.queued = old.queued
    /\ new.expires = old.expires
    /\ old.started # None => new.started = old.started
    /\ old.status # "pending" => new = old

HeldOn(w) == \E s \in Sweepers : /\ sweep[s].pc = "sweeping" /\ w \in sweep[s].held
                                 /\ sweep'[s].pc = "sweeping"

RowsKept ==
    \A i \in SuggestionIds : Used(suggestions, i) =>
        /\ SameRequest(suggestions[i], suggestions'[i])
        /\ HeldOn(suggestions[i].workflow) => suggestions'[i] = suggestions[i]

LEMMA StatusKeeps ==
    ASSUME NEW row \in SuggestionRow, NEW st \in Statuses, row.status = "pending"
    PROVE  SameRequest(row, [row EXCEPT !.status = st])
  BY RowWithStatus DEF SameRequest

LEMMA MarkerFacts ==
    ASSUME Inv, NEW q \in Workers, Claim(q),
           ClaimAnswer(suggestions, worker[q].id, PlanOf(worker[q].id), worker[q].now)
              = "claimed"
    PROVE  LET t == worker[q]
               i == t.id
           IN  /\ t.now \in Nat /\ t.now <= clock /\ CloudRow(i, t.now)
               /\ suggestions[i] \in SuggestionRow
               /\ suggestions[i].status = "pending"
               /\ suggestions[i].started = None
               /\ ~Held(suggestions[i].workflow)
               /\ suggestions' = [suggestions EXCEPT ![i] =
                                    [suggestions[i] EXCEPT !.started = t.now]]
               /\ grants' = [grants EXCEPT ![i] = @ + 1]
               /\ worker' = [worker EXCEPT ![q] =
                               [pc |-> "claimed", id |-> i, started |-> t.now]]
               /\ UNCHANGED <<lastId, tasks, clock, api, sweep, outbox>>
  <1>. DEFINE t == worker[q]
              i == t.id
  <1>1. t \in Claiming /\ t.now <= clock /\ CloudRow(i, t.now)
    BY WorkerShapes DEF Claim, Inv, TypeOK, WorkerState, RefsInv, WorkerRefs
  <1>2. t.now \in Nat /\ suggestions[i] \in SuggestionRow
    BY <1>1 DEF Claiming, CloudRow, Used, Inv, TypeOK
  <1>3. suggestions[i].status = "pending" /\ suggestions[i].started = None
    BY DEF ClaimAnswer, Pending
  <1>4. suggestions' = [suggestions EXCEPT ![i] = [suggestions[i] EXCEPT !.started = t.now]]
    BY DEF Claim, Inv, TypeOK
  <1>5. /\ ~Held(suggestions[i].workflow)
        /\ grants' = [grants EXCEPT ![i] = @ + 1]
        /\ worker' = [worker EXCEPT ![q] =
                        [pc |-> "claimed", id |-> i, started |-> t.now]]
        /\ UNCHANGED <<lastId, tasks, clock, api, sweep, outbox>>
    BY DEF Claim
  <1>. QED  BY <1>1, <1>2, <1>3, <1>4, <1>5

LEMMA StepKeepsRows == Inv /\ [Next]_vars => RowsKept
  <1>. SUFFICES ASSUME Inv, [Next]_vars, NEW i \in SuggestionIds, Used(suggestions, i)
                PROVE  /\ SameRequest(suggestions[i], suggestions'[i])
                       /\ HeldOn(suggestions[i].workflow) => suggestions'[i] = suggestions[i]
    BY DEF RowsKept
  <1>. DEFINE old == suggestions[i]
  <1>1. old \in SuggestionRow
    BY DEF Inv, TypeOK, Used
  <1>2. SameRequest(old, old)
    BY <1>1 DEF SameRequest
  <1>3. CASE UNCHANGED <<suggestions, lastId>>
    BY <1>2, <1>3
  <1>4. CASE StatusStep
    <2>1. PICK j \in SuggestionIds, st \in FinalStatuses :
             /\ Pending(suggestions, j)
             /\ ~Held(suggestions[j].workflow)
             /\ suggestions' = [suggestions EXCEPT ![j] =
                                  [suggestions[j] EXCEPT !.status = st]]
      BY <1>4 DEF StatusStep
    <2>2. CASE i = j
      <3>1. suggestions'[i] = [old EXCEPT !.status = st] /\ old.status = "pending"
        BY <2>1, <2>2 DEF Inv, TypeOK, Pending
      <3>2. ~HeldOn(old.workflow)
        BY <2>1, <2>2 DEF Held, HeldOn
      <3>3. st \in Statuses
        BY DEF Statuses
      <3>. QED  BY <1>1, <3>1, <3>2, <3>3, StatusKeeps
    <2>3. CASE i # j
      BY <1>2, <2>1, <2>3
    <2>. QED  BY <2>2, <2>3
  <1>5. CASE MarkerStep
    <2>1. PICK q \in Workers :
             /\ Claim(q)
             /\ ClaimAnswer(suggestions, worker[q].id, PlanOf(worker[q].id),
                            worker[q].now) = "claimed"
      BY <1>5 DEF MarkerStep
    <2>. DEFINE j == worker[q].id
                now == worker[q].now
    <2>2. /\ now \in Nat /\ suggestions[j].started = None
          /\ suggestions[j].status = "pending"
          /\ ~Held(suggestions[j].workflow)
          /\ suggestions' = [suggestions EXCEPT ![j] =
                               [suggestions[j] EXCEPT !.started = now]]
      BY <2>1, MarkerFacts
    <2>. HIDE DEF j, now
    <2>3. CASE i = j
      <3>1. suggestions'[i] = [old EXCEPT !.started = now]
        BY <2>2, <2>3 DEF Inv, TypeOK
      <3>2. ~HeldOn(old.workflow)
        BY <2>2, <2>3 DEF Held, HeldOn
      <3>3. SameRequest(old, [old EXCEPT !.started = now])
        BY <1>1, <2>2, <2>3, RowWithMarker DEF SameRequest
      <3>. QED  BY <3>1, <3>2, <3>3
    <2>4. CASE i # j
      BY <1>2, <2>2, <2>4
    <2>. QED  BY <2>3, <2>4
  <1>6. ASSUME NEW p \in Callers, ReserveNew(p)
        PROVE  /\ SameRequest(old, suggestions'[i])
               /\ HeldOn(old.workflow) => suggestions'[i] = old
    <2>. DEFINE w == api[p].workflow
                k == lastId + 1
                row == PendingRow(w, api[p].request, api[p].payload, api[p].cloud, api[p].now)
    <2>1. i # k
      BY <1>6 DEF ReserveNew, Inv, IdsInv, SuggestionIds, TypeOK
    <2>2. suggestions' = [Superseded(w) EXCEPT ![k] = row]
      BY <1>6 DEF ReserveNew
    <2>3. suggestions'[i] = Superseded(w)[i]
      <3>. HIDE DEF k, row
      <3>1. Superseded(w) = [j \in SuggestionIds |-> Superseded(w)[j]]
        BY DEF Superseded
      <3>. QED  BY <2>1, <2>2, <3>1
    <2>4. CASE old.status = "pending" /\ old.workflow = w
      <3>1. suggestions'[i] = [old EXCEPT !.status = "superseded"]
        BY <2>3, <2>4 DEF Superseded, Pending
      <3>2. ~HeldOn(old.workflow)
        BY <1>6, <2>4 DEF ReserveNew, Held, HeldOn
      <3>3. "superseded" \in Statuses
        BY DEF Statuses, FinalStatuses
      <3>4. SameRequest(old, [old EXCEPT !.status = "superseded"])
        BY <1>1, <2>4, <3>3, StatusKeeps
      <3>. QED  BY <3>1, <3>2, <3>4
    <2>5. CASE ~(old.status = "pending" /\ old.workflow = w)
      <3>1. suggestions'[i] = old
        BY <2>3, <2>5 DEF Superseded, Pending
      <3>. QED  BY <1>2, <3>1
    <2>. QED  BY <2>4, <2>5
  <1>7. ASSUME NEW s \in Sweepers, EndSweep(s)
        PROVE  /\ SameRequest(old, suggestions'[i])
               /\ HeldOn(old.workflow) => suggestions'[i] = old
    <2>1. CASE i \in sweep[s].doomed
      <3>1. suggestions'[i] = [old EXCEPT !.status = "failed"]
        BY <1>7, <2>1 DEF EndSweep
      <3>2. old.status = "pending" /\ old.workflow \in sweep[s].held
            /\ sweep[s].pc = "sweeping"
        BY <1>7, <2>1 DEF EndSweep, Inv, LocksInv, Pending
      <3>3. sweep'[s].pc = "idle"
        BY <1>7 DEF EndSweep, Inv, TypeOK, Idle
      <3>4. ~HeldOn(old.workflow)
        <4>1. SUFFICES ASSUME NEW s2 \in Sweepers, sweep[s2].pc = "sweeping",
                              old.workflow \in sweep[s2].held, sweep'[s2].pc = "sweeping"
                       PROVE  FALSE
          BY DEF HeldOn
        <4>2. s2 # s
          BY <3>3, <4>1
        <4>3. sweep[s2].held \cap sweep[s].held = {}
          BY <3>2, <4>1, <4>2 DEF Inv, LocksInv
        <4>. QED  BY <3>2, <4>1, <4>3
      <3>. QED  BY ZenonT(40), <1>1, <3>1, <3>2, <3>4, StatusKeeps DEF Statuses, FinalStatuses
    <2>2. CASE i \notin sweep[s].doomed
      <3>1. suggestions'[i] = old
        BY <1>7, <2>2 DEF EndSweep
      <3>. QED  BY <1>2, <3>1
    <2>. QED  BY <2>1, <2>2
  <1>. QED
    BY <1>3, <1>4, <1>5, <1>6, <1>7, StepShape DEF RowStep

-----------------------------------------------------------------------------
(* Ids stay in order.                                                      *)
LEMMA IdsKept == Inv /\ [Next]_vars => IdsInv'
  <1>. SUFFICES ASSUME Inv, [Next]_vars PROVE IdsInv'
    OBVIOUS
  <1>. USE DEF Inv
  <1>1. CASE UNCHANGED <<suggestions, lastId>>
    BY <1>1 DEF IdsInv, Used
  <1>2. \A i \in SuggestionIds : Used(suggestions, i) => Used(suggestions', i)
    BY StepKeepsRows, NoSuggestionAssumption DEF RowsKept, SameRequest, Used
  <1>3. CASE StatusStep
    <2>1. PICK j \in SuggestionIds, st \in FinalStatuses :
             /\ Pending(suggestions, j)
             /\ suggestions' = [suggestions EXCEPT ![j] =
                                  [suggestions[j] EXCEPT !.status = st]]
             /\ lastId' = lastId
      BY <1>3 DEF StatusStep
    <2>. QED  BY <1>2, <2>1 DEF IdsInv, Used, Pending, TypeOK
  <1>4. CASE MarkerStep
    <2>1. PICK j \in SuggestionIds, row \in SuggestionRow :
             /\ Used(suggestions, j)
             /\ suggestions' = [suggestions EXCEPT ![j] = row]
             /\ lastId' = lastId
      BY <1>4, MarkerFacts, RowWithMarker DEF MarkerStep, CloudRow
    <2>. QED  BY <1>2, <2>1 DEF IdsInv, Used, TypeOK
  <1>5. ASSUME NEW p \in Callers, ReserveNew(p)
        PROVE  IdsInv'
    <2>. DEFINE k == lastId + 1
    <2>1. k \in SuggestionIds /\ lastId' = k /\ lastId \in Nat
      BY <1>5 DEF ReserveNew, Room, TypeOK
    <2>2. \A i \in SuggestionIds : i # k => suggestions'[i] = Superseded(api[p].workflow)[i]
      <3>1. PICK row : suggestions' = [Superseded(api[p].workflow) EXCEPT ![k] = row]
        BY <1>5 DEF ReserveNew
      <3>. QED  BY <3>1 DEF Superseded
    <2>3. suggestions'[k] # None
      <3>. DEFINE t == api[p]
                  row == PendingRow(t.workflow, t.request, t.payload, t.cloud, t.now)
      <3>1. t \in Reserving
        BY <1>5, ApiShapes DEF ReserveNew, TypeOK, ApiState
      <3>2. row \in SuggestionRow
        BY <3>1, PendingRowType DEF Reserving
      <3>3. suggestions' = [Superseded(t.workflow) EXCEPT ![k] = row]
        BY <1>5 DEF ReserveNew
      <3>4. suggestions'[k] = row
        <4>. HIDE DEF row, k
        <4>. QED  BY <2>1, <3>3 DEF Superseded
      <3>. QED  BY <3>2, <3>4, NoSuggestionAssumption
    <2>4. \A i \in SuggestionIds : ~Used(suggestions, i) => Superseded(api[p].workflow)[i] = None
      BY DEF Superseded, Pending, Used
    <2>. QED  BY <1>2, <2>1, <2>2, <2>3, <2>4 DEF IdsInv, Used, SuggestionIds
  <1>6. ASSUME NEW s \in Sweepers, EndSweep(s)
        PROVE  IdsInv'
    <2>1. lastId' = lastId
      BY <1>6 DEF EndSweep
    <2>2. \A i \in SuggestionIds : ~Used(suggestions, i) => suggestions'[i] = suggestions[i]
      BY <1>6 DEF EndSweep, LocksInv, Pending, Used
    <2>. QED  BY <1>2, <2>1, <2>2 DEF IdsInv, Used
  <1>. QED  BY <1>1, <1>3, <1>4, <1>5, <1>6, StepShape DEF RowStep

(* What a process refers to stays what it is.                              *)
LEMMA ClockGrows == Inv /\ [Next]_vars => clock' \in Nat /\ clock <= clock'
  <1>. SUFFICES ASSUME Inv, [Next]_vars PROVE clock' \in Nat /\ clock <= clock'
    OBVIOUS
  <1>1. clock \in Nat
    BY DEF Inv, TypeOK
  <1>2. CASE Tick
    BY <1>1, <1>2 DEF Tick
  <1>3. CASE ~Tick
    <2>1. clock' = clock
      BY <1>3
         DEF Next, vars, AdvancePlan, ApiStep, WorkerStep, SweepStep, BeginReserve,
             ReserveNew, ReservePending, ReserveAnswered, LookUp, Enqueue, EnqueueFails,
             BeginGet, ReadPlan, ReadLatest, EndRequest, ProviderAnswers, FinishInline,
             Deliver, Claim, ProviderReturns, FinishClaimed, DeliveryDies, BeginSweep,
             SweepRow, SkipRow, EndSweep, SweepDies
    <2>. QED  BY <1>1, <2>1
  <1>. QED  BY <1>2, <1>3

LEMMA CloudRowKept ==
    ASSUME Inv, [Next]_vars, NEW i, NEW n \in Nat, NEW m \in Nat, n <= m, CloudRow(i, n)
    PROVE  CloudRow(i, m)'
  <1>1. i \in SuggestionIds /\ Used(suggestions, i)
    BY DEF CloudRow
  <1>2. SameRequest(suggestions[i], suggestions'[i])
    BY <1>1, StepKeepsRows DEF RowsKept
  <1>3. suggestions'[i] # None
    BY <1>2, NoSuggestionAssumption DEF SameRequest
  <1>4. suggestions[i].queued \in Nat
    BY <1>1 DEF Inv, TypeOK, Used, SuggestionRow
  <1>. QED  BY <1>1, <1>2, <1>3, <1>4 DEF CloudRow, SameRequest, Used

LEMMA RefsKept ==
    ASSUME Inv, [Next]_vars
    PROVE  /\ \A i \in tasks : CloudRow(i, clock)'
           /\ \A t \in ApiState : ApiRefs(t) => ApiRefs(t)'
           /\ \A t \in WorkerState : WorkerRefs(t) => WorkerRefs(t)'
           /\ \A i : CloudRow(i, clock) => CloudRow(i, clock)'
  <1>0. clock \in Nat /\ clock' \in Nat /\ clock <= clock'
    BY ClockGrows DEF Inv, TypeOK
  <1>1. \A i : CloudRow(i, clock) => CloudRow(i, clock)'
    <2>. TAKE i
    <2>. HAVE CloudRow(i, clock)
    <2>1. i \in SuggestionIds /\ SameRequest(suggestions[i], suggestions'[i])
      BY StepKeepsRows DEF RowsKept, CloudRow
    <2>2. suggestions'[i] # None /\ suggestions[i].queued \in Nat
      BY <2>1, NoSuggestionAssumption DEF SameRequest, CloudRow, Inv, TypeOK, Used, SuggestionRow
    <2>. QED  BY <1>0, <2>1, <2>2 DEF CloudRow, SameRequest, Used
  <1>2. \A i \in tasks : CloudRow(i, clock)'
    BY <1>1 DEF Inv, RefsInv
  <1>3. ASSUME NEW t \in ApiState, ApiRefs(t)
        PROVE  ApiRefs(t)'
    <2>1. CASE t.pc = "reserving"
      <3>1. t.now \in Nat
        BY <2>1, ApiShapes DEF Reserving
      <3>. QED  BY <1>0, <1>3, <2>1, <3>1 DEF ApiRefs
    <2>2. CASE t.pc \in {"looking", "enqueueing"}
      BY <1>1, <1>3, <2>2 DEF ApiRefs
    <2>3. CASE t.pc \in {"calling", "saving"}
      <3>1. t.id \in SuggestionIds /\ Used(suggestions, t.id)
        BY <1>3, <2>3, ApiShapes DEF ApiRefs, Calling, Saving
      <3>2. /\ suggestions'[t.id] # None
            /\ suggestions'[t.id].cloud = suggestions[t.id].cloud
        BY <3>1, StepKeepsRows, NoSuggestionAssumption DEF RowsKept, SameRequest
      <3>. QED  BY <1>3, <2>3, <3>2 DEF ApiRefs, Used
    <2>4. CASE t.pc \notin {"reserving", "looking", "enqueueing", "calling", "saving"}
      BY <2>4 DEF ApiRefs
    <2>. QED  BY <2>1, <2>2, <2>3, <2>4
  <1>4. ASSUME NEW t \in WorkerState, WorkerRefs(t)
        PROVE  WorkerRefs(t)'
    <2>1. CASE t.pc \in {"claiming", "finishing"}
      <3>1. t.now \in Nat
        BY <2>1, WorkerShapes DEF Claiming, Finishing
      <3>2. CloudRow(t.id, t.now)'
        BY <1>4, <2>1, <3>1, CloudRowKept DEF WorkerRefs
      <3>. QED  BY <1>0, <1>4, <2>1, <3>1, <3>2 DEF WorkerRefs
    <2>2. CASE t.pc = "claimed"
      BY <1>1, <1>4, <2>2 DEF WorkerRefs
    <2>3. CASE t.pc \notin {"claiming", "finishing", "claimed"}
      BY <2>3 DEF WorkerRefs
    <2>. QED  BY <2>1, <2>2, <2>3
  <1>. QED  BY <1>1, <1>2, <1>3, <1>4

(* So only what a step adds has to be looked at.                           *)
LEMMA RefsFrame ==
    ASSUME Inv, [Next]_vars,
           \A i \in tasks' : i \in tasks \/ CloudRow(i, clock)',
           \A p \in Callers : api'[p] = api[p] \/ ApiRefs(api[p])',
           \A q \in Workers : worker'[q] = worker[q] \/ WorkerRefs(worker[q])'
    PROVE  RefsInv'
  <1>1. \A i \in tasks' : CloudRow(i, clock)'
    BY RefsKept
  <1>2. ASSUME NEW p \in Callers
        PROVE  ApiRefs(api[p])'
    <2>1. CASE api'[p] = api[p]
      <3>1. api[p] \in ApiState /\ ApiRefs(api[p])
        BY DEF Inv, TypeOK, RefsInv, ApiState
      <3>. DEFINE t == api[p]
      <3>2. \A x \in ApiState : ApiRefs(x) => ApiRefs(x)'
        BY RefsKept
      <3>. QED  BY <2>1, <3>1, <3>2 DEF ApiRefs
    <2>. QED  BY <2>1
  <1>3. ASSUME NEW q \in Workers
        PROVE  WorkerRefs(worker[q])'
    <2>1. CASE worker'[q] = worker[q]
      <3>1. worker[q] \in WorkerState /\ WorkerRefs(worker[q])
        BY DEF Inv, TypeOK, RefsInv, WorkerState
      <3>2. \A x \in WorkerState : WorkerRefs(x) => WorkerRefs(x)'
        BY RefsKept
      <3>. QED  BY <2>1, <3>1, <3>2 DEF WorkerRefs
    <2>. QED  BY <2>1
  <1>. QED  BY <1>1, <1>2, <1>3 DEF RefsInv

-----------------------------------------------------------------------------
(* Only a reservation makes a row, and only a granted claim marks one.     *)
LEMMA NewRowIsReserved ==
    ASSUME Inv, [Next]_vars, NEW i \in SuggestionIds,
           ~Used(suggestions, i), Used(suggestions', i)
    PROVE  \E p \in Callers :
              /\ ReserveNew(p)
              /\ i = lastId + 1
              /\ api[p] \in Reserving
              /\ suggestions'[i] = PendingRow(api[p].workflow, api[p].request,
                                             api[p].payload, api[p].cloud, api[p].now)
  <1>1. \E p \in Callers : ReserveNew(p)
    <2>1. CASE UNCHANGED <<suggestions, lastId>>
      BY <2>1 DEF Used
    <2>2. CASE StatusStep
      BY <2>2 DEF StatusStep, Used, Pending
    <2>3. CASE MarkerStep
      <3>1. PICK q \in Workers :
               /\ Claim(q)
               /\ ClaimAnswer(suggestions, worker[q].id, PlanOf(worker[q].id),
                              worker[q].now) = "claimed"
        BY <2>3 DEF MarkerStep
      <3>2. PICK row : /\ Used(suggestions, worker[q].id)
                       /\ suggestions' = [suggestions EXCEPT ![worker[q].id] = row]
        BY <3>1, MarkerFacts DEF CloudRow
      <3>. QED  BY <3>2 DEF Used
    <2>4. ASSUME NEW s \in Sweepers, EndSweep(s)
          PROVE  FALSE
      BY <2>4 DEF EndSweep, Inv, LocksInv, Pending, Used
    <2>. QED  BY <2>1, <2>2, <2>3, <2>4, StepShape DEF RowStep
  <1>2. PICK p \in Callers : ReserveNew(p)
    BY <1>1
  <1>. DEFINE t == api[p]
              k == lastId + 1
              row == PendingRow(t.workflow, t.request, t.payload, t.cloud, t.now)
  <1>3. t \in Reserving
    BY <1>2, ApiShapes DEF ReserveNew, Inv, TypeOK, ApiState
  <1>4. suggestions' = [Superseded(t.workflow) EXCEPT ![k] = row] /\ k \in SuggestionIds
    BY <1>2 DEF ReserveNew, Room
  <1>5. i = k
    BY <1>4 DEF Superseded, Pending, Used
  <1>6. suggestions'[i] = row
    <2>. HIDE DEF row, k
    <2>. QED  BY <1>4, <1>5 DEF Superseded
  <1>. QED  BY <1>2, <1>3, <1>5, <1>6

LEMMA NewMarkerIsClaimed ==
    ASSUME Inv, [Next]_vars, NEW i \in SuggestionIds, Used(suggestions, i),
           suggestions'[i].started # suggestions[i].started
    PROVE  \E q \in Workers :
              /\ Claim(q)
              /\ worker[q].id = i
              /\ ClaimAnswer(suggestions, i, PlanOf(i), worker[q].now) = "claimed"
              /\ worker[q].now \in Nat
              /\ worker[q].now <= clock
              /\ CloudRow(i, worker[q].now)
              /\ suggestions'[i] = [suggestions[i] EXCEPT !.started = worker[q].now]
  <1>0. suggestions[i] \in SuggestionRow
    BY DEF Inv, TypeOK, Used
  <1>1. CASE UNCHANGED <<suggestions, lastId>>
    BY <1>1
  <1>2. CASE StatusStep
    <2>1. PICK j \in SuggestionIds, st \in FinalStatuses :
             suggestions' = [suggestions EXCEPT ![j] =
                               [suggestions[j] EXCEPT !.status = st]]
      BY <1>2 DEF StatusStep
    <2>. QED  BY <1>0, <2>1, RowWithStatus DEF Statuses, Inv, TypeOK
  <1>3. CASE MarkerStep
    <2>1. PICK q \in Workers :
             /\ Claim(q)
             /\ ClaimAnswer(suggestions, worker[q].id, PlanOf(worker[q].id),
                            worker[q].now) = "claimed"
      BY <1>3 DEF MarkerStep
    <2>2. /\ worker[q].now \in Nat /\ worker[q].now <= clock
          /\ CloudRow(worker[q].id, worker[q].now)
          /\ suggestions' = [suggestions EXCEPT ![worker[q].id] =
                               [suggestions[worker[q].id] EXCEPT !.started = worker[q].now]]
      BY <2>1, MarkerFacts
    <2>3. worker[q].id = i
      BY <2>2 DEF Inv, TypeOK
    <2>. QED  BY <2>1, <2>2, <2>3 DEF Inv, TypeOK
  <1>4. ASSUME NEW p \in Callers, ReserveNew(p)
        PROVE  FALSE
    <2>. DEFINE k == lastId + 1
    <2>1. i # k
      BY <1>4 DEF ReserveNew, Inv, IdsInv, SuggestionIds, TypeOK
    <2>2. suggestions'[i] = Superseded(api[p].workflow)[i]
      <3>1. PICK row : suggestions' = [Superseded(api[p].workflow) EXCEPT ![k] = row]
        BY <1>4 DEF ReserveNew
      <3>. QED  BY <2>1, <3>1 DEF Superseded
    <2>3. "superseded" \in Statuses
      BY DEF Statuses, FinalStatuses
    <2>. QED  BY <1>0, <2>2, <2>3, RowWithStatus DEF Superseded
  <1>5. ASSUME NEW s \in Sweepers, EndSweep(s)
        PROVE  FALSE
    <2>1. "failed" \in Statuses
      BY DEF Statuses, FinalStatuses
    <2>2. suggestions'[i] = IF i \in sweep[s].doomed
                            THEN [suggestions[i] EXCEPT !.status = "failed"]
                            ELSE suggestions[i]
      BY <1>5 DEF EndSweep
    <2>. QED  BY <1>0, <2>1, <2>2, RowWithStatus
  <1>. QED  BY <1>1, <1>2, <1>3, <1>4, <1>5, StepShape DEF RowStep

(* The constraints of the table hold of every row a step leaves behind.    *)
LEMMA RowsInvKept == Inv /\ [Next]_vars => RowsInv'
  <1>. SUFFICES ASSUME Inv, [Next]_vars PROVE RowsInv'
    OBVIOUS
  <1>0. clock \in Nat /\ clock' \in Nat /\ clock <= clock'
    BY ClockGrows DEF Inv, TypeOK
  <1>1. ASSUME NEW i \in SuggestionIds, Used(suggestions', i)
        PROVE  LET row == suggestions'[i]
               IN  /\ row.queued <= clock'
                   /\ row.started # None => row.cloud /\ row.started >= row.queued
    <2>1. CASE ~Used(suggestions, i)
      <3>1. PICK p \in Callers :
               /\ api[p] \in Reserving
               /\ ApiRefs(api[p])
               /\ suggestions'[i] = PendingRow(api[p].workflow, api[p].request,
                                              api[p].payload, api[p].cloud, api[p].now)
        BY <1>1, <2>1, NewRowIsReserved DEF Inv, RefsInv
      <3>2. api[p].now \in Nat /\ api[p].now <= clock /\ api[p].cloud \in BOOLEAN
        BY <3>1 DEF ApiRefs, Reserving
      <3>. QED  BY <1>0, <3>1, <3>2, TTLAssumption DEF PendingRow
    <2>2. CASE Used(suggestions, i) /\ suggestions'[i].started = suggestions[i].started
      <3>1. SameRequest(suggestions[i], suggestions'[i]) /\ suggestions[i] \in SuggestionRow
        BY <2>2, StepKeepsRows DEF RowsKept, Inv, TypeOK, Used
      <3>. QED  BY <1>0, <2>2, <3>1 DEF SameRequest, Inv, RowsInv, TableChecksHold, SuggestionRow
    <2>3. CASE Used(suggestions, i) /\ suggestions'[i].started # suggestions[i].started
      <3>1. PICK now \in Nat : /\ CloudRow(i, now)
                              /\ suggestions'[i] = [suggestions[i] EXCEPT !.started = now]
        BY <2>3, NewMarkerIsClaimed
      <3>2. suggestions[i] \in SuggestionRow
        BY <2>3 DEF Inv, TypeOK, Used
      <3>3. /\ suggestions'[i].queued = suggestions[i].queued
            /\ suggestions'[i].expires = suggestions[i].expires
            /\ suggestions'[i].cloud = suggestions[i].cloud
            /\ suggestions'[i].started = now
        BY <3>1, <3>2, RowWithMarker
      <3>. QED  BY <1>0, <2>3, <3>1, <3>2, <3>3
                DEF CloudRow, Inv, RowsInv, TableChecksHold, SuggestionRow
    <2>. QED  BY <2>1, <2>2, <2>3
  <1>2. ASSUME NEW i \in SuggestionIds, NEW j \in SuggestionIds,
               Used(suggestions', i), Used(suggestions', j), i # j,
               suggestions'[i].workflow = suggestions'[j].workflow,
               suggestions'[i].request = suggestions'[j].request
        PROVE  FALSE
    <2>1. \A k \in SuggestionIds : Used(suggestions, k) =>
             /\ suggestions'[k].workflow = suggestions[k].workflow
             /\ suggestions'[k].request = suggestions[k].request
      BY StepKeepsRows DEF RowsKept, SameRequest
    <2>2. CASE Used(suggestions, i) /\ Used(suggestions, j)
      BY <1>2, <2>1, <2>2 DEF Inv, RowsInv, TableChecksHold
    <2>3. ASSUME NEW k \in SuggestionIds, NEW l \in SuggestionIds,
                 ~Used(suggestions, k), Used(suggestions', k), Used(suggestions, l),
                 suggestions'[k].workflow = suggestions'[l].workflow,
                 suggestions'[k].request = suggestions'[l].request
          PROVE  FALSE
      <3>1. PICK p \in Callers :
               /\ ReserveNew(p)
               /\ suggestions'[k] = PendingRow(api[p].workflow, api[p].request,
                                              api[p].payload, api[p].cloud, api[p].now)
        BY <2>3, NewRowIsReserved
      <3>2. Matches(api[p], l)
        BY <2>1, <2>3, <3>1 DEF Matches, PendingRow
      <3>. QED  BY <3>1, <3>2 DEF ReserveNew, Known
    <2>4. CASE ~Used(suggestions, i) /\ ~Used(suggestions, j)
      <3>1. i = lastId + 1 /\ j = lastId + 1
        BY <1>2, <2>4, NewRowIsReserved
      <3>. QED  BY <1>2, <3>1
    <2>. QED  BY <1>2, <2>2, <2>3, <2>4
  <1>. QED  BY <1>1, <1>2 DEF RowsInv, TableChecksHold

-----------------------------------------------------------------------------
(* What a step gives a process or the task queue refers to rows there are. *)
LEMMA ApiRefsKept ==
    ASSUME Inv, [Next]_vars, NEW p \in Callers, ApiStep(p)
    PROVE  RefsInv'
  <1>. USE DEF Inv
  <1>0. /\ api \in [Callers -> ApiState] /\ api[p] \in ApiState /\ ApiRefs(api[p])
        /\ clock \in Nat
    BY DEF TypeOK, ApiState, RefsInv
  <1>1. \A x \in Callers : x # p => api'[x] = api[x]
    BY <1>0 DEF ApiStep, BeginReserve, ReserveNew, ReservePending, ReserveAnswered, LookUp,
           Enqueue, EnqueueFails, BeginGet, ReadPlan, ReadLatest, EndRequest,
           ProviderAnswers, FinishInline
  <1>2. /\ UNCHANGED <<worker, clock>>
        /\ Enqueue(p) \/ EnqueueFails(p) \/ UNCHANGED tasks
    BY DEF ApiStep, BeginReserve, ReserveNew, ReservePending, ReserveAnswered, LookUp,
           Enqueue, EnqueueFails, BeginGet, ReadPlan, ReadLatest, EndRequest,
           ProviderAnswers, FinishInline
  <1>3. \A i \in tasks' : i \in tasks \/ CloudRow(i, clock)'
    <2>1. CASE Enqueue(p) \/ EnqueueFails(p)
      <3>1. CloudRow(api[p].id, clock)
        BY <1>0, <2>1 DEF Enqueue, EnqueueFails, ApiRefs
      <3>2. \A i : CloudRow(i, clock) => CloudRow(i, clock)'
        BY RefsKept
      <3>3. \A i \in tasks' : i \in tasks \/ CloudRow(i, clock)
        BY <2>1, <3>1 DEF Enqueue, EnqueueFails
      <3>. QED  BY <3>2, <3>3
    <2>. QED  BY <1>2, <2>1
  <1>4. \A i \in SuggestionIds : Used(suggestions, i) =>
           Used(suggestions', i) /\ suggestions'[i].cloud = suggestions[i].cloud
    BY StepKeepsRows, NoSuggestionAssumption DEF RowsKept, SameRequest, Used
  <1>5. ApiRefs(api[p])'
    <2>1. ASSUME NEW w \in WorkflowIds, NEW r \in RequestIds,
                 NEW m \in SuggestPayloads, NEW c \in CloudModes,
                 BeginReserve(p, w, r, m, c)
          PROVE  ApiRefs(api[p])'
      <3>1. api'[p] = [pc |-> "reserving", workflow |-> w, request |-> r,
                       payload |-> m, cloud |-> c, now |-> clock]
        BY <1>0, <2>1 DEF BeginReserve
      <3>. QED  BY <1>0, <1>2, <3>1 DEF ApiRefs
    <2>2. CASE ReserveNew(p)
      <3>. DEFINE k == lastId + 1
      <3>1. /\ k \in SuggestionIds /\ ~Used(suggestions, k)
            /\ api[p] \in Reserving /\ api[p].now <= clock
        BY <1>0, <2>2, ApiShapes DEF ReserveNew, Room, IdsInv, ApiRefs, SuggestionIds, TypeOK
      <3>2. k <= lastId'
        BY <2>2 DEF ReserveNew, TypeOK
      <3>3. Used(suggestions', k)
        BY <3>1, <3>2, IdsKept DEF IdsInv, Used
      <3>4. suggestions'[k].cloud = api[p].cloud
        <4>1. /\ suggestions' = [Superseded(api[p].workflow) EXCEPT ![k] =
                                   PendingRow(api[p].workflow, api[p].request, api[p].payload,
                                              api[p].cloud, api[p].now)]
          BY <2>2 DEF ReserveNew
        <4>. QED  BY <3>1, <4>1 DEF Superseded, PendingRow
      <3>5. suggestions'[k].queued <= clock'
        BY <3>1, <3>3, RowsInvKept DEF RowsInv, Used
      <3>6. api'[p] = IF api[p].cloud THEN [pc |-> "looking", id |-> k]
                      ELSE [pc |-> "calling", id |-> k]
        BY <1>0, <2>2 DEF ReserveNew
      <3>. HIDE DEF k
      <3>. QED  BY <3>1, <3>3, <3>4, <3>5, <3>6 DEF ApiRefs, CloudRow, Used
    <2>3. CASE ReservePending(p)
      <3>1. PICK i \in SuggestionIds :
               /\ Matches(api[p], i)
               /\ ReplayAnswer(suggestions, i, api[p].payload) = "pending"
               /\ api' = [api EXCEPT ![p] =
                            IF api[p].cloud THEN [pc |-> "looking", id |-> i]
                            ELSE [pc |-> "saving", id |-> i, result |-> "failed"]]
        BY <2>3 DEF ReservePending
      <3>2. Used(suggestions, i) /\ suggestions[i].cloud /\ suggestions[i].queued <= clock
        BY <3>1 DEF Matches, ReplayAnswer, RowsInv
      <3>3. CloudRow(i, clock)'
        BY <1>0, <1>2, <3>2, CloudRowKept DEF CloudRow
      <3>4. api'[p] = IF api[p].cloud THEN [pc |-> "looking", id |-> i]
                      ELSE [pc |-> "saving", id |-> i, result |-> "failed"]
        BY <1>0, <3>1
      <3>. QED  BY <3>3, <3>4 DEF ApiRefs, CloudRow
    <2>4. CASE LookUp(p)
      <3>1. CloudRow(api[p].id, clock)'
        BY <1>0, <1>2, <2>4, CloudRowKept DEF LookUp, ApiRefs, CloudRow
      <3>2. /\ api'[p].pc \in {"enqueueing", "reading"}
            /\ api'[p].id = api[p].id
        BY <1>0, <2>4 DEF LookUp
      <3>. QED  BY <3>1, <3>2 DEF ApiRefs, CloudRow
    <2>5. CASE Enqueue(p)
      <3>1. api'[p] = [api[p] EXCEPT !.pc = "reading"] /\ api[p] \in Loaded
        BY <1>0, <2>5, ApiShapes DEF Enqueue
      <3>2. api'[p].pc = "reading"
        BY <3>1 DEF Loaded
      <3>. QED  BY <3>2 DEF ApiRefs
    <2>6. CASE ReserveAnswered(p) \/ EnqueueFails(p) \/ EndRequest(p) \/ FinishInline(p)
      BY <1>0, <2>6 DEF ReserveAnswered, EnqueueFails, EndRequest, FinishInline, Idle, ApiRefs
    <2>7. ASSUME NEW w \in WorkflowIds, BeginGet(p, w)
          PROVE  ApiRefs(api[p])'
      BY <1>0, <2>7 DEF BeginGet, ApiRefs
    <2>8. CASE ReadPlan(p)
      <3>1. api'[p].pc \in {"found", "idle"}
        BY <1>0, <2>8 DEF ReadPlan, Idle
      <3>. QED  BY <3>1 DEF ApiRefs
    <2>9. CASE ReadLatest(p)
      <3>1. api'[p].pc \in {"answering", "idle"}
        BY <1>0, <2>9 DEF ReadLatest, Idle
      <3>. QED  BY <3>1 DEF ApiRefs
    <2>10. ASSUME NEW result \in Results, ProviderAnswers(p, result)
           PROVE  ApiRefs(api[p])'
      <3>1. /\ Used(suggestions, api[p].id) /\ ~suggestions[api[p].id].cloud
            /\ api[p].id \in SuggestionIds
        BY <1>0, <2>10, ApiShapes DEF ProviderAnswers, ApiRefs, Calling
      <3>2. api'[p] = [pc |-> "saving", id |-> api[p].id, result |-> result]
        BY <1>0, <2>10 DEF ProviderAnswers
      <3>. QED  BY <1>4, <3>1, <3>2 DEF ApiRefs, Used
    <2>. QED
      BY <2>1, <2>2, <2>3, <2>4, <2>5, <2>6, <2>7, <2>8, <2>9, <2>10 DEF ApiStep
  <1>. QED  BY <1>1, <1>2, <1>3, <1>5, RefsFrame

LEMMA WorkerRefsKept ==
    ASSUME Inv, [Next]_vars, NEW q \in Workers, WorkerStep(q)
    PROVE  RefsInv'
  <1>. USE DEF Inv
  <1>0. /\ worker \in [Workers -> WorkerState] /\ worker[q] \in WorkerState
        /\ WorkerRefs(worker[q]) /\ clock \in Nat
    BY DEF TypeOK, WorkerState, RefsInv
  <1>1. /\ UNCHANGED <<api, clock, tasks>>
        /\ \A x \in Workers : x # q => worker'[x] = worker[x]
    BY <1>0 DEF WorkerStep, Deliver, Claim, ProviderReturns, FinishClaimed, DeliveryDies
  <1>2. WorkerRefs(worker[q])'
    <2>1. ASSUME NEW i \in SuggestionIds, Deliver(q, i)
          PROVE  WorkerRefs(worker[q])'
      <3>1. CloudRow(i, clock)'
        BY <1>0, <2>1, CloudRowKept DEF Deliver, RefsInv
      <3>2. worker'[q] = [pc |-> "claiming", id |-> i, now |-> clock]
        BY <1>0, <2>1 DEF Deliver
      <3>. QED  BY <1>0, <1>1, <3>1, <3>2 DEF WorkerRefs, CloudRow
    <2>2. CASE Claim(q)
      <3>. DEFINE i == worker[q].id
                  answer == ClaimAnswer(suggestions, i, PlanOf(i), worker[q].now)
      <3>1. CASE answer = "claimed"
        <4>1. /\ worker[q].now \in Nat /\ worker[q].now <= clock /\ CloudRow(i, worker[q].now)
              /\ worker' = [worker EXCEPT ![q] =
                              [pc |-> "claimed", id |-> i, started |-> worker[q].now]]
          BY <2>2, <3>1, MarkerFacts
        <4>2. CloudRow(i, clock)'
          BY <1>0, <1>1, <4>1, CloudRowKept DEF CloudRow
        <4>3. worker'[q] = [pc |-> "claimed", id |-> i, started |-> worker[q].now]
          BY <1>0, <4>1
        <4>. QED  BY <4>2, <4>3 DEF WorkerRefs, CloudRow
      <3>2. CASE answer # "claimed"
        <4>1. worker'[q] = Idle
          BY <1>0, <2>2, <3>2 DEF Claim
        <4>. QED  BY <4>1 DEF WorkerRefs, Idle
      <3>. QED  BY <3>1, <3>2
    <2>3. ASSUME NEW result \in Results, ProviderReturns(q, result)
          PROVE  WorkerRefs(worker[q])'
      <3>1. CloudRow(worker[q].id, clock)
        BY <1>0, <2>3 DEF ProviderReturns, WorkerRefs
      <3>2. \A i : CloudRow(i, clock) => CloudRow(i, clock)'
        BY RefsKept
      <3>3. worker'[q] = [pc |-> "finishing", id |-> worker[q].id,
                          started |-> worker[q].started, result |-> result, now |-> clock]
        BY <1>0, <2>3 DEF ProviderReturns
      <3>. QED  BY <1>0, <1>1, <3>1, <3>2, <3>3 DEF WorkerRefs, CloudRow
    <2>4. CASE FinishClaimed(q) \/ DeliveryDies(q)
      BY <1>0, <2>4 DEF FinishClaimed, DeliveryDies, Idle, WorkerRefs
    <2>. QED  BY <2>1, <2>2, <2>3, <2>4 DEF WorkerStep
  <1>. QED  BY <1>1, <1>2, RefsFrame

LEMMA RefsInvKept == Inv /\ [Next]_vars => RefsInv'
  <1>. SUFFICES ASSUME Inv, [Next]_vars PROVE RefsInv'
    OBVIOUS
  <1>1. CASE UNCHANGED <<tasks, api, worker>>
    BY <1>1, RefsFrame
  <1>2. ASSUME ~UNCHANGED <<tasks, api, worker>>
        PROVE  \/ \E p \in Callers : ApiStep(p)
               \/ \E q \in Workers : WorkerStep(q)
    BY <1>2 DEF Next, vars, AdvancePlan, Tick, SweepStep, BeginSweep, SweepRow, SkipRow,
                EndSweep, SweepDies
  <1>. QED  BY <1>1, <1>2, ApiRefsKept, WorkerRefsKept

-----------------------------------------------------------------------------
(* What a running sweep counts on: SweepRefs is LocksInv, sweep by sweep.  *)
SweepRefs(t) ==
    t.pc = "sweeping" =>
       /\ \A i \in t.left : Used(suggestions, i)
       /\ \A i \in t.doomed : /\ Pending(suggestions, i)
                              /\ suggestions[i].cloud
                              /\ suggestions[i].workflow \in t.held

(* A sweep that stands still loses nothing it counts on, whoever moves.    *)
LEMMA SweepFrame ==
    ASSUME Inv, [Next]_vars, NEW s \in Sweepers, sweep'[s] = sweep[s]
    PROVE  SweepRefs(sweep[s])'
  <1>. SUFFICES ASSUME sweep[s].pc = "sweeping" PROVE SweepRefs(sweep[s])'
    BY DEF SweepRefs
  <1>1. sweep[s] \in Sweeping
    BY SweepShapes DEF Inv, TypeOK, SweepState
  <1>2. \A i \in sweep[s].left : Used(suggestions', i)
    <2>. TAKE i \in sweep[s].left
    <2>1. i \in SuggestionIds /\ Used(suggestions, i)
      BY <1>1 DEF Sweeping, Inv, LocksInv
    <2>. QED  BY <2>1, StepKeepsRows, NoSuggestionAssumption DEF RowsKept, SameRequest, Used
  <1>3. \A i \in sweep[s].doomed : /\ Pending(suggestions', i)
                                  /\ suggestions'[i].cloud
                                  /\ suggestions'[i].workflow \in sweep[s].held
    <2>. TAKE i \in sweep[s].doomed
    <2>1. /\ i \in SuggestionIds /\ Pending(suggestions, i) /\ suggestions[i].cloud
          /\ suggestions[i].workflow \in sweep[s].held
      BY <1>1 DEF Sweeping, Inv, LocksInv
    <2>2. HeldOn(suggestions[i].workflow)
      BY <2>1 DEF HeldOn
    <2>3. suggestions'[i] = suggestions[i]
      BY <2>1, <2>2, StepKeepsRows DEF RowsKept, Pending
    <2>. QED  BY <2>1, <2>3 DEF Pending, Used
  <1>. QED  BY <1>2, <1>3 DEF SweepRefs, Pending, Used

LEMMA LocksInvKept == Inv /\ [Next]_vars => LocksInv'
  <1>. SUFFICES ASSUME Inv, [Next]_vars PROVE LocksInv'
    OBVIOUS
  <1>. USE DEF Inv
  <1>0. sweep \in [Sweepers -> SweepState]
    BY DEF TypeOK, SweepState
  <1>1. CASE UNCHANGED sweep
    <2>1. \A s \in Sweepers : SweepRefs(sweep[s])'
      BY <1>1, SweepFrame
    <2>. QED  BY <1>1, <2>1 DEF LocksInv, SweepRefs
  <1>2. ASSUME NEW s \in Sweepers, SweepStep(s)
        PROVE  LocksInv'
    <2>1. \A x \in Sweepers : x # s => sweep'[x] = sweep[x]
      BY <1>0, <1>2 DEF SweepStep, BeginSweep, SweepRow, SkipRow, EndSweep, SweepDies
    <2>2. \A x \in Sweepers : x # s => SweepRefs(sweep[x])'
      BY <2>1, SweepFrame
    <2>. DEFINE Apart == sweep'[s].pc = "sweeping" =>
                   \A x \in Sweepers : x # s /\ sweep[x].pc = "sweeping"
                                     => sweep'[s].held \cap sweep[x].held = {}
    <2>3. SweepRefs(sweep[s])' /\ Apart
      <3>1. CASE BeginSweep(s)
        <4>1. /\ sweep'[s] = [pc |-> "sweeping", now |-> clock, left |-> Batch(clock),
                              held |-> {}, doomed |-> {}]
              /\ suggestions' = suggestions
          BY <1>0, <3>1 DEF BeginSweep, tables
        <4>2. \A i \in Batch(clock) : Used(suggestions, i)
          BY DEF Batch, SweepCandidate, Pending
        <4>. QED  BY <4>1, <4>2 DEF SweepRefs
      <3>2. ASSUME NEW i \in SuggestionIds, SweepRow(s, i)
            PROVE  SweepRefs(sweep[s])' /\ Apart
        <4>. DEFINE t == sweep[s]
                    w == suggestions[i].workflow
        <4>1. t.pc = "sweeping" /\ (w \in t.held \/ ~Held(w)) /\ suggestions' = suggestions
          BY <3>2 DEF SweepRow, NextUp, tables
        <4>2. t \in Sweeping
          BY <1>0, <4>1, SweepShapes
        <4>3. sweep' = [sweep EXCEPT ![s] =
                 [t EXCEPT !.left = t.left \ {i},
                           !.held = t.held \cup {w},
                           !.doomed = IF Sweepable(s, i) THEN t.doomed \cup {i} ELSE t.doomed]]
          BY <1>0, <3>2 DEF SweepRow
        <4>4. /\ sweep'[s].pc = "sweeping"
              /\ sweep'[s].left = t.left \ {i}
              /\ sweep'[s].held = t.held \cup {w}
              /\ sweep'[s].doomed = IF Sweepable(s, i) THEN t.doomed \cup {i} ELSE t.doomed
          <5>. DEFINE d == IF Sweepable(s, i) THEN t.doomed \cup {i} ELSE t.doomed
          <5>. HIDE DEF d
          <5>. QED  BY <1>0, <4>1, <4>2, <4>3 DEF Sweeping
        <4>5. Sweepable(s, i) => Pending(suggestions, i) /\ suggestions[i].cloud
          BY DEF Sweepable, SweepCandidate
        <4>6. SweepRefs(sweep[s])'
          BY <4>1, <4>4, <4>5 DEF SweepRefs, LocksInv
        <4>7. \A x \in Sweepers : x # s /\ sweep[x].pc = "sweeping"
                               => sweep'[s].held \cap sweep[x].held = {}
          BY <4>1, <4>4 DEF LocksInv, Held
        <4>. QED  BY <4>6, <4>7
      <3>3. ASSUME NEW i \in SuggestionIds, SkipRow(s, i)
            PROVE  SweepRefs(sweep[s])' /\ Apart
        <4>1. /\ sweep[s].pc = "sweeping" /\ suggestions' = suggestions
              /\ sweep' = [sweep EXCEPT ![s] =
                             [sweep[s] EXCEPT !.left = sweep[s].left \ {i}]]
          BY <1>0, <3>3 DEF SkipRow, NextUp, tables
        <4>2. sweep[s] \in Sweeping
          BY <1>0, <4>1, SweepShapes
        <4>3. /\ sweep'[s].pc = "sweeping"
              /\ sweep'[s].left = sweep[s].left \ {i}
              /\ sweep'[s].held = sweep[s].held
              /\ sweep'[s].doomed = sweep[s].doomed
          BY <1>0, <4>1, <4>2 DEF Sweeping
        <4>. QED  BY <4>1, <4>3 DEF SweepRefs, LocksInv
      <3>4. CASE EndSweep(s) \/ SweepDies(s)
        <4>1. sweep'[s] = Idle
          BY <1>0, <3>4 DEF EndSweep, SweepDies
        <4>. QED  BY <4>1 DEF SweepRefs, Idle
      <3>. QED  BY <1>2, <3>1, <3>2, <3>3, <3>4 DEF SweepStep
    <2>4. \A x \in Sweepers : SweepRefs(sweep[x])'
      BY <2>2, <2>3
    <2>5. ASSUME NEW s1 \in Sweepers, NEW s2 \in Sweepers,
                 sweep'[s1].pc = "sweeping", sweep'[s2].pc = "sweeping", s1 # s2
          PROVE  sweep'[s1].held \cap sweep'[s2].held = {}
      <3>1. CASE s1 = s
        BY <2>1, <2>3, <2>5, <3>1
      <3>2. CASE s2 = s
        BY <2>1, <2>3, <2>5, <3>2
      <3>3. CASE s1 # s /\ s2 # s
        BY <2>1, <2>5, <3>3 DEF LocksInv
      <3>. QED  BY <3>1, <3>2, <3>3
    <2>. QED  BY SMTT(30), <2>4, <2>5 DEF LocksInv, SweepRefs
  <1>3. ASSUME ~UNCHANGED sweep
        PROVE  \E s \in Sweepers : SweepStep(s)
    BY ZenonT(40), <1>3
       DEF Next, vars, AdvancePlan, Tick, ApiStep, WorkerStep, BeginReserve, ReserveNew,
                ReservePending, ReserveAnswered, LookUp, Enqueue, EnqueueFails, BeginGet,
                ReadPlan, ReadLatest, EndRequest, ProviderAnswers, FinishInline, Deliver,
                Claim, ProviderReturns, FinishClaimed, DeliveryDies
  <1>. QED  BY <1>1, <1>2, <1>3

LEMMA InvKept == Inv /\ [Next]_vars => Inv'
  BY TypesKept, IdsKept, RowsInvKept, RefsInvKept, LocksInvKept DEF Inv

LEMMA Invariance == Spec => []Inv
  BY InvInit, InvKept, PTL DEF Spec

-----------------------------------------------------------------------------
(* Every variable keeps its type, for any number of rows and processes.    *)
THEOREM SuggestionTypeCorrect == Spec => []TypeOK
  <1>1. Inv => TypeOK
    BY DEF Inv
  <1>. QED  BY <1>1, Invariance, PTL

(* No step of any interleaving breaks a constraint of the table, so no     *)
(* insert or update is ever refused by one.                                *)
THEOREM SuggestionTableChecksHold == Spec => []TableChecksHold
  <1>1. Inv => TableChecksHold
    BY DEF Inv, RowsInv
  <1>. QED  BY <1>1, Invariance, PTL

(* A row that keeps its request differs in its status and marker at most.  *)
LEMMA RowFollows ==
    ASSUME NEW old \in SuggestionRow, NEW new, SameRequest(old, new)
    PROVE  new = [old EXCEPT !.status = new.status, !.started = new.started]
  <1>. DEFINE mid  == [old EXCEPT !.status = new.status]
              last == [mid EXCEPT !.started = new.started]
  <1>1. new \in SuggestionRow /\ new.status \in Statuses /\ new.started \in Nat \cup {None}
    BY DEF SameRequest, SuggestionRow
  <1>2. /\ mid \in SuggestionRow
        /\ mid.workflow = old.workflow /\ mid.request = old.request
        /\ mid.payload = old.payload /\ mid.cloud = old.cloud
        /\ mid.queued = old.queued /\ mid.expires = old.expires
        /\ mid.status = new.status
    BY <1>1, RowWithStatus
  <1>. HIDE DEF mid
  <1>3. /\ last \in SuggestionRow
        /\ last.workflow = mid.workflow /\ last.request = mid.request
        /\ last.payload = mid.payload /\ last.cloud = mid.cloud
        /\ last.queued = mid.queued /\ last.expires = mid.expires
        /\ last.status = mid.status /\ last.started = new.started
    BY <1>1, <1>2 DEF SuggestionRow
  <1>. HIDE DEF last
  <1>4. /\ last.workflow = new.workflow /\ last.request = new.request
        /\ last.payload = new.payload /\ last.cloud = new.cloud
        /\ last.queued = new.queued /\ last.expires = new.expires
        /\ last.status = new.status /\ last.started = new.started
    BY <1>2, <1>3 DEF SameRequest
  <1>5. new = last
    BY <1>1, <1>3, <1>4 DEF SuggestionRow
  <1>. QED  BY <1>5 DEF mid, last

(* A row never changes who asked for what, its claim marker never moves    *)
(* and a settled row stays as it is, whatever interleaving of requests,    *)
(* deliveries and sweeps.                                                  *)
THEOREM SuggestionRowsMoveForward == Spec => RowsOnlyMoveForward
  <1>. DEFINE Forward ==
                 \A i \in SuggestionIds : Used(suggestions, i) =>
                    LET old == suggestions[i]
                        new == suggestions'[i]
                    IN  /\ new = [old EXCEPT !.status = new.status, !.started = new.started]
                        /\ old.started # None => new.started = old.started
                        /\ old.status # "pending" => new = old
  <1>1. Inv /\ [Next]_vars => Forward
    <2>. SUFFICES ASSUME Inv, [Next]_vars, NEW i \in SuggestionIds, Used(suggestions, i)
                  PROVE  LET old == suggestions[i]
                             new == suggestions'[i]
                         IN  /\ new = [old EXCEPT !.status = new.status, !.started = new.started]
                             /\ old.started # None => new.started = old.started
                             /\ old.status # "pending" => new = old
      OBVIOUS
    <2>1. SameRequest(suggestions[i], suggestions'[i])
      BY StepKeepsRows DEF RowsKept
    <2>2. suggestions[i] \in SuggestionRow
      BY DEF Inv, TypeOK, Used
    <2>3. suggestions'[i] = [suggestions[i] EXCEPT !.status = suggestions'[i].status,
                                                   !.started = suggestions'[i].started]
      BY <2>1, <2>2, RowFollows
    <2>. QED  BY <2>1, <2>2, <2>3 DEF SameRequest
  <1>2. Inv /\ [Next]_vars => [Forward]_vars
    BY <1>1
  <1>. HIDE DEF Forward
  <1>3. Spec => [][Forward]_vars
    BY <1>2, Invariance, PTL DEF Spec
  <1>. QED  BY <1>3 DEF RowsOnlyMoveForward, Forward

-----------------------------------------------------------------------------
(* Of the rows for one plan only the last one is pending: a reservation    *)
(* ends the turn of those before it, and ids are given out in order.       *)
LEMMA PendingStaysLatest ==
    ASSUME Inv, OnlyLatestPends, [Next]_vars
    PROVE  OnlyLatestPends'
  <1>. SUFFICES ASSUME NEW i \in SuggestionIds, Pending(suggestions', i)
                PROVE  IsLatest(suggestions', i)
    BY DEF OnlyLatestPends, Pending, IsLatest, Used, RowsOf
  <1>1. Used(suggestions', i)
    BY DEF Pending
  <1>2. \A j \in SuggestionIds : Used(suggestions, j) =>
           /\ suggestions'[j].workflow = suggestions[j].workflow
           /\ Pending(suggestions', j) => Pending(suggestions, j)
    BY StepKeepsRows DEF RowsKept, SameRequest, Pending, Used
  <1>3. lastId \in Nat /\ \A j \in SuggestionIds : j \in Nat
    BY DEF Inv, TypeOK, SuggestionIds
  <1>4. SUFFICES ASSUME NEW j \in SuggestionIds, Used(suggestions', j),
                        suggestions'[j].workflow = suggestions'[i].workflow
                 PROVE  j <= i
    BY <1>1 DEF IsLatest, RowsOf
  <1>5. CASE Used(suggestions, i) /\ Used(suggestions, j)
    BY <1>2, <1>4, <1>5 DEF OnlyLatestPends, IsLatest, RowsOf
  <1>6. CASE ~Used(suggestions, i)
    <2>1. i = lastId + 1
      BY <1>1, <1>6, NewRowIsReserved
    <2>2. j <= lastId \/ j = lastId + 1
      BY <1>4, NewRowIsReserved DEF Inv, IdsInv
    <2>. QED  BY <1>3, <2>1, <2>2
  <1>7. CASE Used(suggestions, i) /\ ~Used(suggestions, j)
    <2>1. PICK p \in Callers :
             /\ ReserveNew(p)
             /\ j = lastId + 1
             /\ suggestions'[j] = PendingRow(api[p].workflow, api[p].request, api[p].payload,
                                            api[p].cloud, api[p].now)
      BY <1>4, <1>7, NewRowIsReserved
    <2>2. suggestions[i].workflow = api[p].workflow
      BY <1>2, <1>4, <1>7, <2>1 DEF PendingRow
    <2>3. i # lastId + 1
      BY <1>3, <1>7 DEF Inv, IdsInv
    <2>4. suggestions'[i] = Superseded(api[p].workflow)[i]
      <3>1. PICK row : suggestions' = [Superseded(api[p].workflow) EXCEPT ![lastId + 1] = row]
        BY <2>1 DEF ReserveNew
      <3>. QED  BY <2>3, <3>1 DEF Superseded
    <2>5. Pending(suggestions, i) /\ suggestions[i] \in SuggestionRow
      BY <1>2, <1>7 DEF Inv, TypeOK, Used
    <2>6. suggestions'[i] = [suggestions[i] EXCEPT !.status = "superseded"]
      BY <2>2, <2>4, <2>5 DEF Superseded
    <2>7. "superseded" \in Statuses
      BY DEF Statuses, FinalStatuses
    <2>8. suggestions'[i].status = "superseded"
      BY <2>5, <2>6, <2>7, RowWithStatus
    <2>. QED  BY <2>8 DEF Pending
  <1>. QED  BY <1>5, <1>6, <1>7

THEOREM SuggestionOnlyLatestPends == Spec => []OnlyLatestPends
  <1>1. Init => OnlyLatestPends
    BY DEF Init, OnlyLatestPends, Pending, Used
  <1>2. Inv /\ OnlyLatestPends /\ [Next]_vars => OnlyLatestPends'
    BY PendingStaysLatest
  <1>. QED  BY <1>1, <1>2, Invariance, PTL DEF Spec

-----------------------------------------------------------------------------
(* A row becomes ready only by the answer "saved" to one of the two        *)
(* finishing transactions.                                                 *)
LEMMA NewlyReady ==
    ASSUME Inv, [Next]_vars, NEW i \in SuggestionIds, Used(suggestions, i),
           suggestions[i].status # "ready", suggestions'[i].status = "ready"
    PROVE  \/ \E p \in Callers : /\ api[p].id = i
                                /\ api[p].pc = "saving"
                                /\ api[p].result = "ready"
                                /\ InlineAnswer(suggestions, i, PlanOf(i)) = "saved"
           \/ \E q \in Workers :
                 FinishAnswer(suggestions, i, PlanOf(i), worker[q].started, worker[q].now)
                    = "saved"
  <1>. USE DEF Inv
  <1>0. suggestions[i] \in SuggestionRow /\ suggestions \in [SuggestionIds -> SuggestionRow \cup {None}]
    BY DEF TypeOK, Used
  <1>1. \A j \in SuggestionIds, st \in Statuses :
           SetStatus(j, st) => j = i /\ st = "ready"
    <2>. SUFFICES ASSUME NEW j \in SuggestionIds, NEW st \in Statuses, SetStatus(j, st)
                  PROVE  j = i /\ st = "ready"
      OBVIOUS
    <2>1. suggestions' = [suggestions EXCEPT ![j] = [suggestions[j] EXCEPT !.status = st]]
      BY <1>0 DEF SetStatus
    <2>2. j = i
      BY <1>0, <2>1
    <2>3. suggestions'[i].status = st
      BY <1>0, <2>1, <2>2, RowWithStatus
    <2>. QED  BY <2>2, <2>3
  <1>2. "failed" \in Statuses /\ "superseded" \in Statuses /\ Results \subseteq Statuses
    BY DEF Statuses, FinalStatuses, Results
  <1>3. ASSUME NEW p \in Callers, ReserveNew(p)
        PROVE  FALSE
    <2>1. i # lastId + 1
      BY <1>3 DEF ReserveNew, IdsInv, SuggestionIds, TypeOK
    <2>2. suggestions'[i] = Superseded(api[p].workflow)[i]
      <3>1. PICK row : suggestions' = [Superseded(api[p].workflow) EXCEPT ![lastId + 1] = row]
        BY <1>3 DEF ReserveNew
      <3>. QED  BY <2>1, <3>1 DEF Superseded
    <2>. QED  BY <1>0, <1>2, <2>2, RowWithStatus DEF Superseded
  <1>4. ASSUME NEW p \in Callers, FinishInline(p)
        PROVE  /\ api[p].id = i
               /\ api[p].pc = "saving"
               /\ api[p].result = "ready"
               /\ InlineAnswer(suggestions, i, PlanOf(i)) = "saved"
    <2>1. api[p] \in Saving
      BY <1>4, ApiShapes DEF FinishInline, TypeOK, ApiState
    <2>2. /\ InlineAnswer(suggestions, api[p].id, PlanOf(api[p].id)) = "saved"
          /\ SetStatus(api[p].id, api[p].result)
      BY <1>4 DEF FinishInline, SetResult
    <2>3. api[p].id = i /\ api[p].result = "ready"
      BY <1>1, <1>2, <2>1, <2>2 DEF Saving
    <2>. QED  BY <1>4, <2>2, <2>3 DEF FinishInline
  <1>5. ASSUME NEW q \in Workers, Claim(q)
        PROVE  FALSE
    <2>. DEFINE j == worker[q].id
                answer == ClaimAnswer(suggestions, j, PlanOf(j), worker[q].now)
    <2>1. CASE answer = "claimed"
      <3>1. /\ worker[q].now \in Nat
            /\ suggestions' = [suggestions EXCEPT ![j] =
                                 [suggestions[j] EXCEPT !.started = worker[q].now]]
        BY <1>5, <2>1, MarkerFacts
      <3>2. j = i
        BY <1>0, <3>1
      <3>. QED  BY <1>0, <3>1, <3>2, RowWithMarker
    <2>2. CASE answer # "claimed"
      <3>1. j \in SuggestionIds
        BY <1>5 DEF Claim, RefsInv, WorkerRefs, CloudRow
      <3>2. ~SetStatus(j, "failed") /\ ~SetStatus(j, "superseded")
        BY <1>1, <1>2, <3>1
      <3>3. UNCHANGED suggestions
        BY <1>5, <2>2, <3>2 DEF Claim, FailRow, SupersedeRow
      <3>. QED  BY <3>3
    <2>. QED  BY <2>1, <2>2
  <1>6. ASSUME NEW q \in Workers, FinishClaimed(q)
        PROVE  FinishAnswer(suggestions, i, PlanOf(i), worker[q].started, worker[q].now)
                  = "saved"
    <2>. DEFINE j == worker[q].id
                answer == FinishAnswer(suggestions, j, PlanOf(j), worker[q].started,
                                       worker[q].now)
    <2>1. worker[q] \in Finishing
      BY <1>6, WorkerShapes DEF FinishClaimed, TypeOK, WorkerState
    <2>2. ~SetStatus(j, "superseded")
      BY <1>1, <1>2, <2>1 DEF Finishing
    <2>3. answer = "saved" /\ SetStatus(j, worker[q].result)
      BY <1>6, <2>2 DEF FinishClaimed, SupersedeRow, SetResult
    <2>4. j = i
      BY <1>1, <1>2, <2>1, <2>3 DEF Finishing
    <2>. QED  BY <2>3, <2>4
  <1>7. ASSUME NEW s \in Sweepers, EndSweep(s)
        PROVE  FALSE
    <2>1. suggestions'[i] = IF i \in sweep[s].doomed
                            THEN [suggestions[i] EXCEPT !.status = "failed"]
                            ELSE suggestions[i]
      BY <1>7 DEF EndSweep
    <2>. QED  BY <1>0, <1>2, <2>1, RowWithStatus
  <1>8. ~UNCHANGED suggestions
    OBVIOUS
  <1>9. \/ \E p \in Callers : ReserveNew(p) \/ FinishInline(p)
        \/ \E q \in Workers : Claim(q) \/ FinishClaimed(q)
        \/ \E s \in Sweepers : EndSweep(s)
    BY ZenonT(40), <1>8 DEF Next, vars, tables, AdvancePlan, Tick, ApiStep, WorkerStep, SweepStep,
           BeginReserve, ReservePending, ReserveAnswered, LookUp, Enqueue, EnqueueFails,
           BeginGet, ReadPlan, ReadLatest, EndRequest, ProviderAnswers, Deliver,
           ProviderReturns, DeliveryDies, BeginSweep, SweepRow, SkipRow, SweepDies
  <1>. QED  BY <1>3, <1>4, <1>5, <1>6, <1>7, <1>9

(* A result is saved only while the plan is at the revision it was asked   *)
(* for, still collects titles, and no later request was made.              *)
THEOREM SuggestionResultFitsPlan == Spec => ResultFitsPlan
  <1>. DEFINE Fits ==
                 \A i \in SuggestionIds :
                    /\ Used(suggestions, i)
                    /\ suggestions[i].status # "ready"
                    /\ suggestions'[i].status = "ready"
                    => AtBase(PlanOf(i), suggestions[i]) /\ IsLatest(suggestions, i)
  <1>1. Inv /\ [Next]_vars => Fits
    BY NewlyReady DEF InlineAnswer, FinishAnswer
  <1>2. Inv /\ [Next]_vars => [Fits]_vars
    BY <1>1
  <1>. HIDE DEF Fits
  <1>3. Spec => [][Fits]_vars
    BY <1>2, Invariance, PTL DEF Spec
  <1>. QED  BY <1>3 DEF ResultFitsPlan, Fits

-----------------------------------------------------------------------------
(* The claim marker is the record of a worker's one provider call, and a   *)
(* reservation by an inline API process is granted its call at once.       *)
CallsOf(i) ==
    /\ ~Used(suggestions, i) => grants[i] = 0
    /\ Used(suggestions, i) =>
          LET row == suggestions[i]
          IN  /\ ~row.cloud => grants[i] = 1
              /\ row.cloud /\ row.started = None => grants[i] = 0 /\ row.status # "ready"
              /\ row.cloud /\ row.started # None => grants[i] = 1

CallsInv == \A i \in SuggestionIds : CallsOf(i)

LEMMA CallsKept ==
    ASSUME Inv, CallsInv, [Next]_vars
    PROVE  CallsInv'
  <1>. SUFFICES ASSUME NEW i \in SuggestionIds PROVE CallsOf(i)'
    BY DEF CallsInv
  <1>0. CallsOf(i) /\ grants \in [SuggestionIds -> Nat]
    BY DEF CallsInv, Inv, TypeOK
  <1>1. \/ \E p \in Callers : ReserveNew(p)
        \/ \E q \in Workers : Claim(q)
        \/ UNCHANGED grants
    BY DEF Next, vars, AdvancePlan, Tick, ApiStep, WorkerStep, SweepStep,
           BeginReserve, ReservePending, ReserveAnswered, LookUp, Enqueue, EnqueueFails,
           BeginGet, ReadPlan, ReadLatest, EndRequest, ProviderAnswers, FinishInline,
           Deliver, ProviderReturns, FinishClaimed, DeliveryDies, BeginSweep, SweepRow,
           SkipRow, EndSweep, SweepDies
  <1>2. \A p \in Callers : ReserveNew(p) =>
           /\ ~Used(suggestions, lastId + 1)
           /\ lastId + 1 \in SuggestionIds
           /\ api[p].cloud \in BOOLEAN
           /\ IF api[p].cloud THEN UNCHANGED grants
              ELSE grants' = [grants EXCEPT ![lastId + 1] = @ + 1]
    BY ApiShapes DEF ReserveNew, Room, Inv, IdsInv, TypeOK, ApiState, Reserving, SuggestionIds
  <1>3. \A q \in Workers : Claim(q) =>
           /\ worker[q].id \in SuggestionIds
           /\ Used(suggestions, worker[q].id)
           /\ \/ UNCHANGED grants
              \/ /\ ClaimAnswer(suggestions, worker[q].id, PlanOf(worker[q].id),
                                worker[q].now) = "claimed"
                 /\ grants' = [grants EXCEPT ![worker[q].id] = @ + 1]
    BY DEF Claim, Inv, RefsInv, WorkerRefs, CloudRow
  <1>4. CASE ~Used(suggestions, i) /\ ~Used(suggestions', i)
    <2>1. \A p \in Callers : ReserveNew(p) => i # lastId + 1
      <3>. SUFFICES ASSUME NEW p \in Callers, ReserveNew(p), i = lastId + 1 PROVE FALSE
        OBVIOUS
      <3>1. lastId' = i
        BY DEF ReserveNew
      <3>2. Used(suggestions', i)
        BY <3>1, IdsKept DEF IdsInv, Used, SuggestionIds
      <3>. QED  BY <1>4, <3>2
    <2>2. grants'[i] = grants[i]
      BY <1>0, <1>1, <1>2, <1>3, <1>4, <2>1
    <2>. QED  BY <1>0, <1>4, <2>2 DEF CallsOf, Used
  <1>5. CASE ~Used(suggestions, i) /\ Used(suggestions', i)
    <2>1. PICK p \in Callers :
             /\ ReserveNew(p)
             /\ i = lastId + 1
             /\ suggestions'[i] = PendingRow(api[p].workflow, api[p].request, api[p].payload,
                                            api[p].cloud, api[p].now)
      BY <1>5, NewRowIsReserved
    <2>2. grants'[i] = IF api[p].cloud THEN 0 ELSE 1
      BY <1>0, <1>2, <1>5, <2>1 DEF CallsOf
    <2>3. /\ suggestions'[i].cloud = api[p].cloud
          /\ suggestions'[i].started = None
          /\ suggestions'[i].status = "pending"
      BY <2>1 DEF PendingRow
    <2>4. CASE api[p].cloud
      BY <1>5, <2>2, <2>3, <2>4 DEF CallsOf, Used
    <2>5. CASE ~api[p].cloud
      BY <1>5, <2>2, <2>3, <2>5 DEF CallsOf, Used
    <2>. QED  BY <2>4, <2>5
  <1>6. CASE Used(suggestions, i) /\ suggestions'[i].started # suggestions[i].started
    <2>1. PICK q \in Workers :
             /\ Claim(q)
             /\ worker[q].id = i
             /\ ClaimAnswer(suggestions, i, PlanOf(i), worker[q].now) = "claimed"
             /\ worker[q].now \in Nat
             /\ suggestions'[i] = [suggestions[i] EXCEPT !.started = worker[q].now]
      BY <1>6, NewMarkerIsClaimed
    <2>2. grants' = [grants EXCEPT ![i] = @ + 1] /\ suggestions[i].started = None
      BY <2>1, MarkerFacts
    <2>3. suggestions[i] \in SuggestionRow /\ suggestions[i].cloud
      BY <1>6, <2>1 DEF Inv, TypeOK, Used, ClaimAnswer, Pending
    <2>4. grants'[i] = 1
      BY <1>0, <1>6, <2>2, <2>3 DEF CallsOf
    <2>5. suggestions'[i].started = worker[q].now /\ suggestions'[i].cloud
      BY <2>1, <2>3, RowWithMarker
    <2>6. suggestions'[i].started # None
      BY <2>1, <2>5, NoTimeAssumption
    <2>7. suggestions'[i] # None
      BY <2>1, <2>3, RowWithMarker, NoSuggestionAssumption
    <2>. QED  BY <2>4, <2>5, <2>6, <2>7 DEF CallsOf, Used
  <1>7. CASE Used(suggestions, i) /\ suggestions'[i].started = suggestions[i].started
    <2>1. SameRequest(suggestions[i], suggestions'[i])
      BY <1>7, StepKeepsRows DEF RowsKept
    <2>2. Used(suggestions', i)
      BY <2>1, NoSuggestionAssumption DEF SameRequest, Used
    <2>3. grants'[i] = grants[i]
      <3>1. ASSUME NEW q \in Workers, Claim(q), worker[q].id = i,
                   ClaimAnswer(suggestions, i, PlanOf(i), worker[q].now) = "claimed"
            PROVE  FALSE
        <4>1. /\ worker[q].now \in Nat /\ suggestions[i] \in SuggestionRow
              /\ suggestions[i].started = None
              /\ suggestions' = [suggestions EXCEPT ![i] =
                                   [suggestions[i] EXCEPT !.started = worker[q].now]]
          BY <3>1, MarkerFacts
        <4>2. suggestions'[i].started = worker[q].now
          BY <4>1, RowWithMarker DEF Inv, TypeOK
        <4>. QED  BY <1>7, <4>1, <4>2, NoTimeAssumption
      <3>2. \A p \in Callers : ReserveNew(p) => i # lastId + 1
        BY <1>2, <1>7
      <3>. QED  BY <1>0, <1>1, <1>2, <1>3, <3>1, <3>2
    <2>4. suggestions'[i].cloud /\ suggestions'[i].started = None
             => suggestions'[i].status # "ready"
      <3>. SUFFICES ASSUME suggestions[i].cloud, suggestions[i].started = None,
                           suggestions'[i].status = "ready"
                    PROVE  FALSE
        BY <1>7, <2>1 DEF SameRequest
      <3>1. suggestions[i].status # "ready"
        BY <1>0, <1>7 DEF CallsOf
      <3>2. \A q \in Workers :
               FinishAnswer(suggestions, i, PlanOf(i), worker[q].started, worker[q].now)
                  # "saved"
        BY DEF FinishAnswer
      <3>3. PICK p \in Callers : /\ api[p].id = i
                                /\ api[p].pc = "saving"
                                /\ api[p].result = "ready"
        BY <1>7, <3>1, <3>2, NewlyReady
      <3>4. api[p].result = "failed"
        BY <3>3 DEF Inv, RefsInv, ApiRefs
      <3>. QED  BY <3>3, <3>4
    <2>. QED  BY <1>0, <1>7, <2>1, <2>2, <2>3, <2>4 DEF CallsOf, SameRequest, Used
  <1>. QED  BY <1>4, <1>5, <1>6, <1>7

(* However often a task is delivered, a request retried or a worker lost,  *)
(* a row is granted at most one provider call, and a row with titles had   *)
(* exactly one.                                                            *)
THEOREM SuggestionOneProviderCall == Spec => []OneProviderCall
  <1>1. Init => CallsInv
    BY DEF Init, CallsInv, CallsOf, Used
  <1>2. Inv /\ CallsInv /\ [Next]_vars => CallsInv'
    BY CallsKept
  <1>3. Inv /\ CallsInv => OneProviderCall
    <2>. SUFFICES ASSUME Inv, NEW i \in SuggestionIds, CallsOf(i)
                  PROVE  /\ grants[i] <= 1
                         /\ Used(suggestions, i) /\ suggestions[i].status = "ready"
                               => grants[i] = 1
      BY DEF CallsInv, OneProviderCall
    <2>1. Used(suggestions, i) => suggestions[i].cloud \in BOOLEAN
      BY DEF Inv, TypeOK, Used, SuggestionRow
    <2>2. grants[i] \in {0, 1}
      BY <2>1 DEF CallsOf
    <2>. QED  BY <2>1, <2>2 DEF CallsOf
  <1>. QED  BY <1>1, <1>2, <1>3, Invariance, PTL DEF Spec

-----------------------------------------------------------------------------
(* The outbox and the rows.  A step says nothing and settles no row, or    *)
(* settles one row and says so, or is the commit of a sweep.               *)
Told == {"ready", "failed"}

SilentOn(i) ==
    \/ suggestions'[i] = suggestions[i]
    \/ /\ Used(suggestions, i) => suggestions[i].status \notin Told
       /\ Used(suggestions', i) => suggestions'[i].status \notin Told

Silent == UNCHANGED outbox /\ \A i \in SuggestionIds : SilentOn(i)

StatusOf(o) == IF o = "ready" THEN "ready" ELSE "failed"

Tells ==
    \E i \in SuggestionIds, o \in Outcomes :
        /\ Pending(suggestions, i)
        /\ suggestions' = [suggestions EXCEPT ![i] =
                             [suggestions[i] EXCEPT !.status = StatusOf(o)]]
        /\ Record(suggestions[i].workflow, o)

Settled(w, st) == {i \in RowsOf(suggestions, w) : suggestions[i].status = st}

LEMMA SupersedeIsSilent ==
    ASSUME TypeOK, NEW i \in SuggestionIds, Pending(suggestions, i), SupersedeRow(i)
    PROVE  Silent
  <1>1. /\ suggestions[i] \in SuggestionRow /\ "superseded" \in Statuses
        /\ suggestions' = [suggestions EXCEPT ![i] =
                             [suggestions[i] EXCEPT !.status = "superseded"]]
        /\ UNCHANGED outbox
    BY DEF TypeOK, Pending, Used, SupersedeRow, SetStatus, Statuses, FinalStatuses
  <1>2. [suggestions[i] EXCEPT !.status = "superseded"].status = "superseded"
    BY <1>1, RowWithStatus
  <1>3. suggestions \in [SuggestionIds -> SuggestionRow \cup {None}]
    BY DEF TypeOK
  <1>4. ASSUME NEW j \in SuggestionIds PROVE SilentOn(j)
    BY <1>1, <1>2, <1>3 DEF SilentOn, Pending, Told
  <1>. QED  BY <1>1, <1>4 DEF Silent

LEMMA SettlesTells ==
    ASSUME TypeOK, NEW i \in SuggestionIds, Pending(suggestions, i), NEW o \in Outcomes,
           SetStatus(i, StatusOf(o)), Record(suggestions[i].workflow, o)
    PROVE  Tells
  <1>1. suggestions' = [suggestions EXCEPT ![i] =
                          [suggestions[i] EXCEPT !.status = StatusOf(o)]]
    BY DEF SetStatus, TypeOK
  <1>. QED  BY <1>1 DEF Tells

LEMMA ClaimTells ==
    ASSUME Inv, NEW q \in Workers, Claim(q)
    PROVE  Silent \/ Tells
  <1>. DEFINE i == worker[q].id
              answer == ClaimAnswer(suggestions, i, PlanOf(i), worker[q].now)
  <1>1. i \in SuggestionIds /\ TypeOK
    BY DEF Claim, Inv, RefsInv, WorkerRefs, CloudRow
  <1>2. CASE answer = "claimed"
    <2>1. /\ worker[q].now \in Nat
          /\ suggestions[i] \in SuggestionRow /\ suggestions[i].status = "pending"
          /\ suggestions' = [suggestions EXCEPT ![i] =
                               [suggestions[i] EXCEPT !.started = worker[q].now]]
          /\ UNCHANGED outbox
      BY <1>2, MarkerFacts
    <2>2. [suggestions[i] EXCEPT !.started = worker[q].now].status = "pending"
      BY <2>1, RowWithMarker
    <2>3. suggestions \in [SuggestionIds -> SuggestionRow \cup {None}]
      BY <1>1 DEF TypeOK
    <2>. HIDE DEF i
    <2>4. ASSUME NEW j \in SuggestionIds PROVE SilentOn(j)
      BY <1>1, <2>1, <2>2, <2>3 DEF SilentOn, Told
    <2>. QED  BY <2>1, <2>4 DEF Silent
  <1>3. CASE answer = "timeout"
    <2>1. Pending(suggestions, i)
      BY <1>3 DEF ClaimAnswer
    <2>2. SetStatus(i, "failed") /\ Record(suggestions[i].workflow, "expired")
      BY <1>3 DEF Claim, FailRow
    <2>3. "expired" \in Outcomes /\ StatusOf("expired") = "failed"
      BY DEF Outcomes, StatusOf
    <2>. HIDE DEF i
    <2>. QED  BY <1>1, <2>1, <2>2, <2>3, SettlesTells
  <1>4. CASE answer = "superseded"
    <2>1. Pending(suggestions, i)
      BY <1>4 DEF ClaimAnswer
    <2>2. SupersedeRow(i)
      BY <1>4 DEF Claim
    <2>. HIDE DEF i
    <2>. QED  BY <1>1, <2>1, <2>2, SupersedeIsSilent
  <1>5. CASE answer \in {"no_work", "in_progress"}
    BY <1>5 DEF Claim, Silent, SilentOn
  <1>. QED  BY <1>2, <1>3, <1>4, <1>5 DEF ClaimAnswer

LEMMA ResultTells ==
    ASSUME TypeOK, NEW i \in SuggestionIds, Pending(suggestions, i), NEW result \in Results,
           SetResult(i, result)
    PROVE  Tells
  <1>1. result \in Outcomes /\ StatusOf(result) = result
    BY DEF Results, Outcomes, StatusOf
  <1>2. SetStatus(i, result) /\ Record(suggestions[i].workflow, result)
    BY DEF SetResult
  <1>. QED  BY <1>1, <1>2, SettlesTells

LEMMA FinishesTell ==
    ASSUME Inv
    PROVE  /\ \A q \in Workers : FinishClaimed(q) => Silent \/ Tells
           /\ \A p \in Callers : FinishInline(p) => Silent \/ Tells
  <1>1. ASSUME NEW q \in Workers, FinishClaimed(q) PROVE Silent \/ Tells
    <2>. DEFINE i == worker[q].id
                answer == FinishAnswer(suggestions, i, PlanOf(i), worker[q].started,
                                       worker[q].now)
    <2>1. i \in SuggestionIds /\ worker[q].result \in Results /\ TypeOK
      BY <1>1, WorkerShapes DEF FinishClaimed, Inv, TypeOK, WorkerState, Finishing
    <2>2. CASE answer = "saved"
      <3>1. Pending(suggestions, i) /\ SetResult(i, worker[q].result)
        BY <1>1, <2>2 DEF FinishAnswer, FinishClaimed
      <3>. HIDE DEF i
      <3>. QED  BY <2>1, <3>1, ResultTells
    <2>3. CASE answer = "superseded"
      <3>1. Pending(suggestions, i) /\ SupersedeRow(i)
        BY <1>1, <2>3 DEF FinishAnswer, FinishClaimed
      <3>. HIDE DEF i
      <3>. QED  BY <2>1, <3>1, SupersedeIsSilent
    <2>4. CASE answer = "discarded"
      BY <1>1, <2>4 DEF FinishClaimed, Silent, SilentOn
    <2>. QED  BY <2>2, <2>3, <2>4 DEF FinishAnswer
  <1>2. ASSUME NEW p \in Callers, FinishInline(p) PROVE Silent \/ Tells
    <2>. DEFINE i == api[p].id
    <2>1. i \in SuggestionIds /\ api[p].result \in Results /\ TypeOK
      BY <1>2, ApiShapes DEF FinishInline, Inv, TypeOK, ApiState, Saving
    <2>2. CASE InlineAnswer(suggestions, i, PlanOf(i)) = "saved"
      <3>1. Pending(suggestions, i) /\ SetResult(i, api[p].result)
        BY <1>2, <2>2 DEF InlineAnswer, FinishInline
      <3>. HIDE DEF i
      <3>. QED  BY <2>1, <3>1, ResultTells
    <2>3. CASE InlineAnswer(suggestions, i, PlanOf(i)) # "saved"
      BY <1>2, <2>3 DEF FinishInline, Silent, SilentOn
    <2>. QED  BY <2>2, <2>3
  <1>. QED  BY <1>1, <1>2

LEMMA ReserveIsSilent ==
    ASSUME Inv, [Next]_vars, NEW p \in Callers, ReserveNew(p)
    PROVE  Silent
  <1>. DEFINE n == lastId + 1
  <1>1. /\ n \in SuggestionIds /\ ~Used(suggestions, n)
        /\ suggestions \in [SuggestionIds -> SuggestionRow \cup {None}]
    BY DEF ReserveNew, Room, Inv, IdsInv, TypeOK, SuggestionIds
  <1>2. PICK row : /\ row.status = "pending"
                   /\ suggestions' = [Superseded(api[p].workflow) EXCEPT ![n] = row]
    BY DEF ReserveNew, PendingRow
  <1>3. UNCHANGED outbox
    BY DEF ReserveNew
  <1>. HIDE DEF n
  <1>4. ASSUME NEW j \in SuggestionIds PROVE SilentOn(j)
    <2>1. CASE j = n
      <3>1. suggestions'[j] = row
        BY <1>1, <1>2, <2>1 DEF Superseded
      <3>. QED  BY <1>1, <1>2, <2>1, <3>1 DEF SilentOn, Told
    <2>2. CASE j # n
      <3>1. suggestions'[j] = Superseded(api[p].workflow)[j]
        BY <1>2, <2>2 DEF Superseded
      <3>2. CASE Pending(suggestions, j) /\ suggestions[j].workflow = api[p].workflow
        <4>1. suggestions'[j] = [suggestions[j] EXCEPT !.status = "superseded"]
          BY <3>1, <3>2 DEF Superseded
        <4>2. suggestions[j] \in SuggestionRow /\ "superseded" \in Statuses
          BY <1>1, <3>2 DEF Pending, Used, Statuses, FinalStatuses
        <4>3. suggestions'[j].status = "superseded"
          BY <4>1, <4>2, RowWithStatus
        <4>. QED  BY <3>2, <4>3 DEF SilentOn, Pending, Told
      <3>3. CASE ~(Pending(suggestions, j) /\ suggestions[j].workflow = api[p].workflow)
        <4>1. suggestions'[j] = suggestions[j]
          BY <3>1, <3>3 DEF Superseded
        <4>. QED  BY <4>1 DEF SilentOn
      <3>. QED  BY <3>2, <3>3
    <2>. QED  BY <2>1, <2>2
  <1>. QED  BY <1>3, <1>4 DEF Silent

LEMMA OutboxShape ==
    ASSUME Inv, [Next]_vars
    PROVE  Silent \/ Tells \/ (\E s \in Sweepers : EndSweep(s))
  <1>1. CASE UNCHANGED tables
    BY <1>1 DEF tables, Silent, SilentOn
  <1>2. CASE ~UNCHANGED tables
    <2>1. \/ \E w \in WorkflowIds : AdvancePlan(w)
          \/ \E p \in Callers : ReserveNew(p) \/ FinishInline(p)
          \/ \E q \in Workers : Claim(q) \/ FinishClaimed(q)
          \/ \E s \in Sweepers : EndSweep(s)
      BY ZenonT(40), <1>2 DEF Next, vars, tables, Tick, ApiStep, WorkerStep, SweepStep,
           BeginReserve, ReservePending, ReserveAnswered, LookUp, Enqueue, EnqueueFails,
           BeginGet, ReadPlan, ReadLatest, EndRequest, ProviderAnswers, Deliver,
           ProviderReturns, DeliveryDies, BeginSweep, SweepRow, SkipRow, SweepDies
    <2>2. \A w \in WorkflowIds : AdvancePlan(w) => Silent
      BY DEF AdvancePlan, Silent, SilentOn
    <2>. QED  BY <2>1, <2>2, ReserveIsSilent, FinishesTell, ClaimTells
  <1>. QED  BY <1>1, <1>2

LEMMA SettledFinite ==
    ASSUME NEW w, NEW st
    PROVE  /\ IsFiniteSet(Settled(w, st)) /\ Settled(w, st) \subseteq SuggestionIds
           /\ WithStatus(w, st) = Cardinality(Settled(w, st))
           /\ Cardinality(Settled(w, st)) \in Nat
  <1>1. IsFiniteSet(SuggestionIds)
    BY FS_Interval, MaxSuggestionsAssumption DEF SuggestionIds
  <1>2. Settled(w, st) \subseteq SuggestionIds
    BY DEF Settled, RowsOf
  <1>3. IsFiniteSet(Settled(w, st))
    BY <1>1, <1>2, FS_Subset
  <1>. QED  BY <1>2, <1>3, FS_CardinalityType DEF WithStatus, Settled

\* OutboxMatchesRows, and the same of the next state.
OutboxOf(w) ==
    /\ outbox[w]["ready"] = Cardinality(Settled(w, "ready"))
    /\ outbox[w]["failed"] + outbox[w]["expired"] = Cardinality(Settled(w, "failed"))

LEMMA SilentKeeps ==
    ASSUME Silent, NEW w \in WorkflowIds, OutboxOf(w)
    PROVE  OutboxOf(w)'
  <1>1. ASSUME NEW st \in Told PROVE Settled(w, st)' = Settled(w, st)
    <2>1. ASSUME NEW i \in SuggestionIds
          PROVE  i \in Settled(w, st)' <=> i \in Settled(w, st)
      <3>1. SilentOn(i)
        BY DEF Silent
      <3>. QED  BY <3>1 DEF SilentOn, Settled, RowsOf, Used
    <2>2. Settled(w, st) \subseteq SuggestionIds /\ Settled(w, st)' \subseteq SuggestionIds
      BY DEF Settled, RowsOf
    <2>. QED  BY <2>1, <2>2
  <1>2. Settled(w, "ready")' = Settled(w, "ready") /\ Settled(w, "failed")' = Settled(w, "failed")
    BY <1>1 DEF Told
  <1>3. outbox' = outbox
    BY DEF Silent
  <1>. QED  BY <1>2, <1>3 DEF OutboxOf

LEMMA TellsKeeps ==
    ASSUME TypeOK, Tells, NEW w \in WorkflowIds, OutboxOf(w)
    PROVE  OutboxOf(w)'
  <1>1. PICK i \in SuggestionIds, o \in Outcomes :
           /\ Pending(suggestions, i)
           /\ suggestions' = [suggestions EXCEPT ![i] =
                                [suggestions[i] EXCEPT !.status = StatusOf(o)]]
           /\ Record(suggestions[i].workflow, o)
    BY DEF Tells
  <1>. DEFINE v  == suggestions[i].workflow
              s0 == StatusOf(o)
              new == [suggestions[i] EXCEPT !.status = s0]
  <1>2. /\ suggestions[i] \in SuggestionRow /\ s0 \in Statuses /\ v \in WorkflowIds
        /\ suggestions \in [SuggestionIds -> SuggestionRow \cup {None}]
        /\ suggestions[i].status = "pending"
    BY <1>1 DEF TypeOK, Pending, Used, StatusOf, Statuses, FinalStatuses, SuggestionRow
  <1>3. new \in SuggestionRow /\ new.status = s0 /\ new.workflow = v
    BY <1>2, RowWithStatus
  <1>4. new # None
    BY <1>3, NoSuggestionAssumption
  <1>. HIDE DEF new
  <1>5. suggestions'[i] = new /\ \A j \in SuggestionIds \ {i} : suggestions'[j] = suggestions[j]
    BY <1>1, <1>2 DEF new
  <1>6. ASSUME NEW st \in Told
        PROVE  /\ i \notin Settled(w, st)
               /\ Settled(w, st)' = IF v = w /\ st = s0 THEN Settled(w, st) \cup {i}
                                    ELSE Settled(w, st)
    <2>1. i \notin Settled(w, st)
      BY <1>2 DEF Settled, Told
    <2>2. ASSUME NEW j \in SuggestionIds, j # i
          PROVE  j \in Settled(w, st)' <=> j \in Settled(w, st)
      BY <1>5, <2>2 DEF Settled, RowsOf, Used
    <2>3. i \in Settled(w, st)' <=> v = w /\ st = s0
      BY <1>3, <1>4, <1>5 DEF Settled, RowsOf, Used
    <2>4. Settled(w, st) \subseteq SuggestionIds /\ Settled(w, st)' \subseteq SuggestionIds
      BY DEF Settled, RowsOf
    <2>. QED  BY <2>1, <2>2, <2>3, <2>4
  <1>7. outbox \in [WorkflowIds -> [Outcomes -> Nat]]
    BY DEF TypeOK
  <1>8. outbox' = [outbox EXCEPT ![v] = [outbox[v] EXCEPT ![o] = outbox[v][o] + 1]]
    BY <1>1, <1>7 DEF Record
  <1>. HIDE DEF v, s0
  <1>9. CASE v # w
    <2>1. outbox'[w] = outbox[w]
      BY <1>2, <1>7, <1>8, <1>9
    <2>2. /\ Settled(w, "ready")' = Settled(w, "ready")
          /\ Settled(w, "failed")' = Settled(w, "failed")
      BY <1>6, <1>9 DEF Told
    <2>. QED  BY <2>1, <2>2 DEF OutboxOf
  <1>10. CASE v = w
    <2>. DEFINE R == Settled(w, "ready")
                F == Settled(w, "failed")
    <2>1. /\ outbox[w] \in [Outcomes -> Nat]
          /\ outbox'[w] = [outbox[w] EXCEPT ![o] = outbox[w][o] + 1]
      BY <1>7, <1>8, <1>10
    <2>2. /\ IsFiniteSet(R) /\ IsFiniteSet(F) /\ i \notin R /\ i \notin F
          /\ Cardinality(R) \in Nat /\ Cardinality(F) \in Nat
      BY <1>6, SettledFinite DEF Told
    <2>3. Cardinality(R \cup {i}) = Cardinality(R) + 1 /\ Cardinality(F \cup {i}) = Cardinality(F) + 1
      BY <2>2, FS_AddElement
    <2>4. outbox[w]["ready"] \in Nat /\ outbox[w]["failed"] \in Nat /\ outbox[w]["expired"] \in Nat
      BY <2>1 DEF Outcomes
    <2>5. CASE o = "ready"
      <3>1. s0 = "ready"
        BY <2>5 DEF s0, StatusOf
      <3>2. Settled(w, "ready")' = R \cup {i} /\ Settled(w, "failed")' = F
        BY <1>6, <1>10, <3>1 DEF Told
      <3>3. /\ outbox'[w]["ready"] = outbox[w]["ready"] + 1
            /\ outbox'[w]["failed"] = outbox[w]["failed"]
            /\ outbox'[w]["expired"] = outbox[w]["expired"]
        BY <2>1, <2>5 DEF Outcomes
      <3>4. outbox[w]["ready"] = Cardinality(R)
        BY DEF OutboxOf
      <3>5. outbox'[w]["ready"] = Cardinality(R \cup {i})
        BY <2>3, <3>3, <3>4
      <3>6. outbox'[w]["failed"] + outbox'[w]["expired"] = Cardinality(F)
        BY <3>3 DEF OutboxOf
      <3>. QED  BY <3>2, <3>5, <3>6 DEF OutboxOf
    <2>6. CASE o # "ready"
      <3>1. s0 = "failed"
        BY <2>6 DEF s0, StatusOf
      <3>2. Settled(w, "ready")' = R /\ Settled(w, "failed")' = F \cup {i}
        BY <1>6, <1>10, <3>1 DEF Told
      <3>3. o \in {"failed", "expired"}
        BY <2>6 DEF Outcomes
      <3>4. /\ outbox'[w]["ready"] = outbox[w]["ready"]
            /\ outbox'[w]["failed"] + outbox'[w]["expired"]
                 = outbox[w]["failed"] + outbox[w]["expired"] + 1
        <4>1. CASE o = "failed"
          <5>1. /\ outbox'[w]["failed"] = outbox[w]["failed"] + 1
                /\ outbox'[w]["expired"] = outbox[w]["expired"]
                /\ outbox'[w]["ready"] = outbox[w]["ready"]
            BY <2>1, <4>1 DEF Outcomes
          <5>. QED  BY <2>4, <5>1
        <4>2. CASE o = "expired"
          <5>1. /\ outbox'[w]["expired"] = outbox[w]["expired"] + 1
                /\ outbox'[w]["failed"] = outbox[w]["failed"]
                /\ outbox'[w]["ready"] = outbox[w]["ready"]
            BY <2>1, <4>2 DEF Outcomes
          <5>. QED  BY <2>4, <5>1
        <4>. QED  BY <3>3, <4>1, <4>2
      <3>5. outbox[w]["failed"] + outbox[w]["expired"] = Cardinality(F)
        BY DEF OutboxOf
      <3>6. outbox'[w]["failed"] + outbox'[w]["expired"] = Cardinality(F \cup {i})
        BY <2>3, <3>4, <3>5
      <3>7. outbox'[w]["ready"] = Cardinality(R)
        BY <3>4 DEF OutboxOf
      <3>. QED  BY <3>2, <3>6, <3>7 DEF OutboxOf
    <2>. QED  BY <2>5, <2>6
  <1>. QED  BY <1>9, <1>10

LEMMA SweepCommitKeeps ==
    ASSUME Inv, NEW s \in Sweepers, EndSweep(s), NEW w \in WorkflowIds, OutboxOf(w)
    PROVE  OutboxOf(w)'
  <1>. DEFINE D == sweep[s].doomed
              N == D \cap RowsOf(suggestions, w)
              F == Settled(w, "failed")
  <1>1. /\ suggestions \in [SuggestionIds -> SuggestionRow \cup {None}]
        /\ outbox \in [WorkflowIds -> [Outcomes -> Nat]]
    BY DEF Inv, TypeOK
  <1>2. /\ D \subseteq SuggestionIds
        /\ \A i \in D : Pending(suggestions, i)
    BY SweepShapes DEF EndSweep, Inv, TypeOK, SweepState, Sweeping, LocksInv
  <1>3. /\ suggestions' = [i \in SuggestionIds |->
                             IF i \in D THEN [suggestions[i] EXCEPT !.status = "failed"]
                             ELSE suggestions[i]]
        /\ outbox' = [v \in WorkflowIds |->
                        [outbox[v] EXCEPT !["expired"] =
                           @ + Cardinality(D \cap RowsOf(suggestions, v))]]
    BY DEF EndSweep
  <1>. HIDE DEF D
  <1>4. ASSUME NEW i \in SuggestionIds
        PROVE  /\ i \in Settled(w, "ready")' <=> i \in Settled(w, "ready")
               /\ i \in Settled(w, "failed")' <=> i \in F \cup N
               /\ ~(i \in F /\ i \in N)
    <2>1. CASE i \in D
      <3>1. /\ Pending(suggestions, i) /\ suggestions[i] \in SuggestionRow
            /\ suggestions'[i] = [suggestions[i] EXCEPT !.status = "failed"]
            /\ "failed" \in Statuses
        BY <1>1, <1>2, <1>3, <2>1 DEF Pending, Used, Statuses, FinalStatuses
      <3>2. /\ suggestions'[i] \in SuggestionRow /\ suggestions'[i].status = "failed"
            /\ suggestions'[i].workflow = suggestions[i].workflow
        BY <3>1, RowWithStatus
      <3>3. suggestions'[i] # None /\ suggestions[i] # None /\ suggestions[i].status = "pending"
        BY <3>1, <3>2, NoSuggestionAssumption DEF Pending, Used
      <3>. QED  BY <2>1, <3>2, <3>3 DEF Settled, RowsOf, Used
    <2>2. CASE i \notin D
      <3>1. suggestions'[i] = suggestions[i]
        BY <1>3, <2>2
      <3>. QED  BY <2>2, <3>1 DEF Settled, RowsOf, Used
    <2>. QED  BY <2>1, <2>2
  <1>5. /\ Settled(w, "ready")' = Settled(w, "ready")
        /\ Settled(w, "failed")' = F \cup N /\ F \cap N = {}
    <2>1. /\ Settled(w, "ready") \subseteq SuggestionIds /\ F \subseteq SuggestionIds
          /\ Settled(w, "ready")' \subseteq SuggestionIds
          /\ Settled(w, "failed")' \subseteq SuggestionIds
          /\ N \subseteq SuggestionIds
      BY DEF Settled, RowsOf
    <2>. HIDE DEF N, F
    <2>. QED  BY <1>4, <2>1
  <1>6. /\ IsFiniteSet(F) /\ IsFiniteSet(N) /\ Cardinality(N) \in Nat /\ Cardinality(F) \in Nat
    <2>1. IsFiniteSet(SuggestionIds) /\ N \subseteq SuggestionIds
      BY FS_Interval, MaxSuggestionsAssumption DEF SuggestionIds, RowsOf
    <2>2. IsFiniteSet(N)
      BY <2>1, FS_Subset
    <2>3. IsFiniteSet(F) /\ Cardinality(F) \in Nat
      BY SettledFinite
    <2>. QED  BY <2>2, <2>3, FS_CardinalityType
  <1>7. Cardinality(F \cup N) = Cardinality(F) + Cardinality(N)
    <2>1. Cardinality(F \cup N) = Cardinality(F) + Cardinality(N) - Cardinality(F \cap N)
      BY <1>6, FS_Union
    <2>2. Cardinality(F \cap N) = 0
      BY <1>5, FS_EmptySet
    <2>. QED  BY <1>6, <2>1, <2>2
  <1>8. /\ outbox[w] \in [Outcomes -> Nat]
        /\ outbox'[w] = [outbox[w] EXCEPT !["expired"] = outbox[w]["expired"] + Cardinality(N)]
    BY <1>1, <1>3 DEF Outcomes
  <1>. HIDE DEF N, F
  <1>9. /\ outbox[w]["failed"] \in Nat /\ outbox[w]["expired"] \in Nat
        /\ outbox'[w]["ready"] = outbox[w]["ready"]
        /\ outbox'[w]["failed"] = outbox[w]["failed"]
        /\ outbox'[w]["expired"] = outbox[w]["expired"] + Cardinality(N)
    BY <1>8 DEF Outcomes
  <1>10. outbox[w]["failed"] + outbox[w]["expired"] = Cardinality(F)
    BY DEF OutboxOf, F
  <1>11. outbox'[w]["failed"] + outbox'[w]["expired"] = Cardinality(F \cup N)
    BY <1>6, <1>7, <1>9, <1>10
  <1>12. outbox'[w]["ready"] = Cardinality(Settled(w, "ready"))
    BY <1>9 DEF OutboxOf
  <1>. QED  BY <1>5, <1>11, <1>12 DEF OutboxOf

(* Every settled request is told of exactly once, and no superseded one:   *)
(* by whoever settled it, or with the sweep that did.                      *)
THEOREM SuggestionOutboxTrue == Spec => []OutboxMatchesRows
  <1>. DEFINE Match == \A w \in WorkflowIds : OutboxOf(w)
  <1>1. Match <=> OutboxMatchesRows
    BY SettledFinite DEF OutboxOf, OutboxMatchesRows
  <1>2. Init => Match
    <2>. SUFFICES ASSUME Init, NEW w \in WorkflowIds PROVE OutboxOf(w)
      OBVIOUS
    <2>1. \A st : Settled(w, st) = {}
      BY DEF Init, Settled, RowsOf, Used
    <2>2. Cardinality(Settled(w, "ready")) = 0 /\ Cardinality(Settled(w, "failed")) = 0
      BY <2>1, FS_EmptySet
    <2>3. /\ outbox[w]["ready"] = 0 /\ outbox[w]["failed"] = 0 /\ outbox[w]["expired"] = 0
      BY DEF Init, Outcomes
    <2>. QED  BY <2>2, <2>3 DEF OutboxOf
  <1>3. Inv /\ Match /\ [Next]_vars => Match'
    <2>. SUFFICES ASSUME Inv, Match, [Next]_vars, NEW w \in WorkflowIds PROVE OutboxOf(w)'
      OBVIOUS
    <2>1. OutboxOf(w) /\ TypeOK
      BY DEF Inv
    <2>. QED  BY <2>1, OutboxShape, SilentKeeps, TellsKeeps, SweepCommitKeeps
  <1>4. Spec => []Match
    <2>. HIDE DEF Match
    <2>. QED  BY <1>2, <1>3, Invariance, PTL DEF Spec
  <1>. HIDE DEF Match
  <1>. QED  BY <1>1, <1>4, PTL
=============================================================================

-------------------------- MODULE SuggestionService --------------------------
(***************************************************************************)
(* The life of a suggestion request: reserved by an API process, delivered *)
(* by Cloud Tasks to a worker that claims it, calls the provider and saves *)
(* the result, or expired by the scheduled sweep; in inline mode the API   *)
(* process calls the provider itself.                                      *)
(*                                                                         *)
(* Every transaction that writes takes its workflow's row lock first, so   *)
(* it is one step here; its clock, func.now(), is read when it begins and  *)
(* may be old by then, so beginning is a step of its own.  The sweep locks *)
(* several workflows one by one (SKIP LOCKED) and commits them together.   *)
(* Cloud Tasks may deliver a task any number of times, at any time.  A     *)
(* process may die anywhere; so may its reply.                             *)
(***************************************************************************)
EXTENDS SuggestionTables, FiniteSets

CONSTANTS
    Callers,          \* API requests in flight
    Workers,          \* deliveries in flight
    Sweepers,         \* sweeps in flight
    CloudModes,       \* values of `queued' the deployed API processes use
    SuggestPayloads,  \* the payloads clients send
    InitialPlans,     \* the plans there are
    BatchLimit,       \* SUGGESTION_EXPIRE_BATCH_LIMIT
    LastReservation,  \* bound: no reservation that began later adds a row
    MaxClock          \* bound: the clock stops here

ASSUME SuggestionServiceAssumption ==
    /\ CloudModes \subseteq BOOLEAN
    /\ SuggestPayloads \subseteq SuggestPayload
    /\ InitialPlans \subseteq Row
    /\ BatchLimit \in Nat \ {0}
    /\ MaxClock \in Nat /\ LastReservation \in Nat

VARIABLES
    plans,            \* todo_workflows rows
    suggestions,      \* todo_workflow_suggestion_requests rows
    lastId,           \* the identity sequence of that table
    outbox,           \* suggestion_finished events, by workflow and outcome
    tasks,            \* rows whose delivery task was created
    clock,            \* the database clock
    api, worker, sweep,
    grants            \* history: provider calls each row was granted

tables == <<plans, suggestions, lastId, outbox>>
vars == <<plans, suggestions, lastId, outbox, tasks, clock, api, worker, sweep, grants>>

Idle == [pc |-> "idle"]

Reserving == [pc : {"reserving"}, workflow : WorkflowIds, request : RequestIds,
              payload : SuggestPayload, cloud : BOOLEAN, now : Nat]
(* `seen' is the status of row `id' as this request's session loaded it.   *)
LookingUp == [pc : {"looking"}, id : SuggestionIds]
Loaded    == [pc : {"enqueueing", "reading"}, workflow : WorkflowIds,
              id : SuggestionIds \cup {None}, seen : Statuses]
Reading   == [pc : {"found"}, workflow : WorkflowIds,
              id : SuggestionIds \cup {None}, seen : Statuses, plan : Row]
Answering == [pc : {"answering"}, id : SuggestionIds, status : Statuses,
              revision : Nat]
Calling   == [pc : {"calling"}, id : SuggestionIds]
Saving    == [pc : {"saving"}, id : SuggestionIds, result : Results]

Claiming  == [pc : {"claiming"}, id : SuggestionIds, now : Nat]
Claimed   == [pc : {"claimed"}, id : SuggestionIds, started : Nat]
Finishing == [pc : {"finishing"}, id : SuggestionIds, started : Nat,
              result : Results, now : Nat]

Sweeping  == [pc : {"sweeping"}, now : Nat, left : SUBSET SuggestionIds,
              held : SUBSET WorkflowIds, doomed : SUBSET SuggestionIds]

TypeOK ==
    /\ plans \in [WorkflowIds -> Row]
    /\ suggestions \in [SuggestionIds -> SuggestionRow \cup {None}]
    /\ lastId \in Nat
    /\ outbox \in [WorkflowIds -> [Outcomes -> Nat]]
    /\ tasks \in SUBSET SuggestionIds
    /\ clock \in Nat
    /\ api \in [Callers -> {Idle} \cup Reserving \cup LookingUp \cup Loaded
                             \cup Reading \cup Answering \cup Calling \cup Saving]
    /\ worker \in [Workers -> {Idle} \cup Claiming \cup Claimed \cup Finishing]
    /\ sweep \in [Sweepers -> {Idle} \cup Sweeping]
    /\ grants \in [SuggestionIds -> Nat]

Init ==
    /\ plans \in [WorkflowIds -> InitialPlans]
    /\ suggestions = [i \in SuggestionIds |-> None]
    /\ lastId = 0
    /\ outbox = [w \in WorkflowIds |-> [o \in Outcomes |-> 0]]
    /\ tasks = {}
    /\ clock = 0
    /\ api = [p \in Callers |-> Idle]
    /\ worker = [p \in Workers |-> Idle]
    /\ sweep = [s \in Sweepers |-> Idle]
    /\ grants = [i \in SuggestionIds |-> 0]

-----------------------------------------------------------------------------
(* Row locks, and the writes every transaction shares.                     *)
Held(w) == \E s \in Sweepers : sweep[s].pc = "sweeping" /\ w \in sweep[s].held

PlanOf(i) == plans[suggestions[i].workflow]

SetStatus(i, status) == suggestions' = [suggestions EXCEPT ![i].status = status]

Record(w, outcome) == outbox' = [outbox EXCEPT ![w][outcome] = @ + 1]

(* _set_result, _fail_row and _supersede_row                               *)
SetResult(i, result) ==
    SetStatus(i, result) /\ Record(suggestions[i].workflow, result)

FailRow_Silent(i) == SetStatus(i, "failed") /\ UNCHANGED outbox

FailRow(i) ==
    SetStatus(i, "failed") /\ Record(suggestions[i].workflow, "expired")

SupersedeRow_UnknownStatus(i) == SetStatus(i, "stale") /\ UNCHANGED outbox

SupersedeRow(i) == SetStatus(i, "superseded") /\ UNCHANGED outbox

(* The user moves the plan on (an advance_workflow commit).                *)
AdvancePlan(w) ==
    /\ ~Held(w)
    /\ plans[w].version = CurrentVersion
    /\ plans[w].revision < MaxRevision
    /\ \E c \in Command :
          /\ Accepts(plans[w].state, c)
          /\ plans' = [plans EXCEPT ![w] = Advanced(plans[w], c, 0)]
    /\ UNCHANGED <<suggestions, lastId, outbox, tasks, clock, api, worker, sweep, grants>>

Tick ==
    /\ clock < MaxClock
    /\ clock' = clock + 1
    /\ UNCHANGED <<tables, tasks, api, worker, sweep, grants>>

-----------------------------------------------------------------------------
(* POST .../suggestions: reserve_suggestion().                             *)
BeginReserve(p, w, r, m, cloud) ==
    /\ api[p] = Idle
    /\ api' = [api EXCEPT ![p] =
                 [pc |-> "reserving", workflow |-> w, request |-> r,
                  payload |-> m, cloud |-> cloud, now |-> clock]]
    /\ UNCHANGED <<tables, tasks, clock, worker, sweep, grants>>

Matches(t, i) == Used(suggestions, i) /\ suggestions[i].workflow = t.workflow
                                      /\ suggestions[i].request = t.request

Known_SameDetails(t) ==
    \E i \in SuggestionIds : Matches(t, i) /\ suggestions[i].payload = t.payload

Known(t) == \E i \in SuggestionIds : Matches(t, i)

Superseded_None(w) == suggestions

(* A new row takes the place of every row still pending.                   *)
Superseded(w) ==
    [i \in SuggestionIds |->
        IF Pending(suggestions, i) /\ suggestions[i].workflow = w
        THEN [suggestions[i] EXCEPT !.status = "superseded"]
        ELSE suggestions[i]]

(* Bounds: rows, and the reservation's clock; where a row must settle, the *)
(* bounds let the clock pass its deadline.                                 *)
Room(t) == lastId + 1 \in SuggestionIds /\ t.now <= LastReservation

ReserveNew(p) ==
    LET t == api[p]
        i == lastId + 1
    IN  /\ t.pc = "reserving"
        /\ ~Held(t.workflow)
        /\ ~Known(t)
        /\ NewAnswer(plans[t.workflow], t.payload) = "reserve"
        /\ Room(t)
        /\ suggestions' = [Superseded(t.workflow) EXCEPT ![i] =
                             PendingRow(t.workflow, t.request, t.payload, t.cloud, t.now)]
        /\ lastId' = i
        /\ IF t.cloud
           THEN /\ api' = [api EXCEPT ![p] = [pc |-> "looking", id |-> i]]
                /\ UNCHANGED grants
           ELSE /\ api' = [api EXCEPT ![p] = [pc |-> "calling", id |-> i]]
                /\ grants' = [grants EXCEPT ![i] = @ + 1]
        /\ UNCHANGED <<plans, outbox, tasks, clock, worker, sweep>>

(* A pending cloud row comes back to a retry.  An API process in cloud     *)
(* mode goes on to its task.  One in inline mode falls through to the      *)
(* provider branch, where the snapshot it holds lacks what a reservation   *)
(* has; that error is saved as a provider failure without a call.          *)
ReservePending(p) ==
    LET t == api[p]
    IN  /\ t.pc = "reserving"
        /\ ~Held(t.workflow)
        /\ \E i \in SuggestionIds :
              /\ Matches(t, i)
              /\ ReplayAnswer(suggestions, i, t.payload) = "pending"
              /\ api' = [api EXCEPT ![p] =
                           IF t.cloud THEN [pc |-> "looking", id |-> i]
                           ELSE [pc |-> "saving", id |-> i, result |-> "failed"]]
        /\ UNCHANGED <<tables, tasks, clock, worker, sweep, grants>>

(* Every other answer ends the request and writes nothing.                 *)
ReserveAnswered(p) ==
    LET t == api[p]
    IN  /\ t.pc = "reserving"
        /\ ~Held(t.workflow)
        /\ IF Known(t)
           THEN \E i \in SuggestionIds :
                   /\ Matches(t, i)
                   /\ ReplayAnswer(suggestions, i, t.payload) # "pending"
           ELSE NewAnswer(plans[t.workflow], t.payload) # "reserve"
        /\ api' = [api EXCEPT ![p] = Idle]
        /\ UNCHANGED <<tables, tasks, clock, worker, sweep, grants>>

(* Cloud mode: lookup_suggestion_row() and the decision to enqueue.        *)
LookUp(p) ==
    LET i == api[p].id
        row == suggestions[i]
    IN  /\ api[p].pc = "looking"
        /\ api' = [api EXCEPT ![p] =
                     [pc |-> IF row.status = "pending" /\ row.started = None
                             THEN "enqueueing" ELSE "reading",
                      workflow |-> row.workflow, id |-> i, seen |-> row.status]]
        /\ UNCHANGED <<tables, tasks, clock, worker, sweep, grants>>

(* create_task with a name derived from the row: created, or already there *)
Enqueue(p) ==
    /\ api[p].pc = "enqueueing"
    /\ tasks' = tasks \cup {api[p].id}
    /\ api' = [api EXCEPT ![p].pc = "reading"]
    /\ UNCHANGED <<tables, clock, worker, sweep, grants>>

(* ... or EnqueueUnavailable (503), when the task may exist all the same.  *)
EnqueueFails(p) ==
    /\ api[p].pc = "enqueueing"
    /\ tasks' \in {tasks, tasks \cup {api[p].id}}
    /\ api' = [api EXCEPT ![p] = Idle]
    /\ UNCHANGED <<tables, clock, worker, sweep, grants>>

-----------------------------------------------------------------------------
(* get_current_suggestion(), from GET or to reconcile a POST: two reads,   *)
(* no lock.                                                                *)
BeginGet(p, w) ==
    /\ api[p] = Idle
    /\ api' = [api EXCEPT ![p] = [pc |-> "reading", workflow |-> w,
                                  id |-> None, seen |-> "pending"]]
    /\ UNCHANGED <<tables, tasks, clock, worker, sweep, grants>>

ReadPlan(p) ==
    LET t == api[p]
        plan == plans[t.workflow]
    IN  /\ t.pc = "reading"
        /\ api' = [api EXCEPT ![p] =
                     IF plan.version = CurrentVersion /\ plan.state = "COLLECT_TASKS"
                     THEN [pc |-> "found", workflow |-> t.workflow, id |-> t.id,
                           seen |-> t.seen, plan |-> plan]
                     ELSE Idle]
        /\ UNCHANGED <<tables, tasks, clock, worker, sweep, grants>>

(* The session gives one object per row and does not expire it on commit:  *)
(* a row this request already loaded keeps the status it had then.         *)
StatusRead(t, i) == IF i = t.id THEN t.seen ELSE suggestions[i].status

ReadLatest(p) ==
    LET t == api[p]
    IN  /\ t.pc = "found"
        /\ IF RowsOf(suggestions, t.workflow) = {}
           THEN api' = [api EXCEPT ![p] = Idle]
           ELSE \E i \in RowsOf(suggestions, t.workflow) :
                   /\ IsLatest(suggestions, i)
                   /\ api' = [api EXCEPT ![p] =
                        IF AtBase(t.plan, suggestions[i])
                        THEN [pc |-> "answering", id |-> i,
                              status |-> StatusRead(t, i),
                              revision |-> t.plan.revision]
                        ELSE Idle]
        /\ UNCHANGED <<tables, tasks, clock, worker, sweep, grants>>

(* The answer leaves, or the process dies: either way the request is over. *)
EndRequest(p) ==
    /\ api[p] # Idle
    /\ api' = [api EXCEPT ![p] = Idle]
    /\ UNCHANGED <<tables, tasks, clock, worker, sweep, grants>>

-----------------------------------------------------------------------------
(* Inline mode: the provider answers, and finish_suggestion() saves it.    *)
ProviderAnswers(p, result) ==
    /\ api[p].pc = "calling"
    /\ api' = [api EXCEPT ![p] =
                 [pc |-> "saving", id |-> api[p].id, result |-> result]]
    /\ UNCHANGED <<tables, tasks, clock, worker, sweep, grants>>

FinishInline(p) ==
    LET i == api[p].id
    IN  /\ api[p].pc = "saving"
        /\ ~Held(suggestions[i].workflow)
        /\ IF InlineAnswer(suggestions, i, PlanOf(i)) = "saved"
           THEN SetResult(i, api[p].result)
           ELSE UNCHANGED <<suggestions, outbox>>
        /\ api' = [api EXCEPT ![p] = Idle]
        /\ UNCHANGED <<plans, lastId, tasks, clock, worker, sweep, grants>>

-----------------------------------------------------------------------------
(* The worker: POST /internal/suggestions, _deliver_once().                *)
(* The connection's transaction was left open since some earlier time.     *)
Deliver_OpenTransaction(q, i) ==
    /\ worker[q] = Idle
    /\ i \in tasks
    /\ \E began \in 0..clock :
          worker' = [worker EXCEPT ![q] = [pc |-> "claiming", id |-> i, now |-> began]]
    /\ UNCHANGED <<tables, tasks, clock, api, sweep, grants>>

Deliver(q, i) ==
    /\ worker[q] = Idle
    /\ i \in tasks
    /\ worker' = [worker EXCEPT ![q] = [pc |-> "claiming", id |-> i, now |-> clock]]
    /\ UNCHANGED <<tables, tasks, clock, api, sweep, grants>>

Claim(q) ==
    LET t == worker[q]
        i == t.id
        answer == ClaimAnswer(suggestions, i, PlanOf(i), t.now)
    IN  /\ t.pc = "claiming"
        /\ ~Held(suggestions[i].workflow)
        /\ \/ /\ answer = "claimed"
              /\ suggestions' = [suggestions EXCEPT ![i].started = t.now]
              /\ grants' = [grants EXCEPT ![i] = @ + 1]
              /\ worker' = [worker EXCEPT ![q] =
                              [pc |-> "claimed", id |-> i, started |-> t.now]]
              /\ UNCHANGED outbox
           \/ /\ answer # "claimed"
              /\ \/ answer = "timeout" /\ FailRow(i)
                 \/ answer = "superseded" /\ SupersedeRow(i)
                 \/ /\ answer \in {"no_work", "in_progress"}
                    /\ UNCHANGED <<suggestions, outbox>>
              /\ worker' = [worker EXCEPT ![q] = Idle]
              /\ UNCHANGED grants
        /\ UNCHANGED <<plans, lastId, tasks, clock, api, sweep>>

(* execute_provider() returns, and the finishing transaction begins.       *)
ProviderReturns(q, result) ==
    LET t == worker[q]
    IN  /\ t.pc = "claimed"
        /\ worker' = [worker EXCEPT ![q] =
                        [pc |-> "finishing", id |-> t.id, started |-> t.started,
                         result |-> result, now |-> clock]]
        /\ UNCHANGED <<tables, tasks, clock, api, sweep, grants>>

FinishClaimed(q) ==
    LET t == worker[q]
        i == t.id
        answer == FinishAnswer(suggestions, i, PlanOf(i), t.started, t.now)
    IN  /\ t.pc = "finishing"
        /\ ~Held(suggestions[i].workflow)
        /\ \/ answer = "saved" /\ SetResult(i, t.result)
           \/ answer = "superseded" /\ SupersedeRow(i)
           \/ answer = "discarded" /\ UNCHANGED <<suggestions, outbox>>
        /\ worker' = [worker EXCEPT ![q] = Idle]
        /\ UNCHANGED <<plans, lastId, tasks, clock, api, sweep, grants>>

(* The worker dies, or its database does (503): Cloud Tasks will retry.    *)
DeliveryDies(q) ==
    /\ worker[q] # Idle
    /\ worker' = [worker EXCEPT ![q] = Idle]
    /\ UNCHANGED <<tables, tasks, clock, api, sweep, grants>>

-----------------------------------------------------------------------------
(* POST /internal/suggestions/expire: expire_suggestions_with_context().   *)
Batch(now) ==
    LET due == {i \in SuggestionIds : SweepCandidate(suggestions, i, now)}
    IN  {i \in due : Cardinality({j \in due : j < i}) < BatchLimit}

BeginSweep(s) ==
    /\ sweep[s] = Idle
    /\ Batch(clock) # {}
    /\ sweep' = [sweep EXCEPT ![s] =
                   [pc |-> "sweeping", now |-> clock, left |-> Batch(clock),
                    held |-> {}, doomed |-> {}]]
    /\ UNCHANGED <<tables, tasks, clock, api, worker, grants>>

NextUp(s, i) == sweep[s].pc = "sweeping" /\ i \in sweep[s].left
                  /\ \A j \in sweep[s].left : i <= j

Sweepable_OnceIsEnough(s, i) == TRUE

Sweepable(s, i) == SweepCandidate(suggestions, i, sweep[s].now)

(* The workflow's lock is free (or already this sweep's): take it, and     *)
(* look at the row again.                                                  *)
SweepRow(s, i) ==
    LET w == suggestions[i].workflow
    IN  /\ NextUp(s, i)
        /\ w \in sweep[s].held \/ ~Held(w)
        /\ sweep' = [sweep EXCEPT
                       ![s].left   = @ \ {i},
                       ![s].held   = @ \cup {w},
                       ![s].doomed = IF Sweepable(s, i) THEN @ \cup {i} ELSE @]
        /\ UNCHANGED <<tables, tasks, clock, api, worker, grants>>

(* Another transaction holds it: leave the row to a later sweep.           *)
SkipRow(s, i) ==
    /\ NextUp(s, i)
    /\ sweep' = [sweep EXCEPT ![s].left = @ \ {i}]
    /\ UNCHANGED <<tables, tasks, clock, api, worker, grants>>

EndSweep(s) ==
    LET t == sweep[s]
    IN  /\ t.pc = "sweeping"
        /\ t.left = {}
        /\ suggestions' = [i \in SuggestionIds |->
                             IF i \in t.doomed
                             THEN [suggestions[i] EXCEPT !.status = "failed"]
                             ELSE suggestions[i]]
        /\ outbox' = [w \in WorkflowIds |->
                        [outbox[w] EXCEPT !["expired"] =
                           @ + Cardinality(t.doomed \cap RowsOf(suggestions, w))]]
        /\ sweep' = [sweep EXCEPT ![s] = Idle]
        /\ UNCHANGED <<plans, lastId, tasks, clock, api, worker, grants>>

SweepDies(s) ==
    /\ sweep[s] # Idle
    /\ sweep' = [sweep EXCEPT ![s] = Idle]
    /\ UNCHANGED <<tables, tasks, clock, api, worker, grants>>

-----------------------------------------------------------------------------
ApiStep(p) ==
    \/ \E w \in WorkflowIds, r \in RequestIds, m \in SuggestPayloads, c \in CloudModes :
          BeginReserve(p, w, r, m, c)
    \/ ReserveNew(p)
    \/ ReservePending(p)
    \/ ReserveAnswered(p)
    \/ LookUp(p)
    \/ Enqueue(p)
    \/ EnqueueFails(p)
    \/ \E w \in WorkflowIds : BeginGet(p, w)
    \/ ReadPlan(p)
    \/ ReadLatest(p)
    \/ EndRequest(p)
    \/ \E result \in Results : ProviderAnswers(p, result)
    \/ FinishInline(p)

WorkerStep(q) ==
    \/ \E i \in SuggestionIds : Deliver(q, i)
    \/ Claim(q)
    \/ \E result \in Results : ProviderReturns(q, result)
    \/ FinishClaimed(q)
    \/ DeliveryDies(q)

SweepStep(s) ==
    \/ BeginSweep(s)
    \/ \E i \in SuggestionIds : SweepRow(s, i)
    \/ \E i \in SuggestionIds : SkipRow(s, i)
    \/ EndSweep(s)
    \/ SweepDies(s)

Next ==
    \/ \E w \in WorkflowIds : AdvancePlan(w)
    \/ Tick
    \/ \E p \in Callers : ApiStep(p)
    \/ \E q \in Workers : WorkerStep(q)
    \/ \E s \in Sweepers : SweepStep(s)

Spec == Init /\ [][Next]_vars

(* Contention for a row lock that only short transactions hold.            *)
Contended(s, i) == SkipRow(s, i) /\ ~Held(suggestions[i].workflow)

(* Time passes, the scheduler keeps starting sweeps and a sweep that is    *)
(* running goes on; from some time on sweeps are neither killed nor beaten *)
(* to every lock.  Nothing is assumed of requests, deliveries or plans.    *)
SweepFairness ==
    /\ WF_vars(Tick)
    /\ \A s \in Sweepers :
          /\ WF_vars(BeginSweep(s))
          /\ WF_vars(\E i \in SuggestionIds : SweepRow(s, i) \/ SkipRow(s, i))
          /\ WF_vars(EndSweep(s))
    /\ <>[][\A s \in Sweepers : /\ ~SweepDies(s)
                                /\ \A i \in SuggestionIds : ~Contended(s, i)]_vars

FairSpec == Spec /\ SweepFairness

-----------------------------------------------------------------------------
(* A provider call costs money: however often a task is delivered, a       *)
(* request retried or a claim lost, one row is granted at most one call,   *)
(* and only a granted row becomes ready.                                   *)
OneProviderCall ==
    \A i \in SuggestionIds :
        /\ grants[i] <= 1
        /\ Used(suggestions, i) /\ suggestions[i].status = "ready" => grants[i] = 1

(* Of all requests for one plan at most one is pending, and it is the last *)
(* one made.                                                               *)
OnlyLatestPends ==
    \A i \in SuggestionIds : Pending(suggestions, i) => IsLatest(suggestions, i)

(* What the table's constraints refuse never happens: an insert or update  *)
(* that broke one would answer 503 and leave its row pending.  That a      *)
(* claim is never older than its reservation rests on tasks being created  *)
(* after the reservation committed, whose clock was read before.           *)
TableChecksHold ==
    /\ \A i, j \in SuggestionIds :
          /\ Used(suggestions, i) /\ Used(suggestions, j) /\ i # j
          => \/ suggestions[i].workflow # suggestions[j].workflow
             \/ suggestions[i].request # suggestions[j].request
    /\ \A i \in SuggestionIds : Used(suggestions, i) =>
          LET row == suggestions[i]
          IN  row.started # None => row.cloud /\ row.started >= row.queued

(* The outbox counts every settled request exactly once, and none of the   *)
(* superseded ones.                                                        *)
WithStatus(w, status) ==
    Cardinality({i \in RowsOf(suggestions, w) : suggestions[i].status = status})

OutboxMatchesRows ==
    \A w \in WorkflowIds :
        /\ outbox[w]["ready"] = WithStatus(w, "ready")
        /\ outbox[w]["failed"] + outbox[w]["expired"] = WithStatus(w, "failed")

(* A result is saved only for the plan it was asked for: still collecting  *)
(* titles, still at the revision of the request, and no request since.     *)
ResultFitsPlan ==
    [][\A i \in SuggestionIds :
          /\ Used(suggestions, i)
          /\ suggestions[i].status # "ready"
          /\ suggestions'[i].status = "ready"
          => AtBase(PlanOf(i), suggestions[i]) /\ IsLatest(suggestions, i)]_vars

(* Rows only move forward: who asked for what never changes, the claim     *)
(* marker is permanent, and a final status is final.                       *)
RowsOnlyMoveForward ==
    [][\A i \in SuggestionIds : Used(suggestions, i) =>
          LET old == suggestions[i]
              new == suggestions'[i]
          IN  /\ new = [old EXCEPT !.status = new.status, !.started = new.started]
              /\ old.started # None => new.started = old.started
              /\ old.status # "pending" => new = old]_vars

(* A queued request never hangs: whatever happens to its task, its worker  *)
(* or its client, the sweep settles it.                                    *)
QueuedSettles ==
    \A i \in SuggestionIds :
        (Used(suggestions, i) /\ suggestions[i].cloud)
            ~> (Used(suggestions, i) /\ suggestions[i].status \in FinalStatuses)
=============================================================================

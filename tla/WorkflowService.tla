--------------------------- MODULE WorkflowService ---------------------------
(***************************************************************************)
(* workflow_service.py on PostgreSQL.  Each request runs in a transaction  *)
(* of its own in some API process.  A start inserts its request row first, *)
(* so two starts with one key meet at the primary key; an advance locks    *)
(* the workflow row (SELECT ... FOR UPDATE), reads it and the request      *)
(* journal, decides, and writes everything in one commit.  A process may   *)
(* die, or its transaction be rolled back, at any point before that        *)
(* commit; the reply may be lost after it.  A client may send any request  *)
(* again, at any time, with the same or with other details.                *)
(***************************************************************************)
EXTENDS WorkflowTables

CONSTANTS
    Processes,   \* database connections that may run a transaction
    Payloads     \* the action payloads clients send

Payload == [expected : 0..MaxRevision, step : States, command : Command]

ASSUME PayloadsAssumption == Payloads \subseteq Payload

VARIABLES
    workflows, startLog, actionLog, todos, nextTodo, events,  \* committed
    txn              \* what each process's open transaction holds

dbVars == <<workflows, startLog, actionLog, todos, nextTodo, events>>
vars == <<workflows, startLog, actionLog, todos, nextTodo, events, txn>>

Idle == [pc |-> "idle"]

(* A start that inserted its request row but has not committed.            *)
Starting == [pc : {"starting"}, owner : Owners, request : RequestIds,
             title : Titles, workflow : WorkflowIds]

(* An advance that holds its workflow's row lock; `row' and `entry' are    *)
(* what it read under the lock.                                            *)
Advancing == [pc : {"locked"}, owner : Owners, request : RequestIds,
              workflow : WorkflowIds, expected : 0..MaxRevision, step : States,
              command : Command, row : Row, entry : ActionEntry \cup {None}]

TypeOK ==
    /\ workflows \in [WorkflowIds -> Row \cup {None}]
    /\ startLog \in [StartKeys -> StartEntry \cup {None}]
    /\ actionLog \in [ActionKeys -> ActionEntry \cup {None}]
    /\ todos \in SUBSET Todo
    /\ nextTodo \in Nat
    /\ events \in [EventNames \X WorkflowIds -> Nat]
    /\ txn \in [Processes -> {Idle} \cup Starting \cup Advancing]

Init ==
    /\ workflows \in InitialWorkflows
    /\ startLog = [k \in StartKeys |-> None]
    /\ actionLog = [k \in ActionKeys |-> None]
    /\ todos = {}
    /\ nextTodo = 0
    /\ events = [e \in EventNames \X WorkflowIds |-> 0]
    /\ txn = [p \in Processes |-> Idle]

-----------------------------------------------------------------------------
(* start_workflow().  An uncommitted request row makes a second insert of  *)
(* its key wait; a committed one makes it do nothing and replay, which     *)
(* changes no state.                                                       *)
StartKeyTaken(o, r) ==
    \/ startLog[<<o, r>>] # None
    \/ \E p \in Processes : /\ txn[p].pc = "starting"
                             /\ txn[p].owner = o
                             /\ txn[p].request = r

FreshWorkflow(w) ==
    /\ workflows[w] = None
    /\ \A p \in Processes : txn[p].pc = "starting" => txn[p].workflow # w

InsertStart(p, o, r, t, w) ==
    /\ txn[p] = Idle
    /\ ~StartKeyTaken(o, r)
    /\ FreshWorkflow(w)
    /\ txn' = [txn EXCEPT ![p] = [pc |-> "starting", owner |-> o, request |-> r,
                                  title |-> t, workflow |-> w]]
    /\ UNCHANGED dbVars

CommitStart(p) ==
    LET t   == txn[p]
        row == InitialRow(t.owner, t.title)
    IN  /\ t.pc = "starting"
        /\ startLog' = [startLog EXCEPT ![<<t.owner, t.request>>] =
                          [title |-> t.title, workflow |-> t.workflow,
                           snapshot |-> row]]
        /\ workflows' = [workflows EXCEPT ![t.workflow] = row]
        /\ events' = [events EXCEPT ![<<"workflow_started", t.workflow>>] = @ + 1]
        /\ txn' = [txn EXCEPT ![p] = Idle]
        /\ UNCHANGED <<actionLog, todos, nextTodo>>

(* What a start whose key is already committed is told.                    *)
StartAnswer(o, r, t) ==
    IF startLog[<<o, r>>].title # t THEN "request_id_reused" ELSE "replay"

-----------------------------------------------------------------------------
(* advance_workflow().                                                     *)
RowLocked_Never(w) == FALSE

RowLocked(w) ==
    \E p \in Processes : txn[p].pc = "locked" /\ txn[p].workflow = w

(* Another owner's workflow, or none, is "not found" and takes no lock.    *)
LockAndRead(p, o, w, r, m) ==
    /\ txn[p] = Idle
    /\ workflows[w] # None
    /\ workflows[w].owner = o
    /\ ~RowLocked(w)
    /\ txn' = [txn EXCEPT ![p] =
                 [pc |-> "locked", owner |-> o, request |-> r, workflow |-> w,
                  expected |-> m.expected, step |-> m.step,
                  command |-> m.command,
                  row |-> workflows[w], entry |-> actionLog[<<o, w, r>>]]]
    /\ UNCHANGED dbVars

(* The request fingerprint covers the revision, the step and the command.  *)
SameFingerprint(t, entry) ==
    /\ t.expected = entry.expected
    /\ t.step = entry.step
    /\ t.command = entry.command

(* The decision, in the order of the code's checks.                        *)
Answer_IgnoresJournal(t) ==
    IF t.row.version # CurrentVersion THEN "unsupported_workflow_definition"
    ELSE IF t.step # t.row.state \/ t.expected # t.row.revision THEN "stale_step"
    ELSE IF t.row.state \in TerminalStates    THEN "terminal_workflow"
    ELSE IF t.row.revision >= MaxRevision     THEN "revision_exhausted"
    ELSE IF ~Accepts(t.row.state, t.command)  THEN "invalid_action"
    ELSE "accept"

Answer(t) ==
    IF t.entry # None
    THEN IF SameFingerprint(t, t.entry) THEN "replay" ELSE "request_id_reused"
    ELSE IF t.row.version # CurrentVersion    THEN "unsupported_workflow_definition"
    ELSE IF t.step # t.row.state              THEN "stale_step"
    ELSE IF t.expected # t.row.revision       THEN "stale_step"
    ELSE IF t.row.state \in TerminalStates    THEN "terminal_workflow"
    ELSE IF t.row.revision >= MaxRevision     THEN "revision_exhausted"
    ELSE IF ~Accepts(t.row.state, t.command)  THEN "invalid_action"
    ELSE "accept"

(* UPDATE ... WHERE revision = expected_revision                           *)
CompareAndSet(t) == workflows[t.workflow].revision = t.expected

CommitAdvance(p) ==
    LET t == txn[p]
        new == Advanced(t.row, t.command, nextTodo)
        titles == TitlesToCreate(t.row, t.command)
    IN  /\ t.pc = "locked"
        /\ Answer(t) = "accept"
        /\ CompareAndSet(t)
        /\ todos' = todos \cup NewTodos(t.owner, titles, nextTodo)
        /\ nextTodo' = nextTodo + Len(titles)
        /\ workflows' = [workflows EXCEPT ![t.workflow] = new]
        /\ events' = IF new.state = "COMPLETED"
                     THEN [events EXCEPT ![<<"workflow_completed", t.workflow>>] = @ + 1]
                     ELSE events
        /\ actionLog' = [actionLog EXCEPT ![<<t.owner, t.workflow, t.request>>] =
                           [expected |-> t.expected, step |-> t.step,
                            command |-> t.command, snapshot |-> new]]
        /\ txn' = [txn EXCEPT ![p] = Idle]
        /\ UNCHANGED startLog

(* A replay or a refusal ends the transaction and writes nothing.          *)
EndAdvance_CountsReplay(p) ==
    /\ txn[p].pc = "locked"
    /\ Answer(txn[p]) # "accept" \/ ~CompareAndSet(txn[p])
    /\ events' = IF txn[p].row.state = "COMPLETED"
                 THEN [events EXCEPT ![<<"workflow_completed", txn[p].workflow>>] = @ + 1]
                 ELSE events
    /\ txn' = [txn EXCEPT ![p] = Idle]
    /\ UNCHANGED <<workflows, startLog, actionLog, todos, nextTodo>>

EndAdvance(p) ==
    /\ txn[p].pc = "locked"
    /\ Answer(txn[p]) # "accept" \/ ~CompareAndSet(txn[p])
    /\ txn' = [txn EXCEPT ![p] = Idle]
    /\ UNCHANGED dbVars

(* The process dies or loses its connection: nothing it wrote remains, and *)
(* its locks go with it.                                                   *)
Rollback(p) ==
    /\ txn[p] # Idle
    /\ txn' = [txn EXCEPT ![p] = Idle]
    /\ UNCHANGED dbVars

Next ==
    \E p \in Processes :
        \/ \E o \in Owners, r \in RequestIds, t \in Titles, w \in WorkflowIds :
              InsertStart(p, o, r, t, w)
        \/ CommitStart(p)
        \/ \E o \in Owners, w \in WorkflowIds, r \in RequestIds, m \in Payloads :
              LockAndRead(p, o, w, r, m)
        \/ CommitAdvance(p)
        \/ EndAdvance(p)
        \/ Rollback(p)

Spec == Init /\ [][Next]_vars
-----------------------------------------------------------------------------
(* A client that retries an accepted request must be told what it was told *)
(* the first time, and a fresh decision must not be made on rows another   *)
(* transaction has moved since: what an advance decides from the rows it   *)
(* read under its lock is, until it ends, what the committed rows say.     *)
AnswerNotStale ==
    \A p \in Processes : txn[p].pc = "locked" =>
        LET t == txn[p]
        IN  Answer(t) = Answer([t EXCEPT
                !.row   = workflows[t.workflow],
                !.entry = actionLog[<<t.owner, t.workflow, t.request>>]])

(* Every snapshot the service journals passes the closed validation that a *)
(* later replay applies to it, so a retry is never answered 503 because of *)
(* what the service itself stored.                                         *)
JournalReadable ==
    /\ \A k \in StartKeys  : startLog[k] # None  => ValidSnapshot(startLog[k].snapshot)
    /\ \A k \in ActionKeys : actionLog[k] # None => ValidSnapshot(actionLog[k].snapshot)

(* The todo table holds exactly the todos the completed workflows list as  *)
(* created: none missing, none twice, none shared, none without a workflow *)
(* and each owned by its workflow's owner.                                 *)
CreatedBy(w) ==
    IF workflows[w] = None THEN {}
    ELSE {[id |-> workflows[w].created[i].id, owner |-> workflows[w].owner,
           title |-> workflows[w].created[i].title]
             : i \in 1..Len(workflows[w].created)}

TodosExactlyOnce ==
    /\ todos = UNION {CreatedBy(w) : w \in WorkflowIds}
    /\ \A v, w \in WorkflowIds : v # w =>
          \A x \in CreatedBy(v), y \in CreatedBy(w) : x.id # y.id
    /\ \A w \in WorkflowIds : workflows[w] # None =>
          \A i, j \in 1..Len(workflows[w].created) :
             i # j => workflows[w].created[i].id # workflows[w].created[j].id

(* The journal of a workflow is its history: for each revision there is    *)
(* exactly one accepted request, it was made against the row the previous  *)
(* one left, its snapshot is what the transition rules make of that row,   *)
(* and the last snapshot is the row itself.  A lost update, a write        *)
(* without its journal entry or an entry without its write break this.     *)
Accepted(w, k) == k[2] = w /\ actionLog[k] # None

IsStepFrom(before, entry) ==
    /\ entry.expected = before.revision
    /\ entry.step = before.state
    /\ \E base \in 0..nextTodo : entry.snapshot = Advanced(before, entry.command, base)

HistoryIsARun ==
    /\ \A k \in ActionKeys : actionLog[k] # None =>
          /\ workflows[k[2]] # None
          /\ workflows[k[2]].owner = k[1]
          /\ actionLog[k].snapshot.revision \in 1..workflows[k[2]].revision
          /\ actionLog[k].snapshot.revision = workflows[k[2]].revision =>
                actionLog[k].snapshot = workflows[k[2]]
          /\ IF actionLog[k].snapshot.revision = 1
             THEN \E s \in StartKeys :
                    /\ startLog[s] # None
                    /\ startLog[s].workflow = k[2]
                    /\ IsStepFrom(startLog[s].snapshot, actionLog[k])
             ELSE \E j \in ActionKeys :
                    Accepted(k[2], j) /\ IsStepFrom(actionLog[j].snapshot, actionLog[k])
    /\ \A w \in WorkflowIds : workflows[w] # None =>
          \A n \in 1..workflows[w].revision :
             \E k \in ActionKeys : Accepted(w, k) /\ actionLog[k].snapshot.revision = n
    /\ \A j, k \in ActionKeys :
          /\ actionLog[j] # None /\ actionLog[k] # None /\ j[2] = k[2]
          /\ actionLog[j].snapshot.revision = actionLog[k].snapshot.revision
          => j = k

(* The outbox tells the truth: one workflow_started for each workflow this *)
(* server created, one workflow_completed for each completed one, and no   *)
(* more however often requests are repeated or rolled back.                *)
EventsMatchRows ==
    \A w \in WorkflowIds :
        /\ events[<<"workflow_started", w>>] =
              IF \E k \in StartKeys : startLog[k] # None /\ startLog[k].workflow = w
              THEN 1 ELSE 0
        /\ events[<<"workflow_completed", w>>] =
              IF workflows[w] # None /\ workflows[w].state = "COMPLETED" THEN 1 ELSE 0

(* Transactions, locks, crashes and retries are invisible: the committed   *)
(* rows behave as the contract says, each accepted request in one step.    *)
Contract == INSTANCE WorkflowContract

ImplementsContract == Contract!ContractSpec
=============================================================================

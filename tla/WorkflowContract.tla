-------------------------- MODULE WorkflowContract --------------------------
(***************************************************************************)
(* What the workflow service promises its clients, with no transaction, no *)
(* lock and no crash in sight: every accepted request takes effect in one  *)
(* step, at most once for its request id, with the answer it was given     *)
(* kept beside the effect.  A refused or repeated request changes nothing. *)
(***************************************************************************)
EXTENDS WorkflowTables

VARIABLES
    workflows,   \* todo_workflows by id
    startLog,    \* accepted starts by (owner, request)
    actionLog,   \* accepted actions by (owner, workflow, request)
    todos,       \* the todos created by confirmations
    nextTodo,    \* the next unused todo id
    events       \* how often each outbox event was recorded for a workflow

contractVars == <<workflows, startLog, actionLog, todos, nextTodo, events>>

ContractTypeOK ==
    /\ workflows \in [WorkflowIds -> Row \cup {None}]
    /\ startLog \in [StartKeys -> StartEntry \cup {None}]
    /\ actionLog \in [ActionKeys -> ActionEntry \cup {None}]
    /\ todos \in SUBSET Todo
    /\ nextTodo \in Nat
    /\ events \in [EventNames \X WorkflowIds -> Nat]

ContractInit ==
    /\ workflows \in InitialWorkflows
    /\ startLog = [k \in StartKeys |-> None]
    /\ actionLog = [k \in ActionKeys |-> None]
    /\ todos = {}
    /\ nextTodo = 0
    /\ events = [e \in EventNames \X WorkflowIds |-> 0]

AcceptStart(o, r, t, w) ==
    /\ startLog[<<o, r>>] = None
    /\ workflows[w] = None
    /\ workflows' = [workflows EXCEPT ![w] = InitialRow(o, t)]
    /\ startLog' = [startLog EXCEPT ![<<o, r>>] =
                      [title |-> t, workflow |-> w, snapshot |-> InitialRow(o, t)]]
    /\ events' = [events EXCEPT ![<<"workflow_started", w>>] = @ + 1]
    /\ UNCHANGED <<actionLog, todos, nextTodo>>

AcceptAction(o, w, r, c) ==
    LET row == workflows[w]
        new == Advanced(row, c, nextTodo)
        titles == TitlesToCreate(row, c)
    IN  /\ row # None
        /\ row.owner = o
        /\ row.version = CurrentVersion
        /\ row.revision < MaxRevision
        /\ Accepts(row.state, c)
        /\ actionLog[<<o, w, r>>] = None
        /\ workflows' = [workflows EXCEPT ![w] = new]
        /\ actionLog' = [actionLog EXCEPT ![<<o, w, r>>] =
                           [expected |-> row.revision, step |-> row.state,
                            command |-> c, snapshot |-> new]]
        /\ todos' = todos \cup NewTodos(o, titles, nextTodo)
        /\ nextTodo' = nextTodo + Len(titles)
        /\ events' = IF new.state = "COMPLETED"
                     THEN [events EXCEPT ![<<"workflow_completed", w>>] = @ + 1]
                     ELSE events
        /\ UNCHANGED startLog

ContractNext ==
    \E o \in Owners, r \in RequestIds, w \in WorkflowIds :
        \/ \E t \in Titles : AcceptStart(o, r, t, w)
        \/ \E c \in Command : AcceptAction(o, w, r, c)

ContractSpec == ContractInit /\ [][ContractNext]_contractVars
=============================================================================

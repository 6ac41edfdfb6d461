----------------------------- MODULE TodoColumns -----------------------------
(***************************************************************************)
(* The todos while `completed_at' takes over from `completed': the writers *)
(* of todo_repository.py behind the routes of main.py, which set both      *)
(* columns, those of the program before them, which set `completed' only,  *)
(* and the backfill that reconciles the two (backfill_completed_at.py).    *)
(*                                                                         *)
(* A row is [completed, stamped]; `stamped' is completed_at IS NOT NULL.   *)
(* Titles are left out.                                                    *)
(***************************************************************************)
EXTENDS Integers, FiniteSets

CONSTANTS
    None,
    Todos,            \* ids, numbers
    BatchSize,        \* 500 in the code
    MaxWriting,       \* bound: transactions open at a time
    DualWrites,       \* the first version that writes both columns
    ReadsStamps       \* the first version that reads completed_at

ASSUME TodoColumnsAssumption ==
    /\ Todos \subseteq Int
    /\ BatchSize \in Nat \ {0}
    /\ DualWrites \in Nat /\ ReadsStamps \in Nat
    /\ DualWrites < ReadsStamps

VARIABLES
    todos,            \* committed rows
    writing,          \* of each row, the transaction that has it locked
    told,             \* of each todo, the completion its user was last told
    backfill

todoVars == <<todos, writing, told, backfill>>

TodosInit ==
    /\ todos = [t \in Todos |-> None]
    /\ writing = [t \in Todos |-> None]
    /\ told = [t \in Todos |-> None]
    /\ backfill = [at |-> "idle", updated |-> FALSE]

(* set_completed                                                           *)
SetCompleted_StampKept(row, value) == [completed |-> value, stamped |-> value \/ row.stamped]

SetCompleted(row, value) == [completed |-> value, stamped |-> value]

SetByOldProgram(row, value) == [row EXCEPT !.completed = value]

(* is_completed, as each version reads it                                  *)
Shown(row, version) == IF version >= ReadsStamps THEN row.stamped ELSE row.completed

-----------------------------------------------------------------------------
(* A request of the given version: its statement is executed and holds the *)
(* row's lock until the transaction commits, or is rolled back.            *)
Executes(t, version, row, value) ==
    /\ writing[t] = None
    /\ Cardinality({u \in Todos : writing[u] # None}) < MaxWriting
    /\ writing' = [writing EXCEPT ![t] = [by |-> version, row |-> row, value |-> value]]
    /\ UNCHANGED <<todos, told, backfill>>

CreateTodo(t, version) ==
    todos[t] = None /\ Executes(t, version, [completed |-> FALSE, stamped |-> FALSE], FALSE)

UpdateTodo(t, version, value) ==
    /\ todos[t] # None
    /\ Executes(t, version, IF version >= DualWrites THEN SetCompleted(todos[t], value)
                            ELSE SetByOldProgram(todos[t], value), value)

RemoveTodo(t, version) == todos[t] # None /\ Executes(t, version, None, None)

Commits(t) ==
    /\ writing[t] # None
    /\ todos' = [todos EXCEPT ![t] = writing[t].row]
    /\ told' = [told EXCEPT ![t] = writing[t].value]
    /\ writing' = [writing EXCEPT ![t] = None]
    /\ UNCHANGED backfill

GoesBack(t) ==
    /\ writing[t] # None
    /\ writing' = [writing EXCEPT ![t] = None]
    /\ UNCHANGED <<todos, told, backfill>>

-----------------------------------------------------------------------------
(* backfill(): two statements a round, each its own transaction, which     *)
(* skips the rows another one has locked; until a round updates nothing.   *)
Unlocked   == {t \in Todos : todos[t] # None /\ writing[t] = None}
Unstamped  == {t \in Unlocked : todos[t].completed /\ ~todos[t].stamped}
StaleStamp == {t \in Unlocked : ~todos[t].completed /\ todos[t].stamped}

Batch(rows) == {t \in rows : Cardinality({u \in rows : u < t}) < BatchSize}

StartBackfill ==
    /\ backfill.at = "idle"
    /\ backfill' = [at |-> "stamp", updated |-> FALSE]
    /\ UNCHANGED <<todos, writing, told>>

StampBatch ==
    /\ backfill.at = "stamp"
    /\ todos' = [t \in Todos |-> IF t \in Batch(Unstamped) THEN [todos[t] EXCEPT !.stamped = TRUE]
                                 ELSE todos[t]]
    /\ backfill' = [at |-> "clear", updated |-> Batch(Unstamped) # {}]
    /\ UNCHANGED <<writing, told>>

ClearBatch ==
    /\ backfill.at = "clear"
    /\ todos' = [t \in Todos |-> IF t \in Batch(StaleStamp) THEN [todos[t] EXCEPT !.stamped = FALSE]
                                 ELSE todos[t]]
    /\ backfill' = [backfill EXCEPT
           !.at = IF backfill.updated \/ Batch(StaleStamp) # {} THEN "stamp" ELSE "idle"]
    /\ UNCHANGED <<writing, told>>

BackfillDies ==
    /\ backfill.at # "idle"
    /\ backfill' = [backfill EXCEPT !.at = "idle"]
    /\ UNCHANGED <<todos, writing, told>>

(* The query of the guide, which and not the printed count is the gate.    *)
Reconciled == \A t \in Todos : todos[t] # None => todos[t].completed = todos[t].stamped
=============================================================================

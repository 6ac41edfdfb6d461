--------------------------- MODULE WorkflowTables ---------------------------
(***************************************************************************)
(* The rows the workflow service keeps in PostgreSQL: their types, their   *)
(* keys, and the values one accepted request writes into them.             *)
(***************************************************************************)
EXTENDS WorkflowDomain

CONSTANTS
    RequestIds,      \* client-chosen idempotency keys
    WorkflowIds,     \* uuid4 values
    UnsupportedIds,  \* workflows saved under another definition version
    None             \* an absent row

EventNames == {"workflow_started", "workflow_completed"}
StartKeys  == Owners \X RequestIds
ActionKeys == Owners \X WorkflowIds \X RequestIds

StartEntry  == [title : Titles, workflow : WorkflowIds, snapshot : Row]
ActionEntry == [expected : Nat, step : States, command : Command, snapshot : Row]
Todo        == [id : Nat, owner : Owners, title : Titles]

ASSUME UnsupportedAssumption == UnsupportedIds \subseteq WorkflowIds
ASSUME NoneAssumption == None \notin Row \cup StartEntry \cup ActionEntry

(* Workflows of another definition version are the only ones that are      *)
(* there before the service starts.                                        *)
InitialWorkflows ==
    {[w \in WorkflowIds |->
        IF w \in UnsupportedIds
        THEN [InitialRow(owner[w], t) EXCEPT !.version = CurrentVersion + 1]
        ELSE None] : owner \in [UnsupportedIds -> Owners], t \in Titles}

-----------------------------------------------------------------------------
(* Todo ids are uuid4 values in the code; a counter stands for freshness.  *)
CreatedTodos(titles, base) ==
    [i \in 1..Len(titles) |-> [id |-> base + i, title |-> titles[i]]]

NewTodos_DropsLast(o, titles, base) ==
    {[id |-> base + i, owner |-> o, title |-> titles[i]] : i \in 1..(Len(titles) - 1)}

NewTodos(o, titles, base) ==
    {[id |-> base + i, owner |-> o, title |-> titles[i]] : i \in 1..Len(titles)}

Advanced_SameRevision(row, c, base) ==
    [Transition(row, c) EXCEPT
        !.created = CreatedTodos(TitlesToCreate(row, c), base)]

(* The row after an accepted command, with its completion result.          *)
Advanced(row, c, base) ==
    [Transition(row, c) EXCEPT
        !.revision = row.revision + 1,
        !.created  = CreatedTodos(TitlesToCreate(row, c), base)]
=============================================================================

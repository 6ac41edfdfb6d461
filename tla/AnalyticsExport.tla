--------------------------- MODULE AnalyticsExport ---------------------------
(***************************************************************************)
(* The analytics outbox: rows written in the transaction of the change     *)
(* they report, loaded in batches into the warehouse by a scheduled        *)
(* export, marked once loaded and removed a retention time later.          *)
(*                                                                         *)
(* An export is three transactions with a load job between the first two,  *)
(* and the load may outlive the wait for it: the job of a wait that timed  *)
(* out may still land.  Exports may overlap (the worker answers its caller *)
(* after 60 s but its thread runs on) and may die between any two steps.   *)
(* Identity values are drawn when a row is inserted and become visible in  *)
(* the order of the commits, which is another order.                       *)
(***************************************************************************)
EXTENDS Integers, FiniteSets

CONSTANTS
    Events,           \* analytics events, by event_id
    Exporters,        \* exports in flight
    BatchLimit,       \* EXPORT_BATCH_LIMIT
    PruneAfter,       \* PRUNE_AFTER, in clock ticks
    MaxClock          \* bound: the clock stops here

ASSUME AnalyticsExportAssumption ==
    /\ BatchLimit \in Nat \ {0}
    /\ PruneAfter \in Nat
    /\ MaxClock \in Nat

VARIABLES
    status,           \* of an event's row
    id,               \* its identity value, 0 before it is inserted
    exportedAt,       \* exported_at of the row, Never if it is NULL
    lastId,           \* the identity sequence
    warehouse,        \* events the deduplicating view shows
    jobs,             \* load jobs nobody waits for any more
    clock,
    export            \* what each export is doing, and its batch

vars == <<status, id, exportedAt, lastId, warehouse, jobs, clock, export>>
rows == <<status, id, exportedAt, lastId>>

Never == -1
Idle == [pc |-> "idle", batch |-> {}]
(* Only an export that found rows loads, and marks what it loaded.         *)
Busy == {r \in [pc : {"loading", "marking", "pruning"}, batch : SUBSET Events] :
            r.batch = {} => r.pc = "pruning"}

(* A row may be read by others once its transaction has committed.         *)
Stored_Uncommitted == {e \in Events : status[e] \in {"open", "stored"}}
Stored == {e \in Events : status[e] = "stored"}

Unexported_NoFilter == Stored
Unexported == {e \in Stored : exportedAt[e] = Never}

Batch == {e \in Unexported :
            Cardinality({f \in Unexported : id[f] < id[e]}) < BatchLimit}

(* The rows of the batch, not every row up to its last one.                *)
Marked_UpToLast(x) == {e \in Stored : \E f \in export[x].batch : id[e] <= id[f]}
Marked(x) == export[x].batch \cap Stored

Prunable == {e \in Stored : exportedAt[e] # Never /\ exportedAt[e] < clock - PruneAfter}

AfterSelect_AlwaysLoads(batch) == "loading"
AfterSelect(batch) == IF batch = {} THEN "pruning" ELSE "loading"

TypeOK ==
    /\ status \in [Events -> {"absent", "open", "stored", "aborted", "pruned"}]
    /\ id \in [Events -> Nat]
    /\ exportedAt \in [Events -> Nat \cup {Never}]
    /\ lastId \in Nat
    /\ warehouse \subseteq Events
    /\ jobs \subseteq SUBSET Events
    /\ clock \in Nat
    /\ export \in [Exporters -> {Idle} \cup Busy]

Init ==
    /\ status = [e \in Events |-> "absent"]
    /\ id = [e \in Events |-> 0]
    /\ exportedAt = [e \in Events |-> Never]
    /\ lastId = 0
    /\ warehouse = {}
    /\ jobs = {}
    /\ clock = 0
    /\ export = [x \in Exporters |-> Idle]

(***************************************************************************)
(* The writers.                                                            *)
(***************************************************************************)
(* record_event: the row joins the caller's transaction.                   *)
Insert(e) ==
    /\ status[e] = "absent"
    /\ status' = [status EXCEPT ![e] = "open"]
    /\ id' = [id EXCEPT ![e] = lastId + 1]
    /\ lastId' = lastId + 1
    /\ UNCHANGED <<exportedAt, warehouse, jobs, clock, export>>

EndWrite(e) ==
    /\ status[e] = "open"
    /\ \E s \in {"stored", "aborted"} : status' = [status EXCEPT ![e] = s]
    /\ UNCHANGED <<id, exportedAt, lastId, warehouse, jobs, clock, export>>

Tick ==
    /\ clock < MaxClock
    /\ clock' = clock + 1
    /\ UNCHANGED <<rows, warehouse, jobs, export>>

(***************************************************************************)
(* The export.                                                             *)
(***************************************************************************)
Goto(x, pc) == export' = [export EXCEPT ![x].pc = pc]
Leave(x) == export' = [export EXCEPT ![x] = Idle]

Select(x) ==
    /\ export[x].pc = "idle"
    /\ export' = [export EXCEPT ![x] =
                    [pc |-> AfterSelect(Batch), batch |-> Batch]]
    /\ UNCHANGED <<rows, warehouse, jobs, clock>>

Load(x) ==
    /\ export[x].pc = "loading"
    /\ warehouse' = warehouse \cup export[x].batch
    /\ Goto(x, "marking")
    /\ UNCHANGED <<rows, jobs, clock>>

(* A load that raises ends the export; whether its job lands is open.      *)
LoadRaises(x) ==
    /\ export[x].pc = "loading"
    /\ \E left \in {{}, {export[x].batch}} : jobs' = jobs \cup left
    /\ Leave(x)
    /\ UNCHANGED <<rows, warehouse, clock>>

JobEnds ==
    \E b \in jobs, landed \in BOOLEAN :
        /\ jobs' = jobs \ {b}
        /\ warehouse' = IF landed THEN warehouse \cup b ELSE warehouse
        /\ UNCHANGED <<rows, clock, export>>

Mark(x) ==
    /\ export[x].pc = "marking"
    /\ exportedAt' = [e \in Events |-> IF e \in Marked(x) THEN clock ELSE exportedAt[e]]
    /\ Goto(x, "pruning")
    /\ UNCHANGED <<status, id, lastId, warehouse, jobs, clock>>

Prune(x) ==
    /\ export[x].pc = "pruning"
    /\ status' = [e \in Events |-> IF e \in Prunable THEN "pruned" ELSE status[e]]
    /\ Leave(x)
    /\ UNCHANGED <<id, exportedAt, lastId, warehouse, jobs, clock>>

(* The worker dies, or a transaction fails and is rolled back.             *)
Dies(x) ==
    /\ export[x].pc \in {"marking", "pruning"}
    /\ Leave(x)
    /\ UNCHANGED <<rows, warehouse, jobs, clock>>

Export(x) == Select(x) \/ Load(x) \/ LoadRaises(x) \/ Mark(x) \/ Prune(x) \/ Dies(x)

Next ==
    \/ \E e \in Events : Insert(e) \/ EndWrite(e)
    \/ \E x \in Exporters : Export(x)
    \/ JobEnds
    \/ Tick

Spec == Init /\ [][Next]_vars

(* The scheduler starts an export every fifteen minutes, a batch that is   *)
(* tried again and again is loaded one time, and of the exports that       *)
(* loaded one some get to mark it.                                         *)
Fairness ==
    \A x \in Exporters :
        /\ WF_vars(Select(x)) /\ WF_vars(Prune(x))
        /\ SF_vars(Load(x)) /\ SF_vars(Mark(x))

FairSpec == Spec /\ Fairness

(***************************************************************************)
(* Properties.                                                             *)
(***************************************************************************)
(* An event leaves the outbox, or is taken off the list of what is still   *)
(* to export, only once the warehouse has it: not by a crash between load  *)
(* and mark, an overlapping export, a wait that timed out, or a row of a   *)
(* lower identity that committed late (analytics_export.py:1-5, 44-71).    *)
NothingLost ==
    \A e \in Events :
        exportedAt[e] # Never \/ status[e] = "pruned" => e \in warehouse

(* The warehouse holds nothing of a transaction that was rolled back or    *)
(* may still be: a business change and its event come together or not at   *)
(* all (analytics_events.py:1).                                            *)
OnlyCommittedEvents ==
    \A e \in warehouse : status[e] \in {"stored", "pruned"}

(* Every committed event reaches the warehouse, however many are waiting   *)
(* and however many exports die (analytics_export.py:47-52).               *)
EveryEventExported ==
    \A e \in Events : status[e] = "stored" ~> e \in warehouse
=============================================================================

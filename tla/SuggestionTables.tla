--------------------------- MODULE SuggestionTables ---------------------------
(***************************************************************************)
(* The suggestion-request rows of suggestion_service.py and the decisions  *)
(* its transactions make from them.                                        *)
(*                                                                         *)
(* A row belongs to one workflow and so to one owner; lock_workflow finds  *)
(* nothing for any other user, who is answered 404 before anything else    *)
(* happens, so owners are left out here.  A row is                         *)
(*   [workflow, request, payload, cloud, queued, expires, started, status] *)
(* where `payload' is what the request fingerprint covers.  `queued' and   *)
(* `expires' are NULL in an inline row (cloud = FALSE); 0 stands for that. *)
(* Titles and error codes are left out: a ready row has titles, a failed   *)
(* row has a code, and nothing below depends on which.                     *)
(***************************************************************************)
EXTENDS WorkflowTables

CONSTANTS
    Clarifications,   \* canonical clarifications, with one for "none given"
    MaxSuggestions,   \* bound: rows in the table
    ReservationTTL,   \* SUGGESTION_RESERVATION_TTL
    ClaimTTL          \* SUGGESTION_CLAIM_TTL

ASSUME MaxSuggestionsAssumption == MaxSuggestions \in Nat
ASSUME TTLAssumption ==
    ReservationTTL \in Nat \ {0} /\ ClaimTTL \in Nat \ {0}
ASSUME NoTimeAssumption == None \notin Nat

\* Row ids, given out in order.
SuggestionIds == 1..MaxSuggestions

FinalStatuses == {"ready", "failed", "superseded"}
Statuses      == FinalStatuses \cup {"pending"}
Outcomes      == {"ready", "failed", "expired"}

\* One worker result, or one inline result.
Results == {"ready", "failed"}

SuggestPayload == [expected : Nat, step : States, clarify : Clarifications]

SuggestionRow == [workflow : WorkflowIds,
                  request  : RequestIds,
                  payload  : SuggestPayload,
                  cloud    : BOOLEAN,
                  queued   : Nat,
                  expires  : Nat,
                  started  : Nat \cup {None},
                  status   : Statuses]

ASSUME NoSuggestionAssumption == None \notin SuggestionRow

PendingRow(w, r, m, cloud, now) ==
    [workflow |-> w, request |-> r, payload |-> m, cloud |-> cloud,
     queued  |-> IF cloud THEN now ELSE 0,
     expires |-> IF cloud THEN now + ReservationTTL ELSE 0,
     started |-> None, status |-> "pending"]

-----------------------------------------------------------------------------
(* `table' maps row ids to rows or None.                                   *)
Used(table, i)    == table[i] # None
Pending(table, i) == Used(table, i) /\ table[i].status = "pending"

RowsOf(table, w) == {i \in SuggestionIds : Used(table, i) /\ table[i].workflow = w}

IsLatest(table, i) ==
    /\ Used(table, i)
    /\ \A j \in RowsOf(table, table[i].workflow) : j <= i

(* The workflow is still where a reservation was made from.                *)
AtBase(plan, row) ==
    /\ plan.version  = CurrentVersion
    /\ plan.state    = "COLLECT_TASKS"
    /\ plan.revision = row.payload.expected
    /\ plan.state    = row.payload.step

(* Both deadlines of a cloud row, on the clock of one transaction.         *)
Expired(row, now)     == now >= row.expires
ClaimLapsed(row, now) == row.started # None /\ now >= row.started + ClaimTTL

SweepCandidate_LapsedClaims(table, i, now) ==
    /\ Pending(table, i)
    /\ table[i].cloud
    /\ ClaimLapsed(table[i], now)

SweepCandidate(table, i, now) ==
    /\ Pending(table, i)
    /\ table[i].cloud
    /\ Expired(table[i], now) \/ ClaimLapsed(table[i], now)

-----------------------------------------------------------------------------
(* reserve_suggestion(): what a request is told.                           *)
ReplayAnswer(table, i, m) ==
    IF table[i].payload # m                       THEN "request_id_reused"
    ELSE IF table[i].status \in {"ready", "failed"} THEN "saved"
    ELSE IF table[i].status = "pending" /\ IsLatest(table, i)
         THEN IF table[i].cloud THEN "pending" ELSE "suggestion_in_progress"
    ELSE "stale_suggestion"

NewAnswer(plan, m) ==
    IF plan.version # CurrentVersion     THEN "unsupported_workflow_definition"
    ELSE IF plan.state # "COLLECT_TASKS" THEN "invalid_state"
    ELSE IF m.step # plan.state          THEN "stale_step"
    ELSE IF m.expected # plan.revision   THEN "stale_step"
    ELSE "reserve"

ClaimAnswer_Reclaims(table, i, plan, now) ==
    IF ~Pending(table, i) \/ ~table[i].cloud THEN "no_work"
    ELSE IF Expired(table[i], now)           THEN "timeout"
    ELSE IF table[i].started # None /\ ~ClaimLapsed(table[i], now) THEN "in_progress"
    ELSE IF ~AtBase(plan, table[i])          THEN "superseded"
    ELSE IF ~IsLatest(table, i)              THEN "superseded"
    ELSE "claimed"

(* _claim_inner(): what a delivery is granted.                             *)
ClaimAnswer(table, i, plan, now) ==
    IF ~Pending(table, i) \/ ~table[i].cloud THEN "no_work"
    ELSE IF Expired(table[i], now)           THEN "timeout"
    ELSE IF table[i].started # None
         THEN IF ClaimLapsed(table[i], now) THEN "timeout" ELSE "in_progress"
    ELSE IF ~AtBase(plan, table[i])          THEN "superseded"
    ELSE IF ~IsLatest(table, i)              THEN "superseded"
    ELSE "claimed"

FinishAnswer_MarkerOnly(table, i, plan, started, now) ==
    IF table[i].started # started \/ ~Pending(table, i) THEN "discarded"
    ELSE "saved"

(* finish_claimed_suggestion(): what becomes of a worker's result.         *)
FinishAnswer(table, i, plan, started, now) ==
    IF \/ table[i].started = None
       \/ table[i].started # started
       \/ ~Pending(table, i)
       \/ ~table[i].cloud
    THEN "discarded"
    ELSE IF Expired(table[i], now) \/ ClaimLapsed(table[i], now) THEN "discarded"
    ELSE IF ~AtBase(plan, table[i]) \/ ~IsLatest(table, i)       THEN "superseded"
    ELSE "saved"

(* finish_suggestion(): the same for an inline result, which has neither   *)
(* marker nor deadline.                                                    *)
InlineAnswer(table, i, plan) ==
    IF table[i].status \in {"ready", "failed"} THEN "replay"
    ELSE IF ~Pending(table, i) \/ ~IsLatest(table, i) \/ ~AtBase(plan, table[i])
         THEN "stale_suggestion"
    ELSE "saved"
=============================================================================

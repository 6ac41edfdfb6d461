------------------------------ MODULE Release ------------------------------
(***************************************************************************)
(* Releases of the program over the todos it serves: which version answers *)
(* a request is where the release script left the traffic, and whether a   *)
(* user sees the truth depends on which versions wrote before.  The        *)
(* operator follows the guide: delivery is paused while the backfill runs, *)
(* and the version that reads completed_at is released only when the gate  *)
(* query finds the columns agree and no old request is left.               *)
(***************************************************************************)
EXTENDS ReleaseDeploy, TodoColumns

vars == <<releaseVars, todoVars>>

Init == ReleaseInit /\ TodosInit

Serving == cloud["api"].serving

Paused == backfill.at # "idle"

GatePassed ==
    Reconciled /\ \A t \in Todos : writing[t] # None => writing[t].by >= DualWrites

Releases ==
    /\ \E v \in 1..Latest :
          /\ v >= ReadsStamps => GatePassed
          /\ Begin(v)
    /\ ~Paused
    /\ UNCHANGED todoVars

RollsBack == RollBack /\ ~Paused /\ UNCHANGED todoVars

Script == ReleaseStep /\ UNCHANGED todoVars

Request ==
    /\ \E t \in Todos :
          \/ CreateTodo(t, Serving) \/ RemoveTodo(t, Serving)
          \/ \E value \in BOOLEAN : UpdateTodo(t, Serving, value)
          \/ Commits(t) \/ GoesBack(t)
    /\ UNCHANGED releaseVars

(* Started by hand, once the expanding release serves.                     *)
BackfillStarts ==
    /\ deploy.phase \in {"idle", "ended"} /\ Serving >= DualWrites
    /\ \A s \in Services : cloud[s].want = cloud[s].serving
    /\ StartBackfill
    /\ UNCHANGED releaseVars

BackfillRuns == (StampBatch \/ ClearBatch) /\ UNCHANGED releaseVars

Next ==
    \/ Releases \/ RollsBack \/ Script \/ Request
    \/ BackfillStarts \/ BackfillRuns
    \/ BackfillDies /\ UNCHANGED releaseVars

Spec == Init /\ [][Next]_vars

-----------------------------------------------------------------------------
Ended == deploy.phase = "ended"
Part  == IF deploy.worker THEN Services ELSE {"api"}

(* The API of a release never serves beside the worker of the one before,  *)
(* in the order of promotions and of restorations alike, but where the     *)
(* restoration of the API failed and says so, or somebody else moved the   *)
(* worker (release_deploy.py:8-12).                                        *)
WorkerFirst ==
    (deploy.worker /\ cloud["api"].serving > cloud["worker"].serving) =>
        deploy.restore["api"] = "failed" \/ "worker" \in deploy.moved

(* No version serves before the schema it needs is there, nor a revision   *)
(* that was built from another image.                                      *)
ProvedBeforeServing ==
    \A s \in Part :
        /\ schema >= cloud[s].serving
        /\ (deploy.phase # "idle" /\ cloud[s].serving = deploy.version) =>
               cloud[s].made = "released"

(* A release that was not cut short has put every service on its version,  *)
(* or none: what it moved it moved back, or it says that it could not.     *)
AllOrNothing ==
    (deploy.phase \in {"cleaning", "ended"} /\ ~deploy.cut) =>
        \A s \in Part :
            IF deploy.failed
            THEN cloud[s].want < deploy.version \/ deploy.restore[s] = "failed"
            ELSE deploy.seen[s] = deploy.version

(* What the summary says of restored traffic and of tags is so.            *)
SummaryTellsTruth ==
    [][(deploy.phase = "cleaning" /\ deploy'.phase = "ended" /\ ~deploy.cut) =>
          \A s \in Part :
             /\ deploy.restore[s] = "restored" => cloud[s].serving = deploy.previous[s]
             /\ cloud[s].tagged => deploy.cleanup = "failed"
             /\ s \in deploy.attempted =>
                    \/ deploy.seen[s] = cloud[s].want
                    \/ deploy.restore[s] = "failed"]_vars

(* Whatever version answers, after any release, failure and roll-back, a   *)
(* user is shown the completion that was last acknowledged.                *)
ReadsTrue ==
    \A t \in Todos : todos[t] # None => Shown(todos[t], Serving) = told[t]
=============================================================================

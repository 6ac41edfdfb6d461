----------------------- MODULE AnalyticsExportProofs -----------------------
(***************************************************************************)
(* That the outbox loses nothing, for any number of events, exports and    *)
(* load jobs and any batch limit and retention.                            *)
(*                                                                         *)
(* Neither property is inductive alone.  What an export is about to mark   *)
(* must be in the warehouse already (Carried), and what an export or a     *)
(* forgotten load job carries must be committed (Committed): these hold    *)
(* because a row never leaves "stored" but for "pruned".                   *)
(***************************************************************************)
EXTENDS AnalyticsExport, TLAPS

Saved == {e \in Events : status[e] \in {"stored", "pruned"}}

Carried == \A x \in Exporters : export[x].pc = "marking" => export[x].batch \subseteq warehouse

Committed ==
    /\ warehouse \subseteq Saved
    /\ \A x \in Exporters : export[x].batch \subseteq Saved
    /\ \A b \in jobs : b \subseteq Saved

IInv == TypeOK /\ NothingLost /\ Carried /\ Committed

LEMMA InitIInv == Init => IInv
  <1> SUFFICES ASSUME Init PROVE IInv
    OBVIOUS
  <1>1. TypeOK
    BY DEF Init, TypeOK, Idle, Never
  <1>2. NothingLost /\ Carried /\ Committed
    BY DEF Init, NothingLost, Carried, Committed, Saved, Idle, Never
  <1> QED BY <1>1, <1>2 DEF IInv

(* What a step may do to the export of x, by the record it leaves there.   *)
LEMMA GotoType ==
  ASSUME TypeOK, NEW x \in Exporters, NEW pc \in {"marking", "pruning"},
         export[x].pc # "idle", Goto(x, pc),
         export[x].batch # {} \/ pc = "pruning"
  PROVE  /\ export' \in [Exporters -> {Idle} \cup Busy]
         /\ \A y \in Exporters : export'[y].batch = export[y].batch
         /\ \A y \in Exporters \ {x} : export'[y] = export[y]
         /\ export'[x].pc = pc
  <1>1. export[x] \in Busy
    BY DEF TypeOK, Idle
  <1>2. /\ export[x] \in [pc : {"loading", "marking", "pruning"}, batch : SUBSET Events]
        /\ export \in [Exporters -> {Idle} \cup Busy]
    BY <1>1 DEF Busy, TypeOK
  <1> DEFINE r == [export[x] EXCEPT !.pc = pc]
  <1>3. r \in Busy /\ r.batch = export[x].batch /\ r.pc = pc
    BY <1>2 DEF Busy
  <1>4. export' = [export EXCEPT ![x] = r]
    BY DEF Goto
  <1> HIDE DEF r
  <1> QED BY <1>2, <1>3, <1>4

LEMMA LeaveType ==
  ASSUME TypeOK, NEW x \in Exporters, Leave(x)
  PROVE  /\ export' \in [Exporters -> {Idle} \cup Busy]
         /\ \A y \in Exporters : export'[y].batch \subseteq export[y].batch
         /\ \A y \in Exporters \ {x} : export'[y] = export[y]
         /\ export'[x].pc = "idle"
  BY DEF TypeOK, Leave, Idle

(* Committed, NothingLost and Carried survive a step that leaves the rows  *)
(* and the warehouse alone and carries nothing new.                        *)
LEMMA InvNext ==
  IInv /\ [Next]_vars => IInv'
  <1> SUFFICES ASSUME IInv, [Next]_vars PROVE IInv'
    OBVIOUS
  <1> USE AnalyticsExportAssumption DEF Never
  <1>T. /\ TypeOK
        /\ NothingLost
        /\ Carried
        /\ Committed
    BY DEF IInv
  <1>1. ASSUME NEW e \in Events, Insert(e) PROVE IInv'
    <2>1. TypeOK'
      BY <1>T, <1>1 DEF TypeOK, Insert
    <2>2. Saved' = Saved
      BY <1>T, <1>1 DEF TypeOK, Insert, Saved
    <2>3. NothingLost' /\ Carried'
      BY <1>T, <1>1 DEF TypeOK, Insert, NothingLost, Carried
    <2>4. Committed'
      BY <1>T, <1>1, <2>2 DEF Insert, Committed
    <2> QED BY <2>1, <2>3, <2>4 DEF IInv
  <1>2. ASSUME NEW e \in Events, EndWrite(e) PROVE IInv'
    <2>0. PICK s \in {"stored", "aborted"} : status' = [status EXCEPT ![e] = s]
      BY <1>2 DEF EndWrite
    <2>1. TypeOK'
      BY <1>T, <1>2, <2>0 DEF TypeOK, EndWrite
    <2>2. Saved \subseteq Saved'
      BY <1>T, <1>2, <2>0 DEF TypeOK, EndWrite, Saved
    <2>3. NothingLost' /\ Carried'
      BY <1>T, <1>2, <2>0 DEF TypeOK, EndWrite, NothingLost, Carried
    <2>4. Committed'
      BY <1>T, <1>2, <2>2 DEF EndWrite, Committed
    <2> QED BY <2>1, <2>3, <2>4 DEF IInv
  <1>3. ASSUME NEW x \in Exporters, Select(x) PROVE IInv'
    <2> DEFINE r == [pc |-> AfterSelect(Batch), batch |-> Batch]
    <2>1. Batch \subseteq Stored /\ Batch \subseteq Saved /\ Batch \subseteq Events
      BY DEF Batch, Unexported, Stored, Saved
    <2>2. r \in Busy /\ r.pc # "marking" /\ r.batch = Batch
      BY <2>1 DEF Busy, AfterSelect
    <2>3. export' = [export EXCEPT ![x] = r]
      BY <1>3 DEF Select
    <2>4. UNCHANGED <<status, id, exportedAt, lastId, warehouse, jobs, clock>>
      BY <1>3 DEF Select, rows
    <2> HIDE DEF r
    <2>5. TypeOK'
      BY <1>T, <2>2, <2>3, <2>4 DEF TypeOK
    <2>6. Saved' = Saved
      BY <2>4 DEF Saved
    <2>7. NothingLost'
      BY <1>T, <2>4 DEF NothingLost
    <2>8. Carried'
      BY <1>T, <2>2, <2>3, <2>4 DEF Carried, TypeOK
    <2>9. Committed'
      BY <1>T, <2>1, <2>2, <2>3, <2>4, <2>6 DEF Committed, TypeOK
    <2> QED BY <2>5, <2>7, <2>8, <2>9 DEF IInv
  <1>4. ASSUME NEW x \in Exporters, Load(x) PROVE IInv'
    <2>0. export[x].batch # {} /\ export[x].batch \subseteq Events /\ export[x].batch \subseteq Saved
      BY <1>T, <1>4 DEF TypeOK, Load, Busy, Idle, Committed
    <2>1. /\ export' \in [Exporters -> {Idle} \cup Busy]
          /\ \A y \in Exporters : export'[y].batch = export[y].batch
          /\ \A y \in Exporters \ {x} : export'[y] = export[y]
      BY <1>T, <1>4, <2>0, GotoType DEF Load
    <2>2. TypeOK'
      BY <1>T, <1>4, <2>0, <2>1 DEF TypeOK, Load, rows
    <2>3. Saved' = Saved
      BY <1>4 DEF Saved, Load, rows
    <2>4. NothingLost' /\ Carried' /\ Committed'
      BY <1>T, <1>4, <2>0, <2>1, <2>3 DEF NothingLost, Carried, Committed, Load, rows
    <2> QED BY <2>2, <2>4 DEF IInv
  <1>5. ASSUME NEW x \in Exporters, LoadRaises(x) PROVE IInv'
    <2>0. PICK left \in {{}, {export[x].batch}} : jobs' = jobs \cup left
      BY <1>5 DEF LoadRaises
    <2>1. /\ export' \in [Exporters -> {Idle} \cup Busy]
          /\ \A y \in Exporters : export'[y].batch \subseteq export[y].batch
          /\ \A y \in Exporters \ {x} : export'[y] = export[y]
          /\ export'[x].pc = "idle"
      BY <1>T, <1>5, LeaveType DEF LoadRaises
    <2>2. export[x].batch \subseteq Events /\ export[x].batch \subseteq Saved
      BY <1>T DEF TypeOK, Busy, Idle, Committed
    <2>3. TypeOK'
      BY <1>T, <1>5, <2>0, <2>1, <2>2 DEF TypeOK, LoadRaises, rows
    <2>4. Saved' = Saved
      BY <1>5 DEF Saved, LoadRaises, rows
    <2>5. NothingLost' /\ Carried'
      BY <1>T, <1>5, <2>1 DEF NothingLost, Carried, LoadRaises, rows
    <2>6. Committed'
      BY <1>T, <1>5, <2>0, <2>1, <2>2, <2>4 DEF Committed, LoadRaises, rows
    <2> QED BY <2>3, <2>5, <2>6 DEF IInv
  <1>6. ASSUME JobEnds PROVE IInv'
    <2>0. PICK b \in jobs, landed \in BOOLEAN :
            /\ jobs' = jobs \ {b}
            /\ warehouse' = IF landed THEN warehouse \cup b ELSE warehouse
      BY <1>6 DEF JobEnds
    <2>1. b \subseteq Events /\ b \subseteq Saved
      BY <1>T DEF TypeOK, Committed
    <2>2. warehouse \subseteq warehouse' /\ warehouse' \subseteq warehouse \cup b /\ jobs' \subseteq jobs
      BY <2>0
    <2>3. UNCHANGED <<status, id, exportedAt, lastId, clock, export>>
      BY <1>6 DEF JobEnds, rows
    <2>4. TypeOK'
      BY <1>T, <2>1, <2>2, <2>3 DEF TypeOK
    <2>5. Saved' = Saved
      BY <2>3 DEF Saved
    <2>6. NothingLost' /\ Carried' /\ Committed'
      BY <1>T, <2>1, <2>2, <2>3, <2>5 DEF NothingLost, Carried, Committed
    <2> QED BY <2>4, <2>6 DEF IInv
  <1>7. ASSUME NEW x \in Exporters, Mark(x) PROVE IInv'
    <2>0. /\ Marked(x) \subseteq warehouse
          /\ export[x].pc = "marking" /\ export[x].batch # {}
      BY <1>T, <1>7 DEF Mark, Marked, Carried, TypeOK, Busy, Idle
    <2>1. /\ export' \in [Exporters -> {Idle} \cup Busy]
          /\ \A y \in Exporters : export'[y].batch = export[y].batch
          /\ \A y \in Exporters \ {x} : export'[y] = export[y]
          /\ export'[x].pc = "pruning"
      BY <1>T, <1>7, <2>0, GotoType DEF Mark
    <2>2. TypeOK'
      BY <1>T, <1>7, <2>1 DEF TypeOK, Mark
    <2>3. Saved' = Saved
      BY <1>7 DEF Saved, Mark
    <2>4. NothingLost'
      BY <1>T, <1>7, <2>0 DEF NothingLost, Mark
    <2>5. Carried' /\ Committed'
      BY <1>T, <1>7, <2>1, <2>3 DEF Carried, Committed, Mark
    <2> QED BY <2>2, <2>4, <2>5 DEF IInv
  <1>8. ASSUME NEW x \in Exporters, Prune(x) PROVE IInv'
    <2>1. /\ export' \in [Exporters -> {Idle} \cup Busy]
          /\ \A y \in Exporters : export'[y].batch \subseteq export[y].batch
          /\ \A y \in Exporters \ {x} : export'[y] = export[y]
          /\ export'[x].pc = "idle"
      BY <1>T, <1>8, LeaveType DEF Prune
    <2>2. TypeOK'
      BY <1>T, <1>8, <2>1 DEF TypeOK, Prune
    <2>3. Saved' = Saved
      BY <1>T, <1>8 DEF Saved, Prune, Prunable, Stored, TypeOK
    <2>4. NothingLost'
      BY <1>T, <1>8 DEF NothingLost, Prune, Prunable, Stored, TypeOK
    <2>5. Carried' /\ Committed'
      BY <1>T, <1>8, <2>1, <2>3 DEF Carried, Committed, Prune
    <2> QED BY <2>2, <2>4, <2>5 DEF IInv
  <1>9. ASSUME NEW x \in Exporters, Dies(x) PROVE IInv'
    <2>1. /\ export' \in [Exporters -> {Idle} \cup Busy]
          /\ \A y \in Exporters : export'[y].batch \subseteq export[y].batch
          /\ \A y \in Exporters \ {x} : export'[y] = export[y]
          /\ export'[x].pc = "idle"
      BY <1>T, <1>9, LeaveType DEF Dies
    <2>2. TypeOK' /\ Saved' = Saved
      BY <1>T, <1>9, <2>1 DEF TypeOK, Dies, Saved, rows
    <2>3. NothingLost' /\ Carried' /\ Committed'
      BY <1>T, <1>9, <2>1, <2>2 DEF NothingLost, Carried, Committed, Dies, rows
    <2> QED BY <2>2, <2>3 DEF IInv
  <1>10. ASSUME Tick \/ UNCHANGED vars PROVE IInv'
    <2>1. TypeOK'
      BY <1>T, <1>10 DEF TypeOK, Tick, vars, rows
    <2>2. UNCHANGED <<status, exportedAt, warehouse, jobs, export>>
      BY <1>10 DEF Tick, vars, rows
    <2>3. NothingLost' /\ Carried' /\ Committed'
      BY <1>T, <2>2 DEF NothingLost, Carried, Committed, Saved
    <2> QED BY <2>1, <2>3 DEF IInv
  <1> QED BY <1>1, <1>2, <1>3, <1>4, <1>5, <1>6, <1>7, <1>8, <1>9, <1>10 DEF Next, Export

LEMMA Invariance == Spec => []IInv
  BY InitIInv, InvNext, PTL DEF Spec

(* Every variable of the outbox and of its exports keeps its type; only an *)
(* export that selected rows loads or marks.                               *)
THEOREM ExportTypeCorrect == Spec => []TypeOK
  <1>1. IInv => TypeOK
    BY DEF IInv
  <1> QED BY <1>1, Invariance, PTL

(* No event is marked exported, or pruned, that the warehouse does not     *)
(* have, whatever exports overlap, time out or die.                        *)
THEOREM ExportLosesNothing == Spec => []NothingLost
  <1>1. IInv => NothingLost
    BY DEF IInv
  <1> QED BY <1>1, Invariance, PTL

(* No event of a transaction that was rolled back reaches the warehouse.   *)
THEOREM ExportOnlyCommitted == Spec => []OnlyCommittedEvents
  <1>1. IInv => OnlyCommittedEvents
    BY DEF IInv, Committed, Saved, OnlyCommittedEvents
  <1> QED BY <1>1, Invariance, PTL
=============================================================================

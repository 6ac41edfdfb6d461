----------------------- MODULE WorkflowServiceProofs -----------------------
(***************************************************************************)
(* Proofs about WorkflowService for every number of owners, requests,      *)
(* workflows, titles and processes.                                        *)
(***************************************************************************)
EXTENDS WorkflowService, SequenceTheorems, TLAPS

-----------------------------------------------------------------------------
(* What the rules of a workflow preserve: the types of rows, of the todos  *)
(* a confirmation lists, and of the row an accepted command leaves.        *)

(* The todos a confirmation lists are a sequence of todo records with one  *)
(* element for each title.                                                 *)
LEMMA CreatedTodosType ==
    ASSUME NEW titles \in Seq(Titles), NEW base \in Nat
    PROVE  /\ CreatedTodos(titles, base) \in Seq(CreatedTodo)
           /\ Len(CreatedTodos(titles, base)) = Len(titles)
           /\ \A i \in 1..Len(titles) :
                CreatedTodos(titles, base)[i] = [id |-> base + i, title |-> titles[i]]
  <1>1. \A i \in 1..Len(titles) :
           [id |-> base + i, title |-> titles[i]] \in CreatedTodo
    BY DEF CreatedTodo
  <1>. QED  BY <1>1 DEF CreatedTodos

(* An initial row is a row.                                                *)
LEMMA InitialRowType ==
    ASSUME NEW o \in Owners, NEW t \in Titles
    PROVE  InitialRow(o, t) \in Row
  BY DEF InitialRow, Row, States, ActiveStates, Flags, CurrentVersion

(* A transition of a row is a row; it keeps owner, title, revision and     *)
(* version.                                                                *)
LEMMA TransitionType ==
    ASSUME NEW row \in Row, NEW c \in Command, Accepts(row.state, c)
    PROVE  /\ Transition(row, c) \in Row
           /\ Transition(row, c).owner = row.owner
           /\ Transition(row, c).title = row.title
           /\ Transition(row, c).version = row.version
           /\ TitlesToCreate(row, c) \in Seq(Titles)
  <1>1. NextState(row.state, c) \in States
    BY DEF NextState, States, ActiveStates, TerminalStates
  <1>2. NextFlag(row, c) \in Flags
    BY DEF NextFlag, Flags, Row
  <1>3. NextProposals(row, c) \in Seq(Titles)
    <2>1. c.kind = "submit" => c.titles \in Seq(Titles)
      BY BreakdownsAssumption DEF Command
    <2>2. <<row.title>> \in Seq(Titles) /\ row.proposals \in Seq(Titles)
      BY DEF Row
    <2>3. <<>> \in Seq(Titles)
      OBVIOUS
    <2>. QED  BY <2>1, <2>2, <2>3 DEF NextProposals
  <1>4. TitlesToCreate(row, c) \in Seq(Titles)
    BY DEF TitlesToCreate, Row
  <1>. QED  BY <1>1, <1>2, <1>3, <1>4 DEF Transition, Row

(* The row an accepted command leaves: a row, with the owner, title and    *)
(* version it had, one revision later.                                     *)
LEMMA AdvancedType ==
    ASSUME NEW row \in Row, NEW c \in Command, Accepts(row.state, c),
           NEW base \in Nat
    PROVE  /\ Advanced(row, c, base) \in Row
           /\ Advanced(row, c, base).owner = row.owner
           /\ Advanced(row, c, base).title = row.title
           /\ Advanced(row, c, base).version = row.version
           /\ Advanced(row, c, base).revision = row.revision + 1
           /\ Advanced(row, c, base).state = Transition(row, c).state
           /\ Advanced(row, c, base).flag = Transition(row, c).flag
           /\ Advanced(row, c, base).proposals = Transition(row, c).proposals
           /\ Advanced(row, c, base).created =
                CreatedTodos(TitlesToCreate(row, c), base)
  <1>. DEFINE tr == Transition(row, c)
              cr == CreatedTodos(TitlesToCreate(row, c), base)
              n  == row.revision + 1
              y  == [tr EXCEPT !.revision = n, !.created = cr]
  <1>1. cr \in Seq(CreatedTodo)
    BY TransitionType, CreatedTodosType
  <1>2. n \in Nat
    BY DEF Row
  <1>3. /\ tr \in Row
        /\ tr.owner = row.owner /\ tr.title = row.title /\ tr.version = row.version
    BY TransitionType
  <1>4. Advanced(row, c, base) = y
    BY DEF Advanced
  <1>5. /\ y \in Row
        /\ y.owner = tr.owner /\ y.title = tr.title /\ y.version = tr.version
        /\ y.state = tr.state /\ y.flag = tr.flag /\ y.proposals = tr.proposals
        /\ y.revision = n /\ y.created = cr
    <2>. HIDE DEF tr, cr, n
    <2>1. y \in Row
      BY <1>1, <1>2, <1>3 DEF Row
    <2>. QED  BY <1>1, <1>2, <1>3 DEF Row
  <1>. HIDE DEF y
  <1>. QED  BY <1>3, <1>4, <1>5

-----------------------------------------------------------------------------

(* A record of one shape is not a record of another: the transaction of a  *)
(* process is known by its pc.                                             *)
LEMMA TxnShapes ==
    ASSUME NEW t \in {Idle} \cup Starting \cup Advancing
    PROVE  /\ t.pc = "starting" => t \in Starting
           /\ t.pc = "locked" => t \in Advancing
           /\ t.pc = "idle" => t = Idle
  BY DEF Idle, Starting, Advancing

(* An advance that commits was accepted by the rules of its state.         *)
LEMMA AnswerAccept ==
    ASSUME NEW t, Answer(t) = "accept"
    PROVE  /\ t.entry = None
           /\ t.row.version = CurrentVersion
           /\ t.step = t.row.state
           /\ t.expected = t.row.revision
           /\ t.row.state \notin TerminalStates
           /\ ~(t.row.revision >= MaxRevision)
           /\ Accepts(t.row.state, t.command)
  BY DEF Answer

-----------------------------------------------------------------------------
LEMMA TypeInit == Init => TypeOK
  <1>. SUFFICES ASSUME Init PROVE TypeOK
    OBVIOUS
  <1>1. workflows \in [WorkflowIds -> Row \cup {None}]
    <2>1. PICK owner \in [UnsupportedIds -> Owners], t \in Titles :
             workflows = [w \in WorkflowIds |->
                 IF w \in UnsupportedIds
                 THEN [InitialRow(owner[w], t) EXCEPT !.version = CurrentVersion + 1]
                 ELSE None]
      BY DEF Init, InitialWorkflows
    <2>2. \A w \in UnsupportedIds :
             [InitialRow(owner[w], t) EXCEPT !.version = CurrentVersion + 1] \in Row
      BY InitialRowType DEF Row, CurrentVersion
    <2>. QED  BY <2>1, <2>2
  <1>. QED
    BY <1>1 DEF Init, TypeOK

(* Type correctness: every row, journal entry and open transaction is of   *)
(* its declared shape.                                                     *)
LEMMA TypeStep == TypeOK /\ [Next]_vars => TypeOK'
  <1>. SUFFICES ASSUME TypeOK, [Next]_vars PROVE TypeOK'
    OBVIOUS
  <1>1. ASSUME NEW p \in Processes, NEW o \in Owners, NEW r \in RequestIds,
               NEW t \in Titles, NEW w \in WorkflowIds, InsertStart(p, o, r, t, w)
        PROVE  TypeOK'
    BY <1>1 DEF InsertStart, TypeOK, dbVars, Starting
  <1>2. ASSUME NEW p \in Processes, CommitStart(p)
        PROVE  TypeOK'
    <2>1. txn[p] \in Starting
      BY <1>2, TxnShapes DEF CommitStart, TypeOK
    <2>2. InitialRow(txn[p].owner, txn[p].title) \in Row
      BY <2>1, InitialRowType DEF Starting
    <2>3. [title |-> txn[p].title, workflow |-> txn[p].workflow,
           snapshot |-> InitialRow(txn[p].owner, txn[p].title)] \in StartEntry
      BY <2>1, <2>2 DEF Starting, StartEntry
    <2>4. events' \in [EventNames \X WorkflowIds -> Nat]
      BY <1>2, <2>1 DEF CommitStart, TypeOK, Starting, EventNames
    <2>. QED
      BY <1>2, <2>1, <2>2, <2>3, <2>4 DEF CommitStart, TypeOK, Starting
  <1>3. ASSUME NEW p \in Processes, NEW o \in Owners, NEW w \in WorkflowIds,
               NEW r \in RequestIds, NEW m \in Payloads, LockAndRead(p, o, w, r, m)
        PROVE  TypeOK'
    <2>1. m \in Payload
      BY PayloadsAssumption
    <2>2. actionLog[<<o, w, r>>] \in ActionEntry \cup {None}
      BY DEF TypeOK, ActionKeys
    <2>3. workflows[w] \in Row
      BY <1>3 DEF LockAndRead, TypeOK
    <2>. QED
      BY <1>3, <2>1, <2>2, <2>3 DEF LockAndRead, TypeOK, dbVars, Advancing, Payload
  <1>4. ASSUME NEW p \in Processes, CommitAdvance(p)
        PROVE  TypeOK'
    <2>. DEFINE t == txn[p]
                new == Advanced(t.row, t.command, nextTodo)
                titles == TitlesToCreate(t.row, t.command)
    <2>1. t \in Advancing
      BY <1>4, TxnShapes DEF CommitAdvance, TypeOK
    <2>2. t.row \in Row /\ t.command \in Command /\ nextTodo \in Nat
      BY <2>1 DEF Advancing, TypeOK
    <2>3. Accepts(t.row.state, t.command)
      BY <1>4, AnswerAccept DEF CommitAdvance
    <2>4. new \in Row /\ titles \in Seq(Titles)
      BY <2>2, <2>3, AdvancedType, TransitionType
    <2>5. [expected |-> t.expected, step |-> t.step, command |-> t.command,
           snapshot |-> new] \in ActionEntry
      BY <2>1, <2>4, MaxRevisionAssumption DEF Advancing, ActionEntry
    <2>6. NewTodos(t.owner, titles, nextTodo) \in SUBSET Todo
      BY <2>1, <2>2, <2>4 DEF NewTodos, Todo, Advancing
    <2>7. nextTodo' \in Nat /\ todos' \in SUBSET Todo
      BY <1>4, <2>2, <2>4, <2>6 DEF CommitAdvance, TypeOK
    <2>8. events' \in [EventNames \X WorkflowIds -> Nat]
      BY <1>4, <2>1 DEF CommitAdvance, TypeOK, Advancing, EventNames
    <2>9. workflows' \in [WorkflowIds -> Row \cup {None}]
      BY <1>4, <2>1, <2>4 DEF CommitAdvance, TypeOK, Advancing
    <2>10. actionLog' \in [ActionKeys -> ActionEntry \cup {None}]
      BY <1>4, <2>1, <2>5 DEF CommitAdvance, TypeOK, Advancing, ActionKeys
    <2>. QED
      BY <1>4, <2>7, <2>8, <2>9, <2>10 DEF CommitAdvance, TypeOK
  <1>5. ASSUME NEW p \in Processes, EndAdvance(p) \/ Rollback(p)
        PROVE  TypeOK'
    BY <1>5 DEF EndAdvance, Rollback, TypeOK, dbVars
  <1>6. ASSUME UNCHANGED vars
        PROVE  TypeOK'
    BY <1>6 DEF vars, TypeOK
  <1>. QED
    BY <1>1, <1>2, <1>3, <1>4, <1>5, <1>6 DEF Next

THEOREM TypeCorrect == Spec => []TypeOK
  BY TypeInit, TypeStep, PTL DEF Spec
-----------------------------------------------------------------------------
(* What an open transaction has read or reserved is still so.  It is       *)
(* inductive only as a whole: that a locked row has not moved needs the    *)
(* lock to be exclusive, and that a reserved key or id is still free needs *)
(* reservations to be exclusive too.                                       *)
ReservedStaysFree ==
    \A p \in Processes : txn[p].pc = "starting" =>
        /\ startLog[<<txn[p].owner, txn[p].request>>] = None
        /\ workflows[txn[p].workflow] = None

ReservationsExclusive ==
    \A p, q \in Processes :
        p # q /\ txn[p].pc = "starting" /\ txn[q].pc = "starting" =>
            /\ <<txn[p].owner, txn[p].request>> # <<txn[q].owner, txn[q].request>>
            /\ txn[p].workflow # txn[q].workflow

ReadIsCurrent ==
    \A p \in Processes : txn[p].pc = "locked" =>
        /\ txn[p].row = workflows[txn[p].workflow]
        /\ txn[p].row.owner = txn[p].owner
        /\ txn[p].entry = actionLog[<<txn[p].owner, txn[p].workflow, txn[p].request>>]

LocksExclusive ==
    \A p, q \in Processes :
        p # q /\ txn[p].pc = "locked" /\ txn[q].pc = "locked" =>
            txn[p].workflow # txn[q].workflow

LockInv ==
    /\ ReservedStaysFree
    /\ ReservationsExclusive
    /\ ReadIsCurrent
    /\ LocksExclusive

LEMMA LockInit == Init => LockInv
  BY DEF Init, Idle, LockInv, ReservedStaysFree, ReservationsExclusive,
         ReadIsCurrent, LocksExclusive

LEMMA LockStep == TypeOK /\ LockInv /\ [Next]_vars => LockInv'
  <1>. SUFFICES ASSUME TypeOK, LockInv, [Next]_vars PROVE LockInv'
    OBVIOUS
  <1>. USE DEF LockInv
  <1>0. \A q \in Processes :
          /\ txn[q].pc = "starting" => txn[q] \in Starting
          /\ txn[q].pc = "locked" => txn[q] \in Advancing
    BY TxnShapes DEF TypeOK
  <1>1. ASSUME NEW p \in Processes, NEW o \in Owners, NEW r \in RequestIds,
               NEW t \in Titles, NEW w \in WorkflowIds, InsertStart(p, o, r, t, w)
        PROVE  LockInv'
    <2>1. ReservedStaysFree'
      BY <1>1 DEF InsertStart, TypeOK, ReservedStaysFree, dbVars, StartKeyTaken,
                  FreshWorkflow
    <2>2. ReservationsExclusive'
      BY <1>1 DEF InsertStart, TypeOK, ReservationsExclusive, StartKeyTaken,
                  FreshWorkflow
    <2>3. ReadIsCurrent'
      BY <1>1 DEF InsertStart, TypeOK, ReadIsCurrent, dbVars
    <2>4. LocksExclusive'
      BY <1>1 DEF InsertStart, TypeOK, LocksExclusive
    <2>. QED  BY <2>1, <2>2, <2>3, <2>4
  <1>2. ASSUME NEW p \in Processes, CommitStart(p)
        PROVE  LockInv'
    <2>1. /\ txn'[p].pc = "idle"
          /\ \A q \in Processes : q # p => txn'[q] = txn[q]
      BY <1>2 DEF CommitStart, TypeOK, Idle
    <2>2. ReservedStaysFree'
      BY <1>2, <1>0, <2>1 DEF CommitStart, TypeOK, ReservedStaysFree,
                              ReservationsExclusive, Starting, StartKeys
    <2>3. ReservationsExclusive'
      BY <2>1 DEF ReservationsExclusive
    <2>4. ReadIsCurrent'
      <3>1. ASSUME NEW q \in Processes, txn'[q].pc = "locked"
            PROVE  workflows'[txn[q].workflow] = workflows[txn[q].workflow]
        <4>1. txn[q] \in Advancing /\ txn[q].row = workflows[txn[q].workflow]
          BY <1>0, <2>1, <3>1 DEF ReadIsCurrent
        <4>2. workflows[txn[q].workflow] # None
          BY <4>1, NoneAssumption DEF Advancing
        <4>3. txn[p].workflow # txn[q].workflow
          BY <1>2, <4>2 DEF CommitStart, ReservedStaysFree
        <4>. QED  BY <1>2, <4>1, <4>3 DEF CommitStart, TypeOK, Advancing
      <3>. QED
        BY <1>2, <2>1, <3>1 DEF CommitStart, ReadIsCurrent
    <2>5. LocksExclusive'
      BY <2>1 DEF LocksExclusive
    <2>. QED  BY <2>2, <2>3, <2>4, <2>5
  <1>3. ASSUME NEW p \in Processes, NEW o \in Owners, NEW w \in WorkflowIds,
               NEW r \in RequestIds, NEW m \in Payloads, LockAndRead(p, o, w, r, m)
        PROVE  LockInv'
    <2>1. ReservedStaysFree' /\ ReservationsExclusive'
      BY <1>3 DEF LockAndRead, TypeOK, ReservedStaysFree, ReservationsExclusive, dbVars
    <2>2. ReadIsCurrent'
      BY <1>3 DEF LockAndRead, TypeOK, ReadIsCurrent, dbVars
    <2>3. LocksExclusive'
      BY <1>3 DEF LockAndRead, TypeOK, LocksExclusive, RowLocked
    <2>. QED  BY <2>1, <2>2, <2>3
  <1>4. ASSUME NEW p \in Processes, CommitAdvance(p)
        PROVE  LockInv'
    <2>1. /\ txn'[p].pc = "idle"
          /\ \A q \in Processes : q # p => txn'[q] = txn[q]
      BY <1>4 DEF CommitAdvance, TypeOK, Idle
    <2>2. /\ txn[p] \in Advancing
          /\ workflows[txn[p].workflow] # None
      BY <1>0, <1>4, NoneAssumption DEF CommitAdvance, ReadIsCurrent, Advancing
    <2>3. ReservedStaysFree'
      BY <1>0, <1>4, <2>1, <2>2 DEF CommitAdvance, TypeOK, ReservedStaysFree, Starting
    <2>4. ReservationsExclusive'
      BY <2>1 DEF ReservationsExclusive
    <2>5. ReadIsCurrent'
      <3>1. ASSUME NEW q \in Processes, txn'[q].pc = "locked"
            PROVE  /\ workflows'[txn[q].workflow] = workflows[txn[q].workflow]
                   /\ actionLog'[<<txn[q].owner, txn[q].workflow, txn[q].request>>] =
                        actionLog[<<txn[q].owner, txn[q].workflow, txn[q].request>>]
        <4>1. q # p /\ txn[q].pc = "locked" /\ txn[q] \in Advancing
          BY <1>0, <2>1, <3>1
        <4>2. txn[q].workflow # txn[p].workflow
          BY <1>4, <4>1 DEF CommitAdvance, LocksExclusive
        <4>. QED
          BY <1>4, <4>1, <4>2 DEF CommitAdvance, TypeOK, Advancing, ActionKeys
      <3>. QED
        BY <2>1, <3>1 DEF ReadIsCurrent
    <2>6. LocksExclusive'
      BY <2>1 DEF LocksExclusive
    <2>. QED  BY <2>3, <2>4, <2>5, <2>6
  <1>5. ASSUME NEW p \in Processes, EndAdvance(p) \/ Rollback(p)
        PROVE  LockInv'
    <2>1. /\ txn'[p].pc = "idle"
          /\ \A q \in Processes : q # p => txn'[q] = txn[q]
          /\ UNCHANGED dbVars
      BY <1>5 DEF EndAdvance, Rollback, TypeOK, Idle
    <2>. QED
      BY <2>1 DEF dbVars, ReservedStaysFree, ReservationsExclusive, ReadIsCurrent,
                  LocksExclusive
  <1>6. ASSUME UNCHANGED vars
        PROVE  LockInv'
    BY <1>6 DEF vars, ReservedStaysFree, ReservationsExclusive, ReadIsCurrent,
                LocksExclusive
  <1>. QED
    BY <1>1, <1>2, <1>3, <1>4, <1>5, <1>6 DEF Next

THEOREM LocksCorrect == Spec => []LockInv
  BY TypeCorrect, LockInit, LockStep, PTL DEF Spec

(* An advance never decides on stale rows: the decision it makes is the    *)
(* decision the committed rows call for, until it ends.                    *)
THEOREM AnswerNeverStale == Spec => []AnswerNotStale
  <1>1. TypeOK /\ LockInv => AnswerNotStale
    <2>. SUFFICES ASSUME TypeOK, LockInv, NEW p \in Processes, txn[p].pc = "locked"
                  PROVE  [txn[p] EXCEPT
                            !.row   = workflows[txn[p].workflow],
                            !.entry = actionLog[<<txn[p].owner, txn[p].workflow,
                                                  txn[p].request>>]] = txn[p]
      BY DEF AnswerNotStale
    <2>1. txn[p] \in Advancing
      BY TxnShapes DEF TypeOK
    <2>. QED  BY <2>1 DEF LockInv, ReadIsCurrent, Advancing
  <1>. QED  BY <1>1, TypeCorrect, LocksCorrect, PTL
-----------------------------------------------------------------------------
(* The contract computes the rows of an accepted request as the service    *)
(* does.                                                                   *)
LEMMA SameRows ==
    /\ Contract!CurrentVersion = CurrentVersion
    /\ \A o, t : Contract!InitialRow(o, t) = InitialRow(o, t)
    /\ \A row, c, base : Contract!Advanced(row, c, base) = Advanced(row, c, base)
    /\ \A row, c : Contract!TitlesToCreate(row, c) = TitlesToCreate(row, c)
    /\ \A o, titles, base : Contract!NewTodos(o, titles, base) = NewTodos(o, titles, base)
    /\ \A s, c : Contract!Accepts(s, c) = Accepts(s, c)
    /\ Contract!Command = Command
  <1>1. \A s, c : Contract!Accepts(s, c) = Accepts(s, c)
    BY DEF Contract!Accepts, Accepts, Contract!ActiveStates, ActiveStates
  <1>2. \A row, c : Contract!TitlesToCreate(row, c) = TitlesToCreate(row, c)
    BY DEF Contract!TitlesToCreate, TitlesToCreate
  <1>3. \A row, c : Contract!Transition(row, c) = Transition(row, c)
    BY DEF Contract!Transition, Transition, Contract!NextState, NextState,
           Contract!NextFlag, NextFlag, Contract!NextProposals, NextProposals
  <1>4. \A titles, base :
           Contract!CreatedTodos(titles, base) = CreatedTodos(titles, base)
    BY DEF Contract!CreatedTodos, CreatedTodos
  <1>5. \A row, c, base : Contract!Advanced(row, c, base) = Advanced(row, c, base)
    BY <1>2, <1>3, <1>4 DEF Contract!Advanced, Advanced
  <1>6. \A o, titles, base :
           Contract!NewTodos(o, titles, base) = NewTodos(o, titles, base)
    BY DEF Contract!NewTodos, NewTodos
  <1>7. /\ Contract!CurrentVersion = CurrentVersion
        /\ \A o, t : Contract!InitialRow(o, t) = InitialRow(o, t)
        /\ Contract!Command = Command
    BY DEF Contract!CurrentVersion, CurrentVersion, Contract!InitialRow, InitialRow,
           Contract!Command, Command
  <1>. QED  BY <1>1, <1>2, <1>5, <1>6, <1>7

LEMMA ContractInitially == Init => Contract!ContractInit
  <1>1. Contract!InitialWorkflows = InitialWorkflows
    BY DEF Contract!InitialWorkflows, InitialWorkflows, Contract!InitialRow,
           InitialRow, Contract!CurrentVersion, CurrentVersion
  <1>. QED
    BY <1>1 DEF Init, Contract!ContractInit, Contract!StartKeys, StartKeys,
                Contract!ActionKeys, ActionKeys, Contract!EventNames, EventNames

(* Only the two commits change committed rows, and each is one step of the *)
(* contract.                                                               *)
LEMMA ContractStep ==
    TypeOK /\ LockInv /\ [Next]_vars => [Contract!ContractNext]_(Contract!contractVars)
  <1>. SUFFICES ASSUME TypeOK, LockInv, [Next]_vars
                PROVE  Contract!ContractNext \/ UNCHANGED dbVars
    BY DEF Contract!contractVars, dbVars
  <1>1. ASSUME NEW p \in Processes, CommitStart(p)
        PROVE  Contract!ContractNext
    <2>. DEFINE t == txn[p]
    <2>1. t \in Starting
      BY <1>1, TxnShapes DEF CommitStart, TypeOK
    <2>2. /\ startLog[<<t.owner, t.request>>] = None
          /\ workflows[t.workflow] = None
      BY <1>1 DEF CommitStart, LockInv, ReservedStaysFree
    <2>3. Contract!AcceptStart(t.owner, t.request, t.title, t.workflow)
      BY <1>1, <2>2, SameRows DEF CommitStart, Contract!AcceptStart
    <2>4. /\ t.owner \in Owners /\ t.request \in RequestIds
          /\ t.title \in Titles /\ t.workflow \in WorkflowIds
      BY <2>1 DEF Starting
    <2>. QED  BY <2>3, <2>4 DEF Contract!ContractNext
  <1>2. ASSUME NEW p \in Processes, CommitAdvance(p)
        PROVE  Contract!ContractNext
    <2>. DEFINE t == txn[p]
    <2>1. t \in Advancing
      BY <1>2, TxnShapes DEF CommitAdvance, TypeOK
    <2>2. /\ t.row = workflows[t.workflow] /\ t.row.owner = t.owner
          /\ t.entry = actionLog[<<t.owner, t.workflow, t.request>>]
      BY <1>2 DEF CommitAdvance, LockInv, ReadIsCurrent
    <2>3. t.row \in Row /\ t.row # None
      BY <2>1, NoneAssumption DEF Advancing
    <2>4. /\ t.entry = None /\ t.row.version = CurrentVersion
          /\ t.step = t.row.state /\ t.expected = t.row.revision
          /\ ~(t.row.revision >= MaxRevision)
          /\ Accepts(t.row.state, t.command)
      BY <1>2, AnswerAccept DEF CommitAdvance
    <2>5. t.row.revision < MaxRevision
      BY SMTT(30), <2>3, <2>4, MaxRevisionAssumption DEF Row
    <2>6. Contract!AcceptAction(t.owner, t.workflow, t.request, t.command)
      BY <1>2, <2>2, <2>3, <2>4, <2>5, SameRows
         DEF CommitAdvance, Contract!AcceptAction
    <2>7. /\ t.owner \in Owners /\ t.request \in RequestIds
          /\ t.command \in Contract!Command /\ t.workflow \in WorkflowIds
      BY <2>1, SameRows DEF Advancing
    <2>. QED  BY <2>6, <2>7 DEF Contract!ContractNext
  <1>3. ASSUME NEW p \in Processes,
               \/ \E o \in Owners, r \in RequestIds, t \in Titles, w \in WorkflowIds :
                    InsertStart(p, o, r, t, w)
               \/ \E o \in Owners, w \in WorkflowIds, r \in RequestIds, m \in Payloads :
                    LockAndRead(p, o, w, r, m)
               \/ EndAdvance(p)
               \/ Rollback(p)
        PROVE  UNCHANGED dbVars
    BY <1>3 DEF InsertStart, LockAndRead, EndAdvance, Rollback
  <1>4. UNCHANGED vars => UNCHANGED dbVars
    BY DEF vars, dbVars
  <1>. QED
    BY <1>1, <1>2, <1>3, <1>4 DEF Next

(* The service implements its contract: whatever transactions interleave,  *)
(* crash or are retried, the committed rows change only by whole accepted  *)
(* requests, each at most once.                                            *)
THEOREM ContractImplemented == Spec => ImplementsContract
  BY TypeCorrect, LocksCorrect, ContractInitially, ContractStep, PTL
     DEF Spec, ImplementsContract, Contract!ContractSpec

-----------------------------------------------------------------------------
(* The rows themselves are valid snapshots as long as the service knows    *)
(* their version; the journal copies them.                                 *)
RowsReadable ==
    \A w \in WorkflowIds : workflows[w] # None => ValidSnapshot(workflows[w])

LEMMA InitialRowValid ==
    ASSUME NEW o, NEW t
    PROVE  ValidSnapshot(InitialRow(o, t))
  BY MaxRevisionAssumption
     DEF ValidSnapshot, InitialRow, ValidContext, ValidCreated, CurrentVersion

(* The transition rules never leave a row the stored-snapshot validation   *)
(* would refuse.                                                           *)
LEMMA AdvancedValid ==
    ASSUME NEW row \in Row, NEW c \in Command, NEW base \in Nat,
           Accepts(row.state, c), row.revision < MaxRevision, ValidSnapshot(row)
    PROVE  ValidSnapshot(Advanced(row, c, base))
  <1>. DEFINE new == Advanced(row, c, base)
              titles == TitlesToCreate(row, c)
  <1>1. /\ new.title = row.title /\ new.version = row.version
        /\ new.revision = row.revision + 1
        /\ new.state = NextState(row.state, c)
        /\ new.flag = NextFlag(row, c)
        /\ new.proposals = NextProposals(row, c)
        /\ new.created = CreatedTodos(titles, base)
    <2>1. /\ Transition(row, c).state = NextState(row.state, c)
          /\ Transition(row, c).flag = NextFlag(row, c)
          /\ Transition(row, c).proposals = NextProposals(row, c)
      BY DEF Transition, Row
    <2>. QED  BY <2>1, AdvancedType
  <1>2. new.revision <= MaxRevision /\ new.version >= 1
    BY <1>1, MaxRevisionAssumption DEF ValidSnapshot, Row
  <1>3. titles \in Seq(Titles)
    BY TransitionType
  <1>4. c.kind = "submit" =>
           c.titles \in Seq(Titles) /\ Len(c.titles) \in MinTitles..MaxTitles
    BY BreakdownsAssumption DEF Command
  <1>. HIDE DEF new, titles
  <1>5. ValidContext(new)
    <2>1. ValidContext(row) /\ row.proposals \in Seq(Titles)
      BY DEF ValidSnapshot, Row
    <2>2. row.proposals = <<>> => Len(row.proposals) = 0
      OBVIOUS
    <2>3. CASE c.kind = "cancel"
      <3>1. /\ new.state = "CANCELLED" /\ new.flag = row.flag
            /\ new.proposals = row.proposals
        BY <2>3, <1>1 DEF NextState, NextFlag, NextProposals
      <3>2. row.state \in ActiveStates
        BY <2>3 DEF Accepts
      <3>3. LoneProposalIsTitle(new)
        BY <1>1, <2>1, <2>2, <3>1, <3>2
           DEF ValidContext, LoneProposalIsTitle, ActiveStates
      <3>4. CASE row.state = "ASSESS_TASK"
        BY <2>1, <3>1, <3>3, <3>4 DEF ValidContext
      <3>5. CASE row.state \in {"OFFER_BREAKDOWN", "COLLECT_TASKS"}
        BY <2>1, <2>2, <3>1, <3>3, <3>5 DEF ValidContext, MaxTitles
      <3>6. CASE row.state = "REVIEW"
        <4>1. Len(row.proposals) \in Nat
          BY <2>1
        <4>2. \/ row.flag = "no" /\ Len(row.proposals) = 1
              \/ row.flag = "yes" /\ Len(row.proposals) \in 1..MaxTitles
          BY <2>1, <3>6 DEF ValidContext
        <4>3. Len(row.proposals) \in 1..MaxTitles => Len(row.proposals) <= MaxTitles
          <5>1. \A n \in Nat : n \in 1..MaxTitles => n <= MaxTitles
            BY DEF MaxTitles
          <5>. QED  BY <4>1, <5>1, Zenon
        <4>. QED  BY <3>1, <3>3, <4>2, <4>3 DEF ValidContext
      <3>. QED  BY <3>2, <3>4, <3>5, <3>6 DEF ActiveStates
    <2>4. CASE c.kind = "confirm"
      <3>1. /\ new.state = "COMPLETED" /\ new.flag = row.flag
            /\ new.proposals = row.proposals
        BY <2>4, <1>1 DEF NextState, NextFlag, NextProposals
      <3>2. row.state = "REVIEW"
        BY <2>4 DEF Accepts
      <3>. QED
        BY <1>1, <2>1, <3>1, <3>2 DEF ValidContext, LoneProposalIsTitle
    <2>5. CASE c.kind = "submit"
      <3>1. /\ new.state = "REVIEW" /\ new.flag = row.flag
            /\ new.proposals = c.titles
        BY <2>5, <1>1 DEF NextState, NextFlag, NextProposals
      <3>2. row.state = "COLLECT_TASKS" /\ row.flag = "yes"
        BY <2>1, <2>5 DEF Accepts, ValidContext
      <3>3. Len(c.titles) \in 2..10
        BY <1>4, <2>5 DEF MinTitles, MaxTitles
      <3>. QED
        BY <3>1, <3>2, <3>3 DEF ValidContext, LoneProposalIsTitle, MaxTitles
    <2>6. CASE c.kind = "answer" /\ c.answer
      <3>1. /\ new.state \in {"OFFER_BREAKDOWN", "COLLECT_TASKS"}
            /\ new.proposals = <<>>
        BY <2>6, <1>1 DEF NextState, NextProposals
      <3>2. new.flag = "yes"
        BY <2>1, <2>6, <1>1 DEF NextFlag, Accepts, ValidContext
      <3>. QED  BY <3>1, <3>2 DEF ValidContext
    <2>7. CASE c.kind = "answer" /\ ~c.answer
      <3>1. new.state = "REVIEW" /\ new.proposals = <<row.title>>
        BY <2>7, <1>1 DEF NextState, NextProposals
      <3>2. new.flag \in {"yes", "no"}
        BY <2>1, <2>7, <1>1 DEF NextFlag, Accepts, ValidContext
      <3>. QED
        BY <1>1, <3>1, <3>2 DEF ValidContext, LoneProposalIsTitle, MaxTitles
    <2>. QED  BY <2>3, <2>4, <2>5, <2>6, <2>7 DEF Command
  <1>6. ValidCreated(new)
    <2>1. CASE c.kind = "confirm"
      <3>1. new.state = "COMPLETED" /\ new.proposals = row.proposals
        BY <2>1, <1>1 DEF NextState, NextProposals
      <3>2. titles = row.proposals
        BY <2>1 DEF titles, TitlesToCreate
      <3>3. Len(row.proposals) >= 1
        <4>1. row.state = "REVIEW" /\ ValidContext(row)
          BY <2>1 DEF Accepts, ValidSnapshot
        <4>2. Len(row.proposals) = 1 \/ Len(row.proposals) \in 1..MaxTitles
          BY <4>1 DEF ValidContext
        <4>3. \A n : n = 1 \/ n \in 1..MaxTitles => n >= 1
          BY DEF MaxTitles
        <4>. QED  BY <4>2, <4>3, Zenon
      <3>4. /\ Len(new.created) = Len(titles)
            /\ \A i \in 1..Len(titles) : new.created[i].title = titles[i]
        <4>1. /\ Len(CreatedTodos(titles, base)) = Len(titles)
              /\ \A i \in 1..Len(titles) : CreatedTodos(titles, base)[i] =
                    [id |-> base + i, title |-> titles[i]]
          BY <1>3, CreatedTodosType
        <4>2. ASSUME NEW i \in 1..Len(titles)
              PROVE  CreatedTodos(titles, base)[i].title = titles[i]
          <5>1. CreatedTodos(titles, base)[i] = [id |-> base + i, title |-> titles[i]]
            BY <4>1
          <5>. QED  BY <5>1
        <4>. QED  BY <1>1, <4>1, <4>2
      <3>5. new.created # <<>>
        BY <3>2, <3>3, <3>4
      <3>. QED  BY <3>1, <3>2, <3>4, <3>5 DEF ValidCreated
    <2>2. CASE c.kind # "confirm"
      <3>1. new.state # "COMPLETED"
        BY <2>2, <1>1 DEF NextState
      <3>2. titles = <<>>
        BY <2>2 DEF titles, TitlesToCreate
      <3>3. new.created = <<>>
        <4>1. /\ CreatedTodos(titles, base) \in Seq(CreatedTodo)
              /\ Len(CreatedTodos(titles, base)) = Len(titles)
          BY <1>3, CreatedTodosType
        <4>2. Len(titles) = 0
          BY <3>2
        <4>. QED  BY <1>1, <4>1, <4>2, EmptySeq
      <3>. QED  BY <3>1, <3>3 DEF ValidCreated
    <2>. QED  BY <2>1, <2>2
  <1>. QED  BY <1>2, <1>5, <1>6 DEF ValidSnapshot, new

LEMMA ReadableInit == Init => RowsReadable /\ JournalReadable
  <1>. SUFFICES ASSUME Init PROVE RowsReadable /\ JournalReadable
    OBVIOUS
  <1>1. RowsReadable
    <2>1. PICK owner \in [UnsupportedIds -> Owners], t \in Titles :
             workflows = [w \in WorkflowIds |->
                 IF w \in UnsupportedIds
                 THEN [InitialRow(owner[w], t) EXCEPT !.version = CurrentVersion + 1]
                 ELSE None]
      BY DEF Init, InitialWorkflows
    <2>2. ASSUME NEW o, NEW row,
                 row = [InitialRow(o, t) EXCEPT !.version = CurrentVersion + 1]
          PROVE  ValidSnapshot(row)
      <3>1. /\ row.state = "ASSESS_TASK" /\ row.flag = "none"
            /\ row.proposals = <<>> /\ row.created = <<>>
            /\ row.revision = 0 /\ row.version = 2
        BY <2>2 DEF InitialRow, CurrentVersion
      <3>. QED
        BY <3>1, MaxRevisionAssumption DEF ValidSnapshot, ValidContext, ValidCreated
    <2>. QED  BY <2>1, <2>2 DEF RowsReadable
  <1>. QED  BY <1>1 DEF Init, JournalReadable

LEMMA ReadableStep ==
    TypeOK /\ LockInv /\ RowsReadable /\ JournalReadable /\ [Next]_vars
        => RowsReadable' /\ JournalReadable'
  <1>. SUFFICES ASSUME TypeOK, LockInv, RowsReadable, JournalReadable, [Next]_vars
                PROVE  RowsReadable' /\ JournalReadable'
    OBVIOUS
  <1>1. ASSUME NEW p \in Processes, CommitStart(p)
        PROVE  RowsReadable' /\ JournalReadable'
    BY <1>1, InitialRowValid DEF CommitStart, TypeOK, RowsReadable, JournalReadable
  <1>2. ASSUME NEW p \in Processes, CommitAdvance(p)
        PROVE  RowsReadable' /\ JournalReadable'
    <2>. DEFINE t == txn[p]
                new == Advanced(t.row, t.command, nextTodo)
    <2>1. t \in Advancing /\ nextTodo \in Nat
      BY <1>2, TxnShapes DEF CommitAdvance, TypeOK
    <2>2. /\ t.row \in Row /\ t.row # None /\ t.command \in Command
          /\ t.workflow \in WorkflowIds /\ t.row = workflows[t.workflow]
      BY <1>2, <2>1, NoneAssumption DEF CommitAdvance, LockInv, ReadIsCurrent, Advancing
    <2>3. Accepts(t.row.state, t.command) /\ t.row.revision < MaxRevision
      BY <1>2, <2>2, AnswerAccept, MaxRevisionAssumption DEF CommitAdvance, Row
    <2>4. ValidSnapshot(new)
      BY <2>1, <2>2, <2>3, AdvancedValid DEF RowsReadable
    <2>5. /\ workflows' = [workflows EXCEPT ![t.workflow] = new]
          /\ actionLog' = [actionLog EXCEPT ![<<t.owner, t.workflow, t.request>>] =
                             [expected |-> t.expected, step |-> t.step,
                              command |-> t.command, snapshot |-> new]]
          /\ startLog' = startLog
      BY <1>2 DEF CommitAdvance
    <2>. HIDE DEF t, new
    <2>6. RowsReadable'
      BY <2>4, <2>5 DEF RowsReadable, TypeOK
    <2>7. JournalReadable'
      BY <2>4, <2>5 DEF JournalReadable, TypeOK
    <2>. QED  BY <2>6, <2>7
  <1>3. ASSUME NEW p \in Processes,
               \/ \E o \in Owners, r \in RequestIds, t \in Titles, w \in WorkflowIds :
                    InsertStart(p, o, r, t, w)
               \/ \E o \in Owners, w \in WorkflowIds, r \in RequestIds, m \in Payloads :
                    LockAndRead(p, o, w, r, m)
               \/ EndAdvance(p)
               \/ Rollback(p)
        PROVE  UNCHANGED dbVars
    BY <1>3 DEF InsertStart, LockAndRead, EndAdvance, Rollback
  <1>4. UNCHANGED vars => UNCHANGED dbVars
    BY DEF vars, dbVars
  <1>5. UNCHANGED dbVars => RowsReadable' /\ JournalReadable'
    BY DEF dbVars, RowsReadable, JournalReadable
  <1>. QED
    BY <1>1, <1>2, <1>3, <1>4, <1>5 DEF Next

(* A retry of an accepted request is never refused because of what the     *)
(* service stored for it.                                                  *)
THEOREM JournalAlwaysReadable == Spec => []JournalReadable
  <1>1. Spec => [](RowsReadable /\ JournalReadable)
    BY TypeCorrect, LocksCorrect, ReadableInit, ReadableStep, PTL DEF Spec
  <1>. QED  BY <1>1, PTL

-----------------------------------------------------------------------------
(* Histories: what the committed rows say of each other.  The journal is   *)
(* the history of the rows, the todos are the ones the completed workflows *)
(* list, and the outbox counts what happened.                              *)
(*                                                                         *)
(* None of it depends on how transactions interleave once it is known that *)
(* the rows change by whole commits only: OnlyCommits says so, and all the *)
(* rest is about StartCommits and ActionCommits.                           *)

(* A start of which the commit is seen.                                    *)
StartCommits(o, r, t, w) ==
    /\ startLog[<<o, r>>] = None
    /\ workflows[w] = None
    /\ workflows' = [workflows EXCEPT ![w] = InitialRow(o, t)]
    /\ startLog' = [startLog EXCEPT ![<<o, r>>] =
                      [title |-> t, workflow |-> w, snapshot |-> InitialRow(o, t)]]
    /\ events' = [events EXCEPT ![<<"workflow_started", w>>] = @ + 1]
    /\ UNCHANGED <<actionLog, todos, nextTodo>>

(* An advance from `row' to `new'.                                         *)
ActionCommits(o, w, r, c, row, new) ==
    /\ row = workflows[w]
    /\ row \in Row
    /\ row.owner = o
    /\ row.version = CurrentVersion
    /\ row.revision < MaxRevision
    /\ Accepts(row.state, c)
    /\ actionLog[<<o, w, r>>] = None
    /\ new = Advanced(row, c, nextTodo)
    /\ workflows' = [workflows EXCEPT ![w] = new]
    /\ actionLog' = [actionLog EXCEPT ![<<o, w, r>>] =
                       [expected |-> row.revision, step |-> row.state,
                        command |-> c, snapshot |-> new]]
    /\ todos' = todos \cup NewTodos(o, TitlesToCreate(row, c), nextTodo)
    /\ nextTodo' = nextTodo + Len(TitlesToCreate(row, c))
    /\ events' = IF new.state = "COMPLETED"
                 THEN [events EXCEPT ![<<"workflow_completed", w>>] = @ + 1]
                 ELSE events
    /\ UNCHANGED startLog

LEMMA OnlyCommits ==
    ASSUME TypeOK, LockInv, [Next]_vars
    PROVE  \/ UNCHANGED dbVars
           \/ \E o \in Owners, r \in RequestIds, t \in Titles, w \in WorkflowIds :
                 StartCommits(o, r, t, w)
           \/ \E o \in Owners, w \in WorkflowIds, r \in RequestIds, c \in Command :
                 \E row, new : ActionCommits(o, w, r, c, row, new)
  <1>1. ASSUME NEW p \in Processes, CommitStart(p)
        PROVE  \E o \in Owners, r \in RequestIds, t \in Titles, w \in WorkflowIds :
                  StartCommits(o, r, t, w)
    <2>1. /\ txn[p] \in Starting
          /\ startLog[<<txn[p].owner, txn[p].request>>] = None
          /\ workflows[txn[p].workflow] = None
      BY <1>1, TxnShapes DEF CommitStart, TypeOK, LockInv, ReservedStaysFree
    <2>2. StartCommits(txn[p].owner, txn[p].request, txn[p].title, txn[p].workflow)
      BY <1>1, <2>1 DEF CommitStart, StartCommits
    <2>. QED  BY <2>1, <2>2 DEF Starting
  <1>2. ASSUME NEW p \in Processes, CommitAdvance(p)
        PROVE  \E o \in Owners, w \in WorkflowIds, r \in RequestIds, c \in Command :
                  \E row, new : ActionCommits(o, w, r, c, row, new)
    <2>. DEFINE t == txn[p]
    <2>1. /\ t \in Advancing
          /\ t.row = workflows[t.workflow] /\ t.row.owner = t.owner
          /\ t.entry = actionLog[<<t.owner, t.workflow, t.request>>]
      BY <1>2, TxnShapes DEF CommitAdvance, TypeOK, LockInv, ReadIsCurrent
    <2>2. /\ t.row \in Row
          /\ t.owner \in Owners /\ t.workflow \in WorkflowIds
          /\ t.request \in RequestIds /\ t.command \in Command
      BY <2>1 DEF Advancing
    <2>3. /\ t.entry = None /\ t.row.version = CurrentVersion
          /\ t.step = t.row.state /\ t.expected = t.row.revision
          /\ ~(t.row.revision >= MaxRevision)
          /\ Accepts(t.row.state, t.command)
      BY <1>2, AnswerAccept DEF CommitAdvance
    <2>4. t.row.revision < MaxRevision
      BY <2>2, <2>3, MaxRevisionAssumption DEF Row
    <2>5. ActionCommits(t.owner, t.workflow, t.request, t.command, t.row,
                        Advanced(t.row, t.command, nextTodo))
      BY <1>2, <2>1, <2>2, <2>3, <2>4 DEF CommitAdvance, ActionCommits
    <2>. QED  BY <2>2, <2>5
  <1>3. ASSUME NEW p \in Processes,
               \/ \E o \in Owners, r \in RequestIds, t \in Titles, w \in WorkflowIds :
                    InsertStart(p, o, r, t, w)
               \/ \E o \in Owners, w \in WorkflowIds, r \in RequestIds, m \in Payloads :
                    LockAndRead(p, o, w, r, m)
               \/ EndAdvance(p)
               \/ Rollback(p)
        PROVE  UNCHANGED dbVars
    BY <1>3 DEF InsertStart, LockAndRead, EndAdvance, Rollback
  <1>4. UNCHANGED vars => UNCHANGED dbVars
    BY DEF vars, dbVars
  <1>. QED  BY <1>1, <1>2, <1>3, <1>4 DEF Next

(* What an advance does to its row.                                        *)
LEMMA ActionFacts ==
    ASSUME TypeOK, NEW o \in Owners, NEW w \in WorkflowIds, NEW r \in RequestIds,
           NEW c \in Command, NEW row, NEW new, ActionCommits(o, w, r, c, row, new)
    PROVE  /\ row = workflows[w] /\ startLog' = startLog
           /\ new \in Row /\ new # None /\ row # None
           /\ new.owner = row.owner /\ new.version = row.version
           /\ new.revision = row.revision + 1 /\ row.revision \in Nat
           /\ row.state # "COMPLETED"
           /\ TitlesToCreate(row, c) \in Seq(Titles)
           /\ new.created = CreatedTodos(TitlesToCreate(row, c), nextTodo)
           /\ nextTodo \in Nat /\ nextTodo' \in Nat /\ nextTodo <= nextTodo'
           /\ workflows'[w] = new
           /\ \A v \in WorkflowIds : v # w => workflows'[v] = workflows[v]
  <1>1. row \in Row /\ Accepts(row.state, c) /\ nextTodo \in Nat
    BY DEF ActionCommits, TypeOK
  <1>2. /\ new \in Row
        /\ new.owner = row.owner /\ new.version = row.version
        /\ new.revision = row.revision + 1
        /\ new.created = CreatedTodos(TitlesToCreate(row, c), nextTodo)
        /\ TitlesToCreate(row, c) \in Seq(Titles)
    BY <1>1, AdvancedType, TransitionType DEF ActionCommits
  <1>3. row.state # "COMPLETED" /\ row.revision \in Nat
    BY <1>1 DEF Accepts, ActiveStates, Row
  <1>4. nextTodo' \in Nat /\ nextTodo <= nextTodo'
    BY <1>1, <1>2, LenProperties DEF ActionCommits
  <1>5. new # None /\ row # None
    BY <1>1, <1>2, NoneAssumption
  <1>6. /\ workflows'[w] = new
        /\ \A v \in WorkflowIds : v # w => workflows'[v] = workflows[v]
    BY DEF ActionCommits, TypeOK
  <1>7. row = workflows[w] /\ startLog' = startLog
    BY DEF ActionCommits
  <1>. QED  BY <1>1, <1>2, <1>3, <1>4, <1>5, <1>6, <1>7

(* The journal entry an advance adds; no other entry moves.                *)
LEMMA ActionEntryFacts ==
    ASSUME TypeOK, NEW o \in Owners, NEW w \in WorkflowIds, NEW r \in RequestIds,
           NEW c \in Command, NEW row, NEW new, ActionCommits(o, w, r, c, row, new)
    PROVE  /\ <<o, w, r>> \in ActionKeys
           /\ actionLog[<<o, w, r>>] = None /\ actionLog'[<<o, w, r>>] # None
           /\ actionLog'[<<o, w, r>>].expected = row.revision
           /\ actionLog'[<<o, w, r>>].step = row.state
           /\ actionLog'[<<o, w, r>>].command = c
           /\ actionLog'[<<o, w, r>>].snapshot = new
           /\ \A k \in ActionKeys : k # <<o, w, r>> => actionLog'[k] = actionLog[k]
  <1>1. <<o, w, r>> \in ActionKeys
    BY DEF ActionKeys
  <1>2. row \in Row /\ new \in Row
    BY ActionFacts DEF ActionCommits
  <1>. DEFINE entry == [expected |-> row.revision, step |-> row.state,
                        command |-> c, snapshot |-> new]
  <1>3. entry \in ActionEntry
    BY <1>2 DEF ActionEntry, Row
  <1>4. entry # None
    BY <1>3, NoneAssumption
  <1>5. /\ actionLog'[<<o, w, r>>] = entry /\ actionLog[<<o, w, r>>] = None
        /\ \A k \in ActionKeys : k # <<o, w, r>> => actionLog'[k] = actionLog[k]
    BY <1>1 DEF ActionCommits, TypeOK
  <1>. QED  BY <1>1, <1>4, <1>5

(* What a start does to its row and its journal entry.                     *)
LEMMA StartFacts ==
    ASSUME TypeOK, NEW o \in Owners, NEW r \in RequestIds, NEW t \in Titles,
           NEW w \in WorkflowIds, StartCommits(o, r, t, w)
    PROVE  /\ InitialRow(o, t) \in Row /\ InitialRow(o, t) # None
           /\ workflows[w] = None /\ workflows'[w] = InitialRow(o, t)
           /\ \A v \in WorkflowIds : v # w => workflows'[v] = workflows[v]
           /\ <<o, r>> \in StartKeys
           /\ startLog[<<o, r>>] = None /\ startLog'[<<o, r>>] # None
           /\ startLog'[<<o, r>>].workflow = w
           /\ startLog'[<<o, r>>].snapshot = InitialRow(o, t)
           /\ \A k \in StartKeys : k # <<o, r>> => startLog'[k] = startLog[k]
           /\ actionLog' = actionLog /\ todos' = todos /\ nextTodo' = nextTodo
  <1>1. InitialRow(o, t) \in Row /\ <<o, r>> \in StartKeys
    BY InitialRowType DEF StartKeys
  <1>2. [title |-> t, workflow |-> w, snapshot |-> InitialRow(o, t)] \in StartEntry
    BY <1>1 DEF StartEntry
  <1>3. /\ InitialRow(o, t) # None
        /\ [title |-> t, workflow |-> w, snapshot |-> InitialRow(o, t)] # None
    BY <1>1, <1>2, NoneAssumption
  <1>. QED  BY <1>1, <1>3 DEF StartCommits, TypeOK

-----------------------------------------------------------------------------
(* A workflow somebody started is there: a second start cannot be given    *)
(* its id, so nothing is counted twice.                                    *)
StartsKnown ==
    \A k \in StartKeys : startLog[k] # None => workflows[startLog[k].workflow] # None

LEMMA StartsKnownInit == Init => StartsKnown
  BY DEF Init, StartsKnown

LEMMA StartsKnownStep ==
    TypeOK /\ LockInv /\ StartsKnown /\ [Next]_vars => StartsKnown'
  <1>. SUFFICES ASSUME TypeOK, LockInv, StartsKnown, [Next]_vars PROVE StartsKnown'
    OBVIOUS
  <1>0. \A k \in StartKeys : startLog[k] # None => startLog[k].workflow \in WorkflowIds
    BY DEF TypeOK, StartEntry
  <1>1. CASE UNCHANGED dbVars
    BY <1>1 DEF dbVars, StartsKnown
  <1>2. ASSUME NEW o \in Owners, NEW r \in RequestIds, NEW t \in Titles,
               NEW w \in WorkflowIds, StartCommits(o, r, t, w)
        PROVE  StartsKnown'
    <2>1. /\ InitialRow(o, t) # None /\ workflows'[w] = InitialRow(o, t)
          /\ \A v \in WorkflowIds : v # w => workflows'[v] = workflows[v]
          /\ <<o, r>> \in StartKeys /\ startLog'[<<o, r>>].workflow = w
          /\ \A k \in StartKeys : k # <<o, r>> => startLog'[k] = startLog[k]
      BY <1>2, StartFacts
    <2>. QED  BY <1>0, <2>1 DEF StartsKnown
  <1>3. ASSUME NEW o \in Owners, NEW w \in WorkflowIds, NEW r \in RequestIds,
               NEW c \in Command, NEW row, NEW new, ActionCommits(o, w, r, c, row, new)
        PROVE  StartsKnown'
    <2>1. /\ startLog' = startLog /\ new # None /\ workflows'[w] = new
          /\ \A v \in WorkflowIds : v # w => workflows'[v] = workflows[v]
      BY <1>3, ActionFacts
    <2>. QED  BY <1>0, <2>1 DEF StartsKnown
  <1>. QED  BY <1>1, <1>2, <1>3, OnlyCommits

LEMMA EventsInit == Init => EventsMatchRows
  <1>. SUFFICES ASSUME Init, NEW w \in WorkflowIds
                PROVE  /\ events[<<"workflow_started", w>>] = 0
                       /\ events[<<"workflow_completed", w>>] = 0
                       /\ ~ \E k \in StartKeys : startLog[k] # None
                       /\ workflows[w] # None => workflows[w].state # "COMPLETED"
    BY DEF EventsMatchRows
  <1>1. PICK owner \in [UnsupportedIds -> Owners], t \in Titles :
           workflows = [v \in WorkflowIds |->
               IF v \in UnsupportedIds
               THEN [InitialRow(owner[v], t) EXCEPT !.version = CurrentVersion + 1]
               ELSE None]
    BY DEF Init, InitialWorkflows
  <1>2. workflows[w] # None => workflows[w].state = "ASSESS_TASK"
    BY <1>1 DEF InitialRow
  <1>. QED  BY <1>2 DEF Init, EventNames

LEMMA EventsStep ==
    TypeOK /\ LockInv /\ StartsKnown /\ EventsMatchRows /\ [Next]_vars => EventsMatchRows'
  <1>. SUFFICES ASSUME TypeOK, LockInv, StartsKnown, EventsMatchRows, [Next]_vars
                PROVE  EventsMatchRows'
    OBVIOUS
  <1>0. events \in [EventNames \X WorkflowIds -> Nat]
    BY DEF TypeOK
  <1>1. CASE UNCHANGED dbVars
    BY <1>1 DEF dbVars, EventsMatchRows
  <1>2. ASSUME NEW o \in Owners, NEW r \in RequestIds, NEW t \in Titles,
               NEW w \in WorkflowIds, StartCommits(o, r, t, w)
        PROVE  EventsMatchRows'
    <2>1. events[<<"workflow_started", w>>] = 0 /\ events[<<"workflow_completed", w>>] = 0
      BY <1>2 DEF EventsMatchRows, StartsKnown, StartCommits
    <2>2. /\ events'[<<"workflow_started", w>>] = 1
          /\ events'[<<"workflow_completed", w>>] = 0
          /\ \A e \in EventNames, v \in WorkflowIds : v # w =>
                events'[<<e, v>>] = events[<<e, v>>]
      BY <1>0, <1>2, <2>1 DEF StartCommits, EventNames
    <2>3. workflows'[w].state # "COMPLETED"
      <3>1. workflows'[w] = InitialRow(o, t)
        BY <1>2, StartFacts
      <3>. QED  BY <3>1 DEF InitialRow
    <2>4. ASSUME NEW v \in WorkflowIds
          PROVE  /\ events'[<<"workflow_started", v>>] =
                        IF \E k \in StartKeys : startLog'[k] # None /\ startLog'[k].workflow = v
                        THEN 1 ELSE 0
                 /\ events'[<<"workflow_completed", v>>] =
                        IF workflows'[v] # None /\ workflows'[v].state = "COMPLETED"
                        THEN 1 ELSE 0
      <3>0. /\ <<o, r>> \in StartKeys /\ startLog[<<o, r>>] = None
            /\ startLog'[<<o, r>>] # None /\ startLog'[<<o, r>>].workflow = w
            /\ \A k \in StartKeys : k # <<o, r>> => startLog'[k] = startLog[k]
        BY <1>2, StartFacts
      <3>1. CASE v = w
        <4>1. \E k \in StartKeys : startLog'[k] # None /\ startLog'[k].workflow = v
          BY <3>0, <3>1
        <4>. QED  BY <2>2, <2>3, <3>1, <4>1, <1>2, StartFacts
      <3>2. CASE v # w
        <4>1. (\E k \in StartKeys : startLog'[k] # None /\ startLog'[k].workflow = v)
                 <=> \E k \in StartKeys : startLog[k] # None /\ startLog[k].workflow = v
          BY <3>0, <3>2
        <4>2. workflows'[v] = workflows[v]
          BY <1>2, <3>2, StartFacts
        <4>3. /\ events'[<<"workflow_started", v>>] = events[<<"workflow_started", v>>]
              /\ events'[<<"workflow_completed", v>>] = events[<<"workflow_completed", v>>]
          BY <2>2, <3>2 DEF EventNames
        <4>. QED  BY <4>1, <4>2, <4>3 DEF EventsMatchRows
      <3>. QED  BY <3>1, <3>2
    <2>. QED  BY <2>4 DEF EventsMatchRows
  <1>3. ASSUME NEW o \in Owners, NEW w \in WorkflowIds, NEW r \in RequestIds,
               NEW c \in Command, NEW row, NEW new, ActionCommits(o, w, r, c, row, new)
        PROVE  EventsMatchRows'
    <2>0. /\ row = workflows[w] /\ row # None /\ row.state # "COMPLETED"
          /\ new # None /\ workflows'[w] = new
          /\ \A v \in WorkflowIds : v # w => workflows'[v] = workflows[v]
      BY <1>3, ActionFacts
    <2>1. events[<<"workflow_completed", w>>] = 0
      BY <2>0 DEF EventsMatchRows
    <2>2. startLog' = startLog
      BY <1>3 DEF ActionCommits
    <2>3. /\ \A v \in WorkflowIds :
                events'[<<"workflow_started", v>>] = events[<<"workflow_started", v>>]
          /\ \A v \in WorkflowIds : v # w =>
                events'[<<"workflow_completed", v>>] = events[<<"workflow_completed", v>>]
          /\ events'[<<"workflow_completed", w>>] = IF new.state = "COMPLETED" THEN 1 ELSE 0
      <3>1. CASE new.state = "COMPLETED"
        BY <1>0, <1>3, <2>1, <3>1 DEF ActionCommits, EventNames
      <3>2. CASE new.state # "COMPLETED"
        BY <1>3, <2>1, <3>2 DEF ActionCommits
      <3>. QED  BY <3>1, <3>2
    <2>4. ASSUME NEW v \in WorkflowIds
          PROVE  /\ events'[<<"workflow_started", v>>] =
                        IF \E k \in StartKeys : startLog'[k] # None /\ startLog'[k].workflow = v
                        THEN 1 ELSE 0
                 /\ events'[<<"workflow_completed", v>>] =
                        IF workflows'[v] # None /\ workflows'[v].state = "COMPLETED"
                        THEN 1 ELSE 0
      <3>1. events'[<<"workflow_started", v>>] =
                IF \E k \in StartKeys : startLog'[k] # None /\ startLog'[k].workflow = v
                THEN 1 ELSE 0
        BY <2>2, <2>3 DEF EventsMatchRows
      <3>2. CASE v = w
        BY <2>0, <2>3, <3>1, <3>2
      <3>3. CASE v # w
        BY <2>0, <2>3, <3>1, <3>3 DEF EventsMatchRows
      <3>. QED  BY <3>2, <3>3
    <2>. QED  BY <2>4 DEF EventsMatchRows
  <1>. QED  BY <1>1, <1>2, <1>3, OnlyCommits

(* The outbox tells the truth: one started event for each workflow that a  *)
(* journaled start made, one completed event for each completed workflow,  *)
(* however often a request is repeated, rolled back or left unanswered.    *)
THEOREM EventsTellTruth == Spec => []EventsMatchRows
  <1>1. Init => StartsKnown /\ EventsMatchRows
    BY StartsKnownInit, EventsInit
  <1>2. TypeOK /\ LockInv /\ StartsKnown /\ EventsMatchRows /\ [Next]_vars
           => StartsKnown' /\ EventsMatchRows'
    BY StartsKnownStep, EventsStep
  <1>. QED  BY <1>1, <1>2, TypeCorrect, LocksCorrect, PTL DEF Spec

-----------------------------------------------------------------------------
(* The todos a row lists, and that no id of them is to be given again.     *)
TodosOf(row) ==
    {[id |-> row.created[i].id, owner |-> row.owner, title |-> row.created[i].title]
       : i \in 1..Len(row.created)}

IdsTaken ==
    \A w \in WorkflowIds : workflows[w] # None =>
        \A i \in 1..Len(workflows[w].created) :
            workflows[w].created[i].id \in 1..nextTodo

(* A row that is not completed lists nothing, and a completing one lists   *)
(* exactly the todos its commit inserts.                                   *)
LEMMA ListsNothing ==
    ASSUME NEW row, row.created = <<>>
    PROVE  TodosOf(row) = {} /\ Len(row.created) = 0
  BY DEF TodosOf

LEMMA ListsNewTodos ==
    ASSUME NEW titles \in Seq(Titles), NEW base \in Nat, NEW row,
           row.created = CreatedTodos(titles, base)
    PROVE  /\ TodosOf(row) = NewTodos(row.owner, titles, base)
           /\ Len(row.created) = Len(titles)
           /\ \A i \in 1..Len(titles) : row.created[i].id = base + i
  <1>1. /\ Len(row.created) = Len(titles)
        /\ \A i \in 1..Len(titles) :
              row.created[i] = [id |-> base + i, title |-> titles[i]]
    BY CreatedTodosType
  <1>2. ASSUME NEW i \in 1..Len(titles)
        PROVE  /\ row.created[i].id = base + i
               /\ row.created[i].title = titles[i]
    <2>1. row.created[i] = [id |-> base + i, title |-> titles[i]]
      BY <1>1
    <2>. QED  BY <2>1
  <1>3. TodosOf(row) = NewTodos(row.owner, titles, base)
    BY <1>1, <1>2 DEF TodosOf, NewTodos
  <1>. QED  BY <1>1, <1>2, <1>3

LEMMA TodosInit == Init => IdsTaken /\ TodosExactlyOnce
  <1>. SUFFICES ASSUME Init PROVE IdsTaken /\ TodosExactlyOnce
    OBVIOUS
  <1>1. PICK owner \in [UnsupportedIds -> Owners], t \in Titles :
           workflows = [v \in WorkflowIds |->
               IF v \in UnsupportedIds
               THEN [InitialRow(owner[v], t) EXCEPT !.version = CurrentVersion + 1]
               ELSE None]
    BY DEF Init, InitialWorkflows
  <1>2. \A w \in WorkflowIds : workflows[w] # None => workflows[w].created = <<>>
    BY <1>1 DEF InitialRow
  <1>3. \A w \in WorkflowIds : workflows[w] # None => Len(workflows[w].created) = 0
    BY <1>2, ListsNothing
  <1>4. \A w \in WorkflowIds : CreatedBy(w) = {}
    BY <1>2, ListsNothing DEF CreatedBy, TodosOf
  <1>5. todos = {}
    BY DEF Init
  <1>. QED  BY <1>3, <1>4, <1>5 DEF IdsTaken, TodosExactlyOnce

LEMMA TodosStep ==
    TypeOK /\ LockInv /\ RowsReadable /\ IdsTaken /\ TodosExactlyOnce /\ [Next]_vars
        => IdsTaken' /\ TodosExactlyOnce'
  <1>. SUFFICES ASSUME TypeOK, LockInv, RowsReadable, IdsTaken, TodosExactlyOnce,
                       [Next]_vars
                PROVE  IdsTaken' /\ TodosExactlyOnce'
    OBVIOUS
  <1>0. /\ \A v \in WorkflowIds : CreatedBy(v) =
              IF workflows[v] = None THEN {} ELSE TodosOf(workflows[v])
        /\ \A v \in WorkflowIds : CreatedBy(v)' =
              IF workflows'[v] = None THEN {} ELSE TodosOf(workflows'[v])
    BY DEF CreatedBy, TodosOf
  <1>1. CASE UNCHANGED dbVars
    BY <1>0, <1>1 DEF dbVars, IdsTaken, TodosExactlyOnce, TodosOf
  <1>2. ASSUME NEW o \in Owners, NEW r \in RequestIds, NEW t \in Titles,
               NEW w \in WorkflowIds, StartCommits(o, r, t, w)
        PROVE  IdsTaken' /\ TodosExactlyOnce'
    <2>1. /\ workflows[w] = None /\ workflows'[w] = InitialRow(o, t)
          /\ \A v \in WorkflowIds : v # w => workflows'[v] = workflows[v]
          /\ todos' = todos /\ nextTodo' = nextTodo
      BY <1>2, StartFacts
    <2>2. workflows'[w].created = <<>>
      BY <2>1 DEF InitialRow
    <2>3. TodosOf(workflows'[w]) = {} /\ Len(workflows'[w].created) = 0
      BY <2>2, ListsNothing
    <2>4. \A v \in WorkflowIds : CreatedBy(v)' = CreatedBy(v)
      BY <1>0, <2>1, <2>3
    <2>5. IdsTaken'
      BY <2>1, <2>3 DEF IdsTaken
    <2>6. \A v \in WorkflowIds : workflows'[v] # None =>
             \A i, j \in 1..Len(workflows'[v].created) :
                i # j => workflows'[v].created[i].id # workflows'[v].created[j].id
      BY <2>1, <2>3 DEF TodosExactlyOnce
    <2>. QED  BY <2>1, <2>4, <2>5, <2>6 DEF TodosExactlyOnce
  <1>3. ASSUME NEW o \in Owners, NEW w \in WorkflowIds, NEW r \in RequestIds,
               NEW c \in Command, NEW row, NEW new, ActionCommits(o, w, r, c, row, new)
        PROVE  IdsTaken' /\ TodosExactlyOnce'
    <2>. DEFINE titles == TitlesToCreate(row, c)
    <2>1. /\ row = workflows[w] /\ row # None
          /\ new # None /\ new.owner = row.owner /\ workflows'[w] = new
          /\ \A v \in WorkflowIds : v # w => workflows'[v] = workflows[v]
          /\ titles \in Seq(Titles) /\ new.created = CreatedTodos(titles, nextTodo)
          /\ nextTodo \in Nat /\ nextTodo' \in Nat /\ nextTodo <= nextTodo'
      BY <1>3, ActionFacts
    <2>2. /\ row.owner = o /\ Accepts(row.state, c)
          /\ todos' = todos \cup NewTodos(o, titles, nextTodo)
          /\ nextTodo' = nextTodo + Len(titles)
      BY <1>3 DEF ActionCommits
    <2>. HIDE DEF titles
    <2>3. /\ TodosOf(new) = NewTodos(o, titles, nextTodo)
          /\ Len(new.created) = Len(titles) /\ Len(titles) \in Nat
          /\ \A i \in 1..Len(titles) : new.created[i].id = nextTodo + i
      <3>1. Len(titles) \in Nat
        BY <2>1, LenProperties
      <3>2. new.owner = o
        BY <2>1, <2>2
      <3>3. /\ titles \in Seq(Titles) /\ nextTodo \in Nat
            /\ new.created = CreatedTodos(titles, nextTodo)
        BY <2>1
      <3>4. /\ TodosOf(new) = NewTodos(new.owner, titles, nextTodo)
            /\ Len(new.created) = Len(titles)
            /\ \A i \in 1..Len(titles) : new.created[i].id = nextTodo + i
        BY <3>3, ListsNewTodos
      <3>. QED  BY <3>1, <3>2, <3>4
    <2>4. TodosOf(row) = {} /\ Len(row.created) = 0
      <3>1. ValidCreated(row) /\ row.state # "COMPLETED"
        BY <2>1, <2>2 DEF RowsReadable, ValidSnapshot, Accepts, ActiveStates
      <3>. QED  BY <3>1, ListsNothing DEF ValidCreated
    <2>5. /\ CreatedBy(w) = {}
          /\ CreatedBy(w)' = NewTodos(o, titles, nextTodo)
          /\ \A v \in WorkflowIds : v # w => CreatedBy(v)' = CreatedBy(v)
      BY <1>0, <2>1, <2>3, <2>4
    <2>6. IdsTaken'
      <3>1. ASSUME NEW i \in 1..Len(new.created)
            PROVE  new.created[i].id \in 1..nextTodo'
        BY <2>1, <2>2, <2>3
      <3>2. ASSUME NEW v \in WorkflowIds, v # w, workflows'[v] # None,
                   NEW i \in 1..Len(workflows'[v].created)
            PROVE  workflows'[v].created[i].id \in 1..nextTodo'
        BY <2>1, <3>2 DEF IdsTaken
      <3>. QED  BY <2>1, <3>1, <3>2 DEF IdsTaken
    <2>7. todos' = UNION {CreatedBy(v)' : v \in WorkflowIds}
      BY <2>2, <2>5 DEF TodosExactlyOnce
    <2>8. /\ \A v \in WorkflowIds : \A x \in CreatedBy(v) : x.id \in 1..nextTodo
          /\ \A x \in CreatedBy(w)' : x.id \in Nat /\ x.id > nextTodo
      <3>1. ASSUME NEW v \in WorkflowIds, NEW x \in CreatedBy(v)
            PROVE  x.id \in 1..nextTodo
        BY <1>0, <3>1 DEF IdsTaken, TodosOf
      <3>2. ASSUME NEW x \in CreatedBy(w)'
            PROVE  x.id \in Nat /\ x.id > nextTodo
        BY <2>1, <2>3, <2>5, <3>2 DEF NewTodos
      <3>. QED  BY <3>1, <3>2
    <2>9. ASSUME NEW v \in WorkflowIds, NEW u \in WorkflowIds, v # u,
                 NEW x \in CreatedBy(v)', NEW y \in CreatedBy(u)'
          PROVE  x.id # y.id
      <3>1. CASE v = w
        BY <2>1, <2>5, <2>8, <2>9, <3>1
      <3>2. CASE u = w
        BY <2>1, <2>5, <2>8, <2>9, <3>2
      <3>3. CASE v # w /\ u # w
        BY <2>5, <2>9, <3>3 DEF TodosExactlyOnce
      <3>. QED  BY <3>1, <3>2, <3>3
    <2>10. ASSUME NEW v \in WorkflowIds, workflows'[v] # None,
                  NEW i \in 1..Len(workflows'[v].created),
                  NEW j \in 1..Len(workflows'[v].created), i # j
           PROVE  workflows'[v].created[i].id # workflows'[v].created[j].id
      <3>1. CASE v = w
        BY <2>1, <2>3, <2>10, <3>1
      <3>2. CASE v # w
        BY <2>1, <2>10, <3>2 DEF TodosExactlyOnce
      <3>. QED  BY <3>1, <3>2
    <2>. QED  BY <2>6, <2>7, <2>9, <2>10 DEF TodosExactlyOnce
  <1>. QED  BY <1>1, <1>2, <1>3, OnlyCommits

(* The todo table is exactly what the completed workflows list: a retry, a *)
(* rollback or a second confirmation makes no todo twice and loses none,   *)
(* and no two workflows share one.                                         *)
THEOREM TodosMadeOnce == Spec => []TodosExactlyOnce
  <1>1. Init => RowsReadable /\ JournalReadable /\ IdsTaken /\ TodosExactlyOnce
    BY ReadableInit, TodosInit
  <1>2. TypeOK /\ LockInv /\ (RowsReadable /\ JournalReadable /\ IdsTaken /\ TodosExactlyOnce)
           /\ [Next]_vars
           => (RowsReadable /\ JournalReadable /\ IdsTaken /\ TodosExactlyOnce)'
    BY ReadableStep, TodosStep
  <1>. QED  BY <1>1, <1>2, TypeCorrect, LocksCorrect, PTL DEF Spec

-----------------------------------------------------------------------------
(* HistoryIsARun, in the parts an induction can carry.  It is not          *)
(* inductive alone: the first advance of a workflow follows its start      *)
(* only because a row of revision 0 is what its start stored.              *)
StepWithin(before, entry, limit) ==
    /\ entry.expected = before.revision
    /\ entry.step = before.state
    /\ \E base \in 0..limit : entry.snapshot = Advanced(before, entry.command, base)

StartStored(s, w, row) ==
    startLog[s] # None /\ startLog[s].workflow = w /\ startLog[s].snapshot = row

StartsBegin ==
    \A w \in WorkflowIds :
        workflows[w] # None /\ workflows[w].version = CurrentVersion
                /\ workflows[w].revision = 0
            => \E s \in StartKeys : StartStored(s, w, workflows[w])

Placed(k, entry) ==
    /\ workflows[k[2]] # None
    /\ workflows[k[2]].owner = k[1]
    /\ entry.snapshot.revision \in 1..workflows[k[2]].revision
    /\ entry.snapshot.revision = workflows[k[2]].revision =>
          entry.snapshot = workflows[k[2]]

Follows(k, entry) ==
    IF entry.snapshot.revision = 1
    THEN \E s \in StartKeys :
            /\ startLog[s] # None /\ startLog[s].workflow = k[2]
            /\ StepWithin(startLog[s].snapshot, entry, nextTodo)
    ELSE \E j \in ActionKeys :
            /\ Accepted(k[2], j)
            /\ StepWithin(actionLog[j].snapshot, entry, nextTodo)

EntriesPlaced ==
    \A k \in ActionKeys : actionLog[k] # None => Placed(k, actionLog[k])

EntriesFollow ==
    \A k \in ActionKeys : actionLog[k] # None => Follows(k, actionLog[k])

EveryRevision ==
    \A w \in WorkflowIds : workflows[w] # None =>
        \A n \in 1..workflows[w].revision :
            \E k \in ActionKeys : Accepted(w, k) /\ actionLog[k].snapshot.revision = n

NoRevisionTwice ==
    \A j, k \in ActionKeys :
        /\ actionLog[j] # None /\ actionLog[k] # None /\ j[2] = k[2]
        /\ actionLog[j].snapshot.revision = actionLog[k].snapshot.revision
        => j = k

HistoryInv ==
    StartsBegin /\ EntriesPlaced /\ EntriesFollow /\ EveryRevision /\ NoRevisionTwice

LEMMA HistoryParts == HistoryInv => HistoryIsARun
  <1>1. \A before, entry : StepWithin(before, entry, nextTodo) <=> IsStepFrom(before, entry)
    BY DEF StepWithin, IsStepFrom
  <1>. SUFFICES ASSUME HistoryInv PROVE HistoryIsARun
    OBVIOUS
  <1>2. ASSUME NEW k \in ActionKeys, actionLog[k] # None
        PROVE  IF actionLog[k].snapshot.revision = 1
               THEN \E s \in StartKeys :
                      /\ startLog[s] # None
                      /\ startLog[s].workflow = k[2]
                      /\ IsStepFrom(startLog[s].snapshot, actionLog[k])
               ELSE \E j \in ActionKeys :
                      Accepted(k[2], j) /\ IsStepFrom(actionLog[j].snapshot, actionLog[k])
    BY <1>1, <1>2 DEF HistoryInv, EntriesFollow, Follows
  <1>3. ASSUME NEW k \in ActionKeys, actionLog[k] # None
        PROVE  Placed(k, actionLog[k])
    BY <1>3 DEF HistoryInv, EntriesPlaced
  <1>. QED
    BY <1>2, <1>3 DEF HistoryInv, HistoryIsARun, Placed, EveryRevision, NoRevisionTwice

LEMMA StepWithinGrows ==
    ASSUME NEW before, NEW entry, NEW m \in Nat, NEW n \in Nat, m <= n,
           StepWithin(before, entry, m)
    PROVE  StepWithin(before, entry, n)
  <1>1. 0..m \subseteq 0..n
    OBVIOUS
  <1>. QED  BY <1>1 DEF StepWithin

LEMMA HistoryInit == Init => HistoryInv
  <1>. SUFFICES ASSUME Init PROVE HistoryInv
    OBVIOUS
  <1>1. PICK owner \in [UnsupportedIds -> Owners], t \in Titles :
           workflows = [v \in WorkflowIds |->
               IF v \in UnsupportedIds
               THEN [InitialRow(owner[v], t) EXCEPT !.version = CurrentVersion + 1]
               ELSE None]
    BY DEF Init, InitialWorkflows
  <1>2. \A w \in WorkflowIds : workflows[w] # None =>
           workflows[w].revision = 0 /\ workflows[w].version # CurrentVersion
    BY <1>1 DEF InitialRow, CurrentVersion
  <1>3. \A k \in ActionKeys : actionLog[k] = None
    BY DEF Init
  <1>. QED
    BY <1>2, <1>3 DEF HistoryInv, StartsBegin, EntriesPlaced, EntriesFollow,
                      EveryRevision, NoRevisionTwice

(* A start touches no journal entry and no workflow that has one.          *)
LEMMA HistoryStart ==
    ASSUME TypeOK, HistoryInv, NEW o \in Owners, NEW r \in RequestIds, NEW t \in Titles,
           NEW w \in WorkflowIds, StartCommits(o, r, t, w)
    PROVE  HistoryInv'
  <1>0. /\ StartsBegin /\ EntriesPlaced /\ EntriesFollow /\ EveryRevision
        /\ NoRevisionTwice
    BY DEF HistoryInv
  <1>1. /\ InitialRow(o, t) # None
        /\ workflows[w] = None /\ workflows'[w] = InitialRow(o, t)
        /\ \A v \in WorkflowIds : v # w => workflows'[v] = workflows[v]
        /\ <<o, r>> \in StartKeys
        /\ startLog[<<o, r>>] = None /\ startLog'[<<o, r>>] # None
        /\ startLog'[<<o, r>>].workflow = w
        /\ startLog'[<<o, r>>].snapshot = InitialRow(o, t)
        /\ \A k \in StartKeys : k # <<o, r>> => startLog'[k] = startLog[k]
        /\ actionLog' = actionLog /\ nextTodo' = nextTodo
    BY StartFacts
  <1>2. workflows'[w].revision = 0
    BY <1>1 DEF InitialRow
  <1>3. \A k \in ActionKeys : actionLog[k] # None =>
           k[2] \in WorkflowIds /\ workflows'[k[2]] = workflows[k[2]]
    <2>1. ASSUME NEW k \in ActionKeys, actionLog[k] # None
          PROVE  k[2] \in WorkflowIds /\ workflows[k[2]] # None
      BY <1>0, <2>1 DEF EntriesPlaced, Placed, ActionKeys
    <2>. QED  BY <1>1, <2>1
  <1>4. StartsBegin'
    <2>1. ASSUME NEW v \in WorkflowIds, workflows'[v] # None,
                 workflows'[v].version = CurrentVersion, workflows'[v].revision = 0
          PROVE  \E s \in StartKeys : StartStored(s, v, workflows[v])'
      <3>1. CASE v = w
        <4>1. StartStored(<<o, r>>, v, workflows[v])'
          BY <1>1, <3>1 DEF StartStored
        <4>. QED  BY <1>1, <4>1
      <3>2. CASE v # w
        <4>1. PICK s \in StartKeys : StartStored(s, v, workflows[v])
          BY <1>0, <1>1, <2>1, <3>2 DEF StartsBegin
        <4>2. s # <<o, r>>
          BY <1>1, <4>1 DEF StartStored
        <4>3. StartStored(s, v, workflows[v])'
          BY <1>1, <3>2, <4>1, <4>2 DEF StartStored
        <4>. QED  BY <4>3
      <3>. QED  BY <3>1, <3>2
    <2>. QED  BY <2>1 DEF StartsBegin
  <1>5. EntriesPlaced'
    BY <1>0, <1>1, <1>3 DEF EntriesPlaced, Placed
  <1>6. EntriesFollow'
    <2>1. ASSUME NEW k \in ActionKeys, actionLog[k] # None
          PROVE  Follows(k, actionLog[k])'
      <3>1. Follows(k, actionLog[k])
        BY <1>0, <2>1 DEF EntriesFollow
      <3>2. CASE actionLog[k].snapshot.revision = 1
        <4>1. PICK s \in StartKeys :
                 /\ startLog[s] # None /\ startLog[s].workflow = k[2]
                 /\ StepWithin(startLog[s].snapshot, actionLog[k], nextTodo)
          BY <3>1, <3>2 DEF Follows
        <4>2. startLog'[s] = startLog[s]
          BY <1>1, <4>1
        <4>. QED  BY <1>1, <3>2, <4>1, <4>2 DEF Follows
      <3>3. CASE actionLog[k].snapshot.revision # 1
        BY <1>1, <3>1, <3>3 DEF Follows, Accepted
      <3>. QED  BY <3>2, <3>3
    <2>. QED  BY <1>1, <2>1 DEF EntriesFollow
  <1>7. EveryRevision'
    <2>1. ASSUME NEW v \in WorkflowIds, workflows'[v] # None,
                 NEW n \in 1..workflows'[v].revision
          PROVE  \E k \in ActionKeys :
                    Accepted(v, k)' /\ actionLog'[k].snapshot.revision = n
      <3>1. v # w
        BY <1>2, <2>1
      <3>. QED  BY <1>0, <1>1, <2>1, <3>1 DEF EveryRevision, Accepted
    <2>. QED  BY <2>1 DEF EveryRevision
  <1>8. NoRevisionTwice'
    BY <1>0, <1>1 DEF NoRevisionTwice
  <1>. QED  BY <1>4, <1>5, <1>6, <1>7, <1>8 DEF HistoryInv

(* An advance adds the one entry of the revision it makes, after the row   *)
(* it found; what it found is the snapshot of the entry, or the start,     *)
(* before it.                                                              *)
LEMMA HistoryAction ==
    ASSUME TypeOK, HistoryInv, NEW o \in Owners, NEW w \in WorkflowIds,
           NEW r \in RequestIds, NEW c \in Command, NEW row, NEW new,
           ActionCommits(o, w, r, c, row, new)
    PROVE  HistoryInv'
  <1>. DEFINE k0 == <<o, w, r>>
  <1>0. /\ StartsBegin /\ EntriesPlaced /\ EntriesFollow /\ EveryRevision
        /\ NoRevisionTwice
    BY DEF HistoryInv
  <1>1. /\ row = workflows[w] /\ startLog' = startLog
        /\ new # None /\ row # None
        /\ new.owner = row.owner /\ new.revision = row.revision + 1
        /\ row.revision \in Nat
        /\ nextTodo \in Nat /\ nextTodo' \in Nat /\ nextTodo <= nextTodo'
        /\ workflows'[w] = new
        /\ \A v \in WorkflowIds : v # w => workflows'[v] = workflows[v]
    BY ActionFacts
  <1>2. /\ row.owner = o /\ row.version = CurrentVersion
        /\ new = Advanced(row, c, nextTodo)
    BY DEF ActionCommits
  <1>3. /\ k0 \in ActionKeys /\ actionLog[k0] = None /\ actionLog'[k0] # None
        /\ actionLog'[k0].expected = row.revision /\ actionLog'[k0].step = row.state
        /\ actionLog'[k0].command = c /\ actionLog'[k0].snapshot = new
        /\ \A k \in ActionKeys : k # k0 => actionLog'[k] = actionLog[k]
    BY ActionEntryFacts
  <1>4. k0[1] = o /\ k0[2] = w
    OBVIOUS
  <1>. HIDE DEF k0
  <1>5. ASSUME NEW k \in ActionKeys, actionLog[k] # None
        PROVE  /\ k # k0 /\ actionLog'[k] = actionLog[k]
               /\ k[2] \in WorkflowIds
               /\ Placed(k, actionLog[k]) /\ Follows(k, actionLog[k])
               /\ k[2] = w => actionLog[k].snapshot.revision \in 1..row.revision
    <2>1. k # k0 /\ actionLog'[k] = actionLog[k] /\ k[2] \in WorkflowIds
      BY <1>3, <1>5 DEF ActionKeys
    <2>2. Placed(k, actionLog[k]) /\ Follows(k, actionLog[k])
      BY <1>0, <1>5 DEF EntriesPlaced, EntriesFollow
    <2>. QED  BY <1>1, <2>1, <2>2 DEF Placed
  <1>6. \A before, entry : StepWithin(before, entry, nextTodo)
                              => StepWithin(before, entry, nextTodo')
    BY <1>1, StepWithinGrows
  <1>7. StepWithin(row, actionLog'[k0], nextTodo')
    <2>1. nextTodo \in 0..nextTodo'
      BY <1>1
    <2>. QED  BY <1>2, <1>3, <2>1 DEF StepWithin
  <1>8. StartsBegin'
    <2>1. ASSUME NEW v \in WorkflowIds, workflows'[v] # None,
                 workflows'[v].version = CurrentVersion, workflows'[v].revision = 0
          PROVE  \E s \in StartKeys : StartStored(s, v, workflows[v])'
      <3>1. v # w
        BY <1>1, <2>1
      <3>2. PICK s \in StartKeys : StartStored(s, v, workflows[v])
        BY <1>0, <1>1, <2>1, <3>1 DEF StartsBegin
      <3>3. StartStored(s, v, workflows[v])'
        BY <1>1, <3>1, <3>2 DEF StartStored
      <3>. QED  BY <3>3
    <2>. QED  BY <2>1 DEF StartsBegin
  <1>9. EntriesPlaced'
    <2>1. Placed(k0, actionLog[k0])'
      BY <1>1, <1>2, <1>3, <1>4 DEF Placed
    <2>2. ASSUME NEW k \in ActionKeys, actionLog[k] # None
          PROVE  Placed(k, actionLog[k])'
      <3>1. CASE k[2] = w
        BY <1>1, <1>5, <2>2, <3>1 DEF Placed
      <3>2. CASE k[2] # w
        BY <1>1, <1>5, <2>2, <3>2 DEF Placed
      <3>. QED  BY <3>1, <3>2
    <2>. QED  BY <1>3, <2>1, <2>2 DEF EntriesPlaced
  <1>10. EntriesFollow'
    <2>1. Follows(k0, actionLog[k0])'
      <3>1. CASE row.revision = 0
        <4>1. PICK s \in StartKeys : StartStored(s, w, row)
          BY <1>0, <1>1, <1>2, <3>1 DEF StartsBegin
        <4>. QED
          BY <1>1, <1>3, <1>4, <1>7, <3>1, <4>1 DEF Follows, StartStored
      <3>2. CASE row.revision # 0
        <4>1. PICK j \in ActionKeys :
                 Accepted(w, j) /\ actionLog[j].snapshot.revision = row.revision
          BY <1>0, <1>1, <3>2 DEF EveryRevision
        <4>2. actionLog[j] # None /\ j[2] = w
          BY <4>1 DEF Accepted
        <4>3. actionLog[j].snapshot = row /\ actionLog'[j] = actionLog[j]
          BY <1>1, <1>5, <4>1, <4>2 DEF Placed
        <4>4. actionLog'[k0].snapshot.revision # 1
          BY <1>1, <1>3, <3>2
        <4>. QED  BY <1>4, <1>7, <4>2, <4>3, <4>4 DEF Follows, Accepted
      <3>. QED  BY <3>1, <3>2
    <2>2. ASSUME NEW k \in ActionKeys, actionLog[k] # None
          PROVE  Follows(k, actionLog[k])'
      <3>1. Follows(k, actionLog[k]) /\ actionLog'[k] = actionLog[k]
        BY <1>5, <2>2
      <3>2. CASE actionLog[k].snapshot.revision = 1
        BY <1>1, <1>6, <3>1, <3>2 DEF Follows
      <3>3. CASE actionLog[k].snapshot.revision # 1
        <4>1. PICK j \in ActionKeys :
                 Accepted(k[2], j) /\ StepWithin(actionLog[j].snapshot, actionLog[k], nextTodo)
          BY <3>1, <3>3 DEF Follows
        <4>2. actionLog'[j] = actionLog[j]
          BY <1>5, <4>1 DEF Accepted
        <4>3. /\ Accepted(k[2], j)'
              /\ StepWithin(actionLog'[j].snapshot, actionLog'[k], nextTodo')
          BY <1>6, <3>1, <4>1, <4>2 DEF Accepted
        <4>. QED  BY <3>1, <3>3, <4>3 DEF Follows
      <3>. QED  BY <3>2, <3>3
    <2>. QED  BY <1>3, <2>1, <2>2 DEF EntriesFollow
  <1>11. EveryRevision'
    <2>1. ASSUME NEW v \in WorkflowIds, workflows'[v] # None,
                 NEW n \in 1..workflows'[v].revision
          PROVE  \E k \in ActionKeys :
                    Accepted(v, k)' /\ actionLog'[k].snapshot.revision = n
      <3>1. CASE v = w /\ n = new.revision
        BY <1>3, <1>4, <3>1 DEF Accepted
      <3>2. CASE v # w \/ n # new.revision
        <4>1. workflows[v] # None /\ n \in 1..workflows[v].revision
          BY <1>1, <2>1, <3>2
        <4>2. PICK k \in ActionKeys :
                 Accepted(v, k) /\ actionLog[k].snapshot.revision = n
          BY <1>0, <4>1 DEF EveryRevision
        <4>3. actionLog'[k] = actionLog[k]
          BY <1>5, <4>2 DEF Accepted
        <4>. QED  BY <4>2, <4>3 DEF Accepted
      <3>. QED  BY <3>1, <3>2
    <2>. QED  BY <2>1 DEF EveryRevision
  <1>12. NoRevisionTwice'
    <2>1. ASSUME NEW j \in ActionKeys, NEW k \in ActionKeys,
                 actionLog'[j] # None, actionLog'[k] # None, j[2] = k[2],
                 actionLog'[j].snapshot.revision = actionLog'[k].snapshot.revision
          PROVE  j = k
      <3>1. \A i \in ActionKeys : i # k0 /\ actionLog'[i] # None /\ i[2] = w =>
               actionLog'[i].snapshot.revision # new.revision
        BY <1>1, <1>3, <1>5
      <3>2. CASE j # k0 /\ k # k0
        BY <1>0, <1>3, <2>1, <3>2 DEF NoRevisionTwice
      <3>3. CASE j = k0 \/ k = k0
        BY <1>3, <1>4, <2>1, <3>1, <3>3
      <3>. QED  BY <3>2, <3>3
    <2>. QED  BY <2>1 DEF NoRevisionTwice
  <1>. QED  BY <1>8, <1>9, <1>10, <1>11, <1>12 DEF HistoryInv

LEMMA HistoryStep ==
    TypeOK /\ LockInv /\ HistoryInv /\ [Next]_vars => HistoryInv'
  <1>. SUFFICES ASSUME TypeOK, LockInv, HistoryInv, [Next]_vars PROVE HistoryInv'
    OBVIOUS
  <1>1. CASE UNCHANGED dbVars
    BY <1>1 DEF dbVars, HistoryInv, StartsBegin, StartStored, EntriesPlaced, Placed,
                EntriesFollow, Follows, Accepted, EveryRevision, NoRevisionTwice
  <1>. QED  BY <1>1, OnlyCommits, HistoryStart, HistoryAction

(* The journal of a workflow is its history, for every owner, request and  *)
(* workflow: no update is lost, none is journaled without being made, none *)
(* is made twice, and each was made of the row the one before it left.     *)
THEOREM JournalIsHistory == Spec => []HistoryIsARun
  <1>1. Spec => []HistoryInv
    BY TypeCorrect, LocksCorrect, HistoryInit, HistoryStep, PTL DEF Spec
  <1>. QED  BY <1>1, HistoryParts, PTL
=============================================================================

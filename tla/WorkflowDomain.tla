--------------------------- MODULE WorkflowDomain ---------------------------
(***************************************************************************)
(* The pure rules of a todo workflow: its states, the commands a user can  *)
(* give it, the transition each command makes, and the closed validation a *)
(* journaled snapshot must pass before it is replayed to a client.         *)
(*                                                                         *)
(* A row is the record                                                     *)
(*   [owner, state, title, flag, proposals, created, revision, version].   *)
(* `flag' is involves_multiple_steps: "none" (NULL), "yes" or "no".        *)
(* `created' is completion_result.created_todos; the code only ever stores *)
(* NULL or a non-empty list, so NULL is modelled as <<>>.                  *)
(***************************************************************************)
EXTENDS Naturals, Sequences

CONSTANTS
    Owners,        \* user ids
    Titles,        \* canonical titles
    Breakdowns,    \* the title lists create_submit_tasks accepts
    MaxRevision    \* MAX_WORKFLOW_REVISION

MinTitles == 2
MaxTitles == 10

ASSUME BreakdownsAssumption ==
    \A b \in Breakdowns : b \in Seq(Titles) /\ Len(b) \in MinTitles..MaxTitles

ASSUME MaxRevisionAssumption == MaxRevision \in Nat

ActiveStates   == {"ASSESS_TASK", "OFFER_BREAKDOWN", "COLLECT_TASKS", "REVIEW"}
TerminalStates == {"COMPLETED", "CANCELLED"}
States         == ActiveStates \cup TerminalStates

\* The one workflow definition this server can run.
CurrentVersion == 1

Flags == {"none", "yes", "no"}

CreatedTodo == [id : Nat, title : Titles]

Row == [owner     : Owners,
        state     : States,
        title     : Titles,
        flag      : Flags,
        proposals : Seq(Titles),
        created   : Seq(CreatedTodo),
        revision  : Nat,
        version   : Nat]

Command ==
    [kind : {"answer"}, answer : BOOLEAN]
    \cup [kind : {"submit"}, titles : Breakdowns]
    \cup [kind : {"confirm", "cancel"}]

InitialRow(o, t) ==
    [owner |-> o, state |-> "ASSESS_TASK", title |-> t, flag |-> "none",
     proposals |-> <<>>, created |-> <<>>, revision |-> 0,
     version |-> CurrentVersion]

-----------------------------------------------------------------------------
(* transition(): which command each active state accepts ...               *)
Accepts(state, c) ==
    \/ c.kind = "cancel"  /\ state \in ActiveStates
    \/ c.kind = "answer"  /\ state \in {"ASSESS_TASK", "OFFER_BREAKDOWN"}
    \/ c.kind = "submit"  /\ state = "COLLECT_TASKS"
    \/ c.kind = "confirm" /\ state = "REVIEW"

(* ... and the state, flag and proposals it leads to.                      *)
NextState(state, c) ==
    IF c.kind = "cancel" THEN "CANCELLED"
    ELSE IF c.kind = "confirm" THEN "COMPLETED"
    ELSE IF c.kind = "submit" THEN "REVIEW"
    ELSE IF ~c.answer THEN "REVIEW"
    ELSE IF state = "ASSESS_TASK" THEN "OFFER_BREAKDOWN"
    ELSE "COLLECT_TASKS"

NextFlag(row, c) ==
    IF c.kind = "answer" /\ row.state = "ASSESS_TASK"
    THEN IF c.answer THEN "yes" ELSE "no"
    ELSE row.flag

NextProposals_BareTitle(row, c) ==
    IF c.kind \in {"cancel", "confirm"} THEN row.proposals
    ELSE IF c.kind = "submit" THEN c.titles
    ELSE IF c.answer THEN <<>>
    ELSE row.title

NextProposals(row, c) ==
    IF c.kind \in {"cancel", "confirm"} THEN row.proposals
    ELSE IF c.kind = "submit" THEN c.titles
    ELSE IF c.answer THEN <<>>
    ELSE <<row.title>>

Transition(row, c) ==
    [row EXCEPT !.state     = NextState(row.state, c),
                !.flag      = NextFlag(row, c),
                !.proposals = NextProposals(row, c)]

TitlesToCreate_OnCancelToo(row, c) ==
    IF c.kind \in {"confirm", "cancel"} THEN row.proposals ELSE <<>>

(* Only confirming creates todos: one per proposal, in order.              *)
TitlesToCreate(row, c) == IF c.kind = "confirm" THEN row.proposals ELSE <<>>

-----------------------------------------------------------------------------
(* snapshot_from_record(): the context a stored snapshot may have in each  *)
(* state.  Anything else is refused as InvalidStoredSnapshot (HTTP 503).   *)
LoneProposalIsTitle(s) == Len(s.proposals) = 1 => s.proposals[1] = s.title

ValidContext(s) ==
    \/ s.state = "ASSESS_TASK" /\ s.flag = "none" /\ s.proposals = <<>>
    \/ /\ s.state \in {"OFFER_BREAKDOWN", "COLLECT_TASKS"}
       /\ s.flag = "yes" /\ s.proposals = <<>>
    \/ /\ s.state \in {"REVIEW", "COMPLETED"}
       /\ \/ s.flag = "no" /\ Len(s.proposals) = 1
          \/ s.flag = "yes" /\ Len(s.proposals) \in 1..MaxTitles
       /\ LoneProposalIsTitle(s)
    \/ /\ s.state = "CANCELLED"
       /\ \/ s.flag = "none" /\ s.proposals = <<>>
          \/ s.flag = "no"   /\ Len(s.proposals) = 1
          \/ s.flag = "yes"  /\ Len(s.proposals) <= MaxTitles
       /\ LoneProposalIsTitle(s)

ValidCreated(s) ==
    IF s.state = "COMPLETED"
    THEN /\ s.created # <<>>
         /\ Len(s.created) = Len(s.proposals)
         /\ \A i \in 1..Len(s.created) : s.created[i].title = s.proposals[i]
    ELSE s.created = <<>>

ValidSnapshot(s) ==
    /\ s.revision <= MaxRevision
    /\ s.version >= 1
    /\ ValidContext(s)
    /\ ValidCreated(s)
=============================================================================

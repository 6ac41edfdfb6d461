----------------------------- MODULE ClientWrites -----------------------------
(***************************************************************************)
(* The durable writes of the app: every start and every action of a plan   *)
(* is saved on the device before it is sent (pendingWorkflowWrite.ts), and *)
(* its record is what a later screen offers to retry when its outcome is   *)
(* not known (TodoWorkflowScreen.tsx).                                     *)
(*                                                                         *)
(* One owner and one running app, or browser tab: screens come one after   *)
(* another, and what an earlier one left running goes on beside the next.  *)
(* An asynchronous function is a job with a list of steps.  The writes of  *)
(* suggestions are left out.  The server is what WorkflowContract promises *)
(* of it: a request id takes effect once, and keeps its answer.            *)
(***************************************************************************)
EXTENDS Naturals, Sequences, FiniteSets, SequencesExt

CONSTANTS
    None,
    Jobs,             \* asynchronous functions that run at a time
    MaxWrites,        \* bound: request ids
    Starts,           \* bound: the request ids a plan may be started with
    Elsewhere,        \* bound: the plans another device moves on, with the revision it does so at
    MaxRevision       \* bound: the revision a plan ends with

ASSUME ClientWritesAssumption ==
    /\ MaxWrites \in Nat /\ MaxRevision \in Nat
    /\ None \notin Nat
    /\ None \notin [plan : 0..MaxWrites, expected : (0..MaxRevision) \cup {None}]
    /\ Elsewhere \subseteq (0..MaxWrites) \X (0..(MaxRevision - 1))

VARIABLES
    body,             \* the write each request id was generated for
    journal, revision, \* the server: the answer to each request id, the plans' revisions
    network,          \* requests that may yet reach the server
    store,            \* the request id of the record under the owner's key
    queue,            \* ownerQueues: the saves and clears, in call order
    job, screen,
    cached,           \* the query cache: the revision of each plan
    fate              \* history: what became of each write, as this device knows

server  == <<journal, revision>>
vars == <<body, server, network, store, queue, job, screen, cached, fate>>

Ids   == 1..MaxWrites
Plans == 0..MaxWrites  \* a plan is named for the write that starts it; 0 is an older one

Absent == [up |-> FALSE, plan |-> None, pending |-> None, failed |-> FALSE,
           unloaded |-> FALSE]
Idle   == [kind |-> "idle", id |-> None, plan |-> None, steps |-> <<>>, at |-> "start",
           seen |-> None]

Init ==
    /\ body = [i \in Ids |-> None]
    /\ journal = [i \in Ids |-> None] /\ revision = [p \in Plans |-> IF p = 0 THEN 0 ELSE None]
    /\ network = {} /\ store = None /\ queue = <<>>
    /\ job = [j \in Jobs |-> Idle] /\ screen = Absent
    /\ cached = [p \in Plans |-> None]
    /\ fate = [i \in Ids |-> "unsent"]

IsStart(i) == body[i].plan = i
Seen(p)    == IF p = None THEN None ELSE cached[p]

-----------------------------------------------------------------------------
(* Jobs.  One begins, goes on with a list of steps, or ends with the empty *)
(* list; a save or a clear takes its place in the queue when it is called. *)
LinesUp_Twice(j, steps) ==
    queue' = IF steps # <<>> /\ Head(steps) \in {"save", "clear"} THEN Append(queue, j)
             ELSE queue

LinesUp(j, steps) ==
    LET others == IF queue # <<>> /\ Head(queue) = j THEN Tail(queue) ELSE queue
    IN  queue' = IF steps # <<>> /\ Head(steps) \in {"save", "clear"} THEN Append(others, j)
                 ELSE others

Begins(kind, id, plan, steps) ==
    /\ \E j \in Jobs : job[j] = Idle
    /\ LET j == CHOOSE f \in Jobs : job[f] = Idle
       IN  /\ job' = [job EXCEPT ![j] = [Idle EXCEPT !.kind = kind, !.id = id, !.plan = plan,
                                          !.steps = steps]]
           /\ LinesUp(j, steps)

Becomes(j, kind, steps) ==
    /\ job' = [job EXCEPT ![j] =
                  IF steps = <<>> THEN Idle
                  ELSE [@ EXCEPT !.kind = kind, !.steps = steps, !.at = "start", !.seen = None]]
    /\ LinesUp(j, steps)

Goes(j, steps) == Becomes(j, job[j].kind, steps)
Ends(j)        == Goes(j, <<>>)
Turns(j, at)   == job' = [job EXCEPT ![j].at = at] /\ UNCHANGED queue

Doing(j, step, at) == job[j].steps # <<>> /\ Head(job[j].steps) = step /\ job[j].at = at

(* A state setter of the screen that called has no effect on the next one. *)
Here(kinds)    == {j \in Jobs : job[j].kind \in kinds}
Sets(j, value) == screen' = IF job[j].kind = "left" THEN screen ELSE value

(* A start that was answered selects its plan when it is done.             *)
Chosen(j) == IF job[j].kind = "write" /\ IsStart(job[j].id) THEN job[j].id ELSE screen.plan

Busy        == Here({"write", "discard"}) # {}
Fetching    == Here({"load", "reload"}) # {}
Reconciling == Here({"refused", "reload"}) # {}

-----------------------------------------------------------------------------
(* The device's storage.  runOwnerExclusive: one save or clear at a time.  *)
Turn(j) == Head(queue) = j

(* save: refused while another write's record is there, else written and   *)
(* read back.  A read that is put right by the one after it is left out,   *)
(* and so is the removal of what cannot be read as a record.               *)
Free_Any(j) == TRUE

Free(j) == store \in {None, job[j].id}

SaveFails(j) == Goes(j, IF job[j].kind = "left" THEN <<>> ELSE <<"look">>)

SaveChecks(j) ==
    /\ Doing(j, "save", "start") /\ Turn(j)
    /\ IF Free(j) THEN Turns(j, "checked") ELSE SaveFails(j)
    /\ UNCHANGED <<body, server, network, store, screen, cached, fate>>

(* What a discard or a manual reload decided of a write is not taken back. *)
Fated(i, what) ==
    [fate EXCEPT ![i] = IF @ \in {"discarded", "reloaded"} \/ (what = "sent" /\ @ # "unsent")
                        THEN @ ELSE what]

(* Nothing is sent for a session that is not current.                      *)
SaveWrites(j) ==
    /\ Doing(j, "save", "checked") /\ Turn(j)
    /\ store' = job[j].id
    /\ IF job[j].kind = "left" THEN UNCHANGED <<network, fate>>
       ELSE /\ network' = network \cup {job[j].id}
            /\ fate' = Fated(job[j].id, "sent")
    /\ Goes(j, Tail(job[j].steps))
    /\ UNCHANGED <<body, server, screen, cached>>

SaveRejected(j) ==
    /\ Doing(j, "save", "checked") /\ Turn(j)
    /\ store' \in {store, job[j].id}
    /\ SaveFails(j)
    /\ UNCHANGED <<body, server, network, screen, cached, fate>>

(* handleSaveFailure                                                       *)
Looks(j) ==
    /\ Doing(j, "look", "start")
    /\ \E found \in {store, None} : screen' = [screen EXCEPT !.pending = found]
    /\ Ends(j)
    /\ UNCHANGED <<body, server, network, store, cached, fate>>

(* clear: only the record of the same write is removed.                    *)
Cleared(j) ==
    /\ Sets(j, [screen EXCEPT !.pending = None, !.plan = Chosen(j),
                              !.failed = @ /\ job[j].kind # "reload"])
    /\ Goes(j, Tail(job[j].steps))

ClearChecks(j) ==
    /\ Doing(j, "clear", "start") /\ Turn(j)
    /\ IF store = job[j].id THEN Turns(j, "checked") /\ UNCHANGED screen ELSE Cleared(j)
    /\ UNCHANGED <<body, server, network, store, cached, fate>>

ClearRemoves(j) ==
    /\ Doing(j, "clear", "checked") /\ Turn(j)
    /\ store' = None
    /\ Cleared(j)
    /\ UNCHANGED <<body, server, network, cached, fate>>

(* A call of the storage rejects, and the record stays offered.            *)
ClearFails(j) ==
    /\ \E at \in {"start", "checked"} : Doing(j, "clear", at) /\ Turn(j)
    /\ Sets(j, [screen EXCEPT !.pending = job[j].id, !.plan = Chosen(j),
                              !.failed = @ \/ job[j].kind = "reload"])
    /\ Ends(j)
    /\ UNCHANGED <<body, server, network, store, cached, fate>>

(* A new screen reads the record an earlier one left.                      *)
Hydrates(j) ==
    /\ Doing(j, "read", "start")
    /\ \E found \in {store, None} :
          job' = [job EXCEPT ![j].at = "read", ![j].id = found] /\ UNCHANGED queue
    /\ UNCHANGED <<body, server, network, store, screen, cached, fate>>

Hydrated(j) ==
    /\ Doing(j, "read", "read")
    /\ LET i == job[j].id
           p == IF i = None \/ screen.plan # None THEN screen.plan
                ELSE IF IsStart(i) THEN None ELSE body[i].plan
       IN  screen' = IF i = None THEN screen
                     ELSE [screen EXCEPT !.plan = p, !.pending = IF @ # None THEN @ ELSE i]
    /\ Ends(j)
    /\ UNCHANGED <<body, server, network, store, cached, fate>>

-----------------------------------------------------------------------------
(* The server.  An action is applied at the revision it was issued for.    *)
Serves(i) ==
    /\ i \in network
    /\ network' = network \ {i}
    /\ LET p == body[i].plan
           applied == journal[i] = None /\ (IsStart(i) \/ revision[p] = body[i].expected)
           next == IF IsStart(i) THEN 0 ELSE revision[p] + 1
       IN  /\ journal' = IF applied THEN [journal EXCEPT ![i] = next] ELSE journal
           /\ revision' = IF applied THEN [revision EXCEPT ![p] = next] ELSE revision
    /\ UNCHANGED <<body, store, queue, job, screen, cached, fate>>

OtherDevice(p) ==
    /\ <<p, revision[p]>> \in Elsewhere
    /\ revision' = [revision EXCEPT ![p] = @ + 1]
    /\ UNCHANGED <<body, journal, network, store, queue, job, screen, cached, fate>>

-----------------------------------------------------------------------------
(* The cache, and the requests of the screen.                              *)
KeepLatest(old, incoming) == IF old # None /\ old > incoming THEN old ELSE incoming

Seed(p, r) == cached' = [cached EXCEPT ![p] = KeepLatest(@, r)]

(* settleStartResponse, settleAdvanceResponse: the record is cleared when  *)
(* the current plan has been read.                                         *)
Proven_Unread == <<"clear">>

Proven == <<"get", "clear">>

PostAnswered(j) ==
    /\ Doing(j, "post", "start") /\ journal[job[j].id] # None
    /\ LET i == job[j].id
       IN  /\ fate' = Fated(i, "answered")
           /\ IF IsStart(i) THEN Seed(i, journal[i]) ELSE UNCHANGED cached
    /\ screen' = [screen EXCEPT !.failed = FALSE]
    /\ Goes(j, Proven)
    /\ UNCHANGED <<body, server, network, store>>

(* settleAdvanceError: a stale step was refused, and always will be.       *)
Refused(i) == journal[i] = None /\ ~IsStart(i) /\ revision[body[i].plan] # body[i].expected

PostRefused(j) ==
    /\ Doing(j, "post", "start") /\ Refused(job[j].id)
    /\ fate' = Fated(job[j].id, "refused")
    /\ screen' = [screen EXCEPT !.failed = FALSE]
    /\ Becomes(j, "refused", <<"clear", "get">>)
    /\ UNCHANGED <<body, server, network, store, cached>>

(* No reply in time: the request reaches the server later, or never.       *)
PostTimesOut(j) ==
    /\ Doing(j, "post", "start")
    /\ Ends(j)
    /\ UNCHANGED <<body, server, network, store, screen, cached, fate>>

(* fetchCurrentSnapshot, and the query of the plan.                        *)
GetServed(j) ==
    /\ Doing(j, "get", "start") /\ revision[job[j].plan] # None
    /\ job' = [job EXCEPT ![j].at = "served", ![j].seen = revision[job[j].plan]]
    /\ UNCHANGED <<body, server, network, store, queue, screen, cached, fate>>

GetReplies(j) ==
    /\ Doing(j, "get", "served")
    /\ Seed(job[j].plan, job[j].seen)
    /\ screen' = [screen EXCEPT
                    !.pending = IF job[j].kind = "refused" THEN None ELSE @,
                    !.failed = @ /\ job[j].kind \notin {"write", "refused", "reload"},
                    !.unloaded = @ /\ job[j].kind \notin {"load", "reload"}]
    /\ fate' = IF job[j].kind = "reload" /\ job[j].id # None
               THEN Fated(job[j].id, "reloaded") ELSE fate
    /\ Goes(j, Tail(job[j].steps))
    /\ UNCHANGED <<body, server, network, store>>

GetFails(j) ==
    /\ Doing(j, "get", "start")
    /\ screen' = [screen EXCEPT !.failed = @ \/ job[j].kind # "load", !.plan = Chosen(j),
                                !.unloaded = @ \/ (job[j].kind \in {"load", "reload"}
                                                     /\ Seen(screen.plan) = None)]
    /\ Ends(j)
    /\ UNCHANGED <<body, server, network, store, cached, fate>>

-----------------------------------------------------------------------------
(* What the owner does.  A plan is opened from the list of plans, whose    *)
(* query may have seeded the cache with it.                                *)
Mount(p) ==
    /\ ~screen.up
    /\ p # None => revision[p] # None
    /\ screen' = [Absent EXCEPT !.up = TRUE, !.plan = p]
    /\ Begins("hydrate", None, None, <<"read">>)
    /\ UNCHANGED cached \/ (p # None /\ Seed(p, revision[p]))
    /\ UNCHANGED <<body, server, network, store, fate>>

Load ==
    /\ screen.plan # None /\ Seen(screen.plan) = None /\ ~screen.unloaded /\ ~Fetching
    /\ Begins("load", None, screen.plan, <<"get">>)
    /\ UNCHANGED <<body, server, network, store, screen, cached, fate>>

(* persistAndSend: the record is saved first, and sent as it was stored.   *)
Persist(i, b) ==
    /\ screen' = [screen EXCEPT !.pending = i]
    /\ Begins("write", i, b.plan, <<"save", "post">>)
    /\ UNCHANGED <<server, network, store, cached, fate>>

Fresh(i) == body[i] = None /\ \A k \in 1..(i - 1) : body[k] # None

SubmitStart(i) ==
    /\ screen.up /\ Fresh(i) /\ i \in Starts
    /\ Seen(screen.plan) = None /\ ~Busy /\ screen.pending = None
    /\ LET b == [plan |-> i, expected |-> None]
       IN  body' = [body EXCEPT ![i] = b] /\ Persist(i, b)

SubmitAction(i) ==
    /\ screen.up /\ Fresh(i)
    /\ Seen(screen.plan) \in 0..(MaxRevision - 1)
    /\ ~Busy /\ ~Fetching /\ ~Reconciling /\ ~screen.failed /\ screen.pending = None
    /\ LET b == [plan |-> screen.plan, expected |-> Seen(screen.plan)]
       IN  body' = [body EXCEPT ![i] = b] /\ Persist(i, b)

RetryPending ==
    /\ screen.pending # None /\ ~Busy /\ ~Reconciling
    /\ Persist(screen.pending, body[screen.pending])
    /\ UNCHANGED body

DiscardPending ==
    /\ screen.pending # None /\ ~Busy /\ ~Reconciling
    /\ LET i == screen.pending
       IN  /\ fate' = [fate EXCEPT ![i] = "discarded"]
           /\ Begins("discard", i, body[i].plan,
                     IF IsStart(i) THEN <<"clear">> ELSE <<"clear", "get">>)
    /\ UNCHANGED <<body, server, network, store, screen, cached>>

(* The button is there after a failed read, whatever else is under way.    *)
Reload ==
    /\ screen.plan # None /\ ~Fetching
    /\ screen.failed \/ (Seen(screen.plan) = None /\ screen.unloaded)
    /\ screen' = [screen EXCEPT !.failed = FALSE]
    /\ Begins("reload", screen.pending, screen.plan,
              IF screen.pending = None THEN <<"get">> ELSE <<"get", "clear">>)
    /\ UNCHANGED <<body, server, network, store, cached, fate>>

(* The screen goes, or its session does: a save or a clear under way goes  *)
(* on, and whatever else was awaited is dropped when it comes.             *)
Leave ==
    /\ screen.up
    /\ screen' = Absent
    /\ job' = [j \in Jobs |->
                 IF j \in Range(queue)
                 THEN [job[j] EXCEPT !.kind = "left", !.steps = <<Head(@)>>, !.plan = None]
                 ELSE Idle]
    /\ UNCHANGED <<body, server, network, store, queue, fate>>

Exit ==
    /\ Leave
    /\ Seen(screen.plan) = MaxRevision
       \/ (Seen(screen.plan) = None /\ Here({"write"}) = {})
    /\ UNCHANGED cached

SessionChanges == Leave /\ cached' = [p \in Plans |-> None]

Crash ==
    /\ screen' = Absent
    /\ job' = [j \in Jobs |-> Idle] /\ queue' = <<>>
    /\ cached' = [p \in Plans |-> None]
    /\ UNCHANGED <<body, server, network, store, fate>>

-----------------------------------------------------------------------------
JobStep(j) ==
    \/ SaveChecks(j) \/ SaveWrites(j) \/ SaveRejected(j) \/ Looks(j)
    \/ ClearChecks(j) \/ ClearRemoves(j) \/ ClearFails(j) \/ Hydrates(j) \/ Hydrated(j)
    \/ PostAnswered(j) \/ PostRefused(j) \/ PostTimesOut(j)
    \/ GetServed(j) \/ GetReplies(j) \/ GetFails(j)

Next ==
    \/ \E j \in Jobs : JobStep(j)
    \/ \E i \in Ids : Serves(i) \/ SubmitStart(i) \/ SubmitAction(i)
    \/ \E p \in Plans : OtherDevice(p)
    \/ \E p \in Plans \cup {None} : Mount(p)
    \/ Load \/ RetryPending \/ DiscardPending \/ Reload
    \/ Exit \/ SessionChanges \/ Crash

Spec == Init /\ [][Next]_vars

-----------------------------------------------------------------------------
(* Every variable has its type, and the queue holds exactly the saves and  *)
(* clears that were called and have not settled, each once.                *)
TypeOK ==
    LET Maybe(S) == S \cup {None}
        Bodies == [plan : Plans, expected : Maybe(0..MaxRevision)]
        Steps == {"read", "save", "post", "look", "clear", "get"}
        Queued == {j \in Jobs : job[j].steps # <<>> /\ Head(job[j].steps) \in {"save", "clear"}}
    IN  /\ body \in [Ids -> Maybe(Bodies)]
        /\ journal \in [Ids -> Maybe(0..MaxRevision)]
        /\ revision \in [Plans -> Maybe(0..MaxRevision)]
        /\ cached \in [Plans -> Maybe(0..MaxRevision)]
        /\ store \in Maybe(Ids) /\ network \subseteq Ids
        /\ fate \in [Ids -> {"unsent", "sent", "answered", "refused", "discarded", "reloaded"}]
        /\ screen \in [up : BOOLEAN, plan : Maybe(Plans), pending : Maybe(Ids),
                       failed : BOOLEAN, unloaded : BOOLEAN]
        /\ \A j \in Jobs : Range(job[j].steps) \subseteq Steps
        /\ Range(queue) = Queued /\ Len(queue) = Cardinality(Queued)

(* A write that was sent stays recorded on the device until a reply, the   *)
(* owner or a manual reload settled it: neither another write's save nor a *)
(* late clear, of this screen or an earlier one, takes its record away.    *)
UnknownIsKept == \A i \in Ids : fate[i] = "sent" => store = i

(* What this device was told of its own writes on plan p, and has not      *)
(* given up.  Giving up the record of a start gives up the plan's: a start *)
(* sent again puts the plan it made, at its first revision, into an empty  *)
(* cache, and the record is what locks the plan until it is read.          *)
GivenUp == {"discarded", "reloaded"}

Answers(p) == {k \in Ids : /\ fate[k] = "answered" /\ body[k].plan = p
                           /\ p \in Ids => fate[p] \notin GivenUp}

(* No action is sent from a view of the plan older than an answer this     *)
(* device was given and has not given up: the screen reads the plan before *)
(* it lets go of the record that locks it, and a reply that comes late     *)
(* does not take the plan back in the cache.                               *)
OwnAnswersSeen ==
    [][\A i \in Ids :
          fate[i] = "unsent" /\ fate'[i] = "sent" /\ ~IsStart(i) =>
              \A k \in Answers(body[i].plan) : body[i].expected >= journal[k]]_vars

=============================================================================

# A verification of the todo workflow system

This directory is a TLA+ development of the program in the repository: a
FastAPI/PostgreSQL server that turns a goal into todos through a short
*workflow* (a plan), a worker that fetches title suggestions for a plan, and the
Expo client that drives both. The modules model the code, TLC checks them on
small instances, and TLAPS proves the results that matter most for every value
of the constants. Every definition names, in `PROJECT.json`, the source lines it
stands for.

## 1. Inventory

| Part | State it keeps | Operations | What is hard about it |
| --- | --- | --- | --- |
| **Workflow engine** `app/workflow_domain.py`, `workflow_service.py`, `workflow_repository.py` | `todo_workflows` rows, the start and action journals, todos, outbox events | start, advance (answer, submit, confirm, cancel), get, list | two requests at once on one plan; a retry after a lost reply; a crash before commit; a replayed snapshot that must still validate |
| **Suggestion service** `suggestion_service.py` | `todo_workflow_suggestion_requests` rows with status, deadlines and a permanent claim marker | reserve, claim, finish, supersede, expire, current | a provider call between two transactions; duplicate and late deliveries; a plan that moves on meanwhile; clocks read before a lock is granted |
| **Suggestion delivery** `worker.py`, `suggestion_tasks.py`, the suggestion routes of `main.py` | Cloud Tasks tasks; nothing else | enqueue, deliver, sweep | at-least-once delivery; an enqueue whose answer is lost; API processes of two modes during a rollout |
| **Analytics outbox** `analytics_events.py`, `analytics_export.py`, `/internal/analytics/export` | `analytics_events` rows, `exported_at`; the BigQuery table | record, export batch, prune | a crash between load and mark; two exports at once |
| **Accounts and sessions** `auth_repository.py`, auth routes of `main.py` | users, hashed session tokens with an expiry | sign up, log in, authenticate, log out | expiry racing use |
| **Todos** `todo_repository.py`, `backfill_completed_at.py` | todos with the columns `completed` and `completed_at` | list, create, complete, rename, delete, backfill | two writers of one fact while a column is replaced |
| **Agent endpoint** `agent.py` | none (reads the plan) | one AG-UI run: a stream of events | a choice made by a provider on a plan read before the await |
| **Client: durable writes** `pendingWorkflowWrite.ts` | one pending write per owner in device storage, a queue of saves and clears per owner | read, save, clear, save-and-send | the application dies between persist and send, or between reply and clear; what a closed screen left running goes on beside the next screen |
| **Client: session** `auth/AuthProvider.tsx`, `authenticatedApi.ts`, `tokenStorage.ts` | stored token, live token, session epoch, query cache | restore, sign in, sign out, session lost | every step awaits; a sign-out meets a sign-in half done; a late 401 of an older session |
| **Client: screens** `TodoScreen.tsx`, `TodoWorkflowScreen.tsx`, `TodoExperience.tsx`, `workflowCache.ts` | the query cache, the write that locks the screen | optimistic edits; start, act, retry, discard, reload, open and close a plan; poll | replies that arrive out of order; an answer without a reply; rollback of an optimistic edit |
| **IVR spike, caller** `spikes/ivr/client.py`, `caller.py`, `cloud_runner.py`, `webhooks.py` | one run: its dial, the identity of its call, the dialogue, a verdict | dial, bind, key tones, judge the amount, hang up, time out, interrupt, shut down | callbacks before the dial's reply, late or twice; transcripts in pieces; commands whose outcome is not known |
| **IVR spike, test IVR** `spikes/ivr/fixture.py` | one active call, calls being turned away, tombstones | answer, prompt, gather, retry, refuse, announce, hang up | a second call; callbacks of a call that is over |
| **IVR spike, grammar** `spikes/ivr/speech.py` | none | recognise prompts, parse the amount | a final cut in the middle of a number |
| **Release script** `scripts/release_deploy.py`, `release_smoke.py` | revisions, tags and traffic of two services; a migration | check, migrate, deploy, look, smoke, promote, verify, prove; restore, clean up, summarise | a call of several that fails, before or after it took effect; traffic that others move; a restoration that fails |

How they meet: the client sends workflow and suggestion requests with an
idempotency key it has first stored on the device; the API runs each in
transactions of PostgreSQL (READ COMMITTED, row locks); workflow and suggestion
commits write outbox events in the same transaction; a suggestion reservation is
followed by a Cloud Tasks task, delivered to the worker any number of times; two
scheduled calls, the expiry sweep and the analytics export, run beside all of it.
Every client write of a plan is a record on the device first and a request
second; what the server promises for it is the contract of section 2. The
release script decides which version of the program answers, and so which
version of the todo columns is read. The IVR spike stands alone: the caller and
the test IVR meet over a telephone network.

## 2. Modules

| Module | What it is | Models |
| --- | --- | --- |
| `WorkflowDomain` | operators | the state machine `transition`, the closed validation of stored snapshots (`workflow_domain.py`, `workflow_repository.py:405-535`) |
| `WorkflowTables` | operators | plans, journals and todos as both levels of the workflow modules see them |
| `WorkflowContract` | abstract state machine | what a client may rely on: each request takes effect at once and at most once, and is answered by what it did |
| `WorkflowService` | state machine | `workflow_service.py` on PostgreSQL: transactions, the row lock, the two journals, crashes, retries |
| `SuggestionTables` | operators | `todo_workflow_suggestion_requests` and the decisions the service takes about one row |
| `SuggestionService` | state machine | API requests, tasks and workers, the expiry sweep, plans that move on, the database's clock |
| `AnalyticsExport` | state machine | the outbox rows, the exports, BigQuery load jobs |
| `ClientSession` | state machine | the app's session: token store, logins, sign-outs, requests and the cached list |
| `ClientWrites` | state machine | the device's record of one write, the owner's queue, the plan's screen and cache, over a server that keeps the contract |
| `TodoColumns` | state machine | rows of todos while `completed_at` takes over from `completed`: requests of every version, the backfill |
| `ReleaseDeploy` | state machine | `deploy()`: a list of calls that fail or not, the restoration, the cleanup, the summary |
| `Release` | composition | `ReleaseDeploy` decides which version of the program serves the requests of `TodoColumns` |
| `IvrSpeech` | operators | prompts as the test IVR speaks them, and the grammar that recognises them |
| `IvrFlow` | operators | `ClientFlow`: one call's dialogue, from an event and a time to the next flow |
| `IvrRun` | abstract state machine | what a run promises its operator: one verdict, kept, and reported in the end |
| `IvrCaller` | state machine | one run: dial, identity, watchdog, shutdown, interruption |
| `IvrAnyNetwork` | composition | `IvrCaller` before a network that may say anything; implements `IvrRun` |
| `IvrFixture` | state machine | the test IVR: its active call, busy calls, tombstones |
| `IvrCall` | composition | caller, test IVR and the telephone network between them |
| `MC*` | instances | the small sets each run gives the constants |
| `WorkflowServiceProofs`, `SuggestionServiceProofs`, `AnalyticsExportProofs`, `ClientSessionProofs`, `ClientWritesProofs`, `ReleaseProofs`, `IvrCallerProofs`, `IvrProofs` | proofs | the theorems of section 6 |

`WorkflowService` implements `WorkflowContract`: `Contract == INSTANCE
WorkflowContract` maps its tables by name and hides `txn`, and
`ImplementsContract` is the contract's specification. `SuggestionService` uses
the plans and the state machine of `WorkflowDomain`; a plan advances there in
one step, which the refinement justifies. `ClientWrites` takes the server as the
contract promises it: a request id takes effect once and keeps its answer.
`IvrAnyNetwork` implements `IvrRun`: `INSTANCE IvrRun WITH` maps the promise to
the phase of the run, its verdict wherever the code holds it, and the record
that was printed.

### How state and actions correspond to the code

**Workflow.** A transaction is what some API process holds between `begin` and
`commit`. `InsertStart` is the insert of the request row, which makes any other
start with its key wait; `CommitStart` the plan, its event and the commit.
`LockAndRead` is `SELECT ... FOR UPDATE` with what is read under the lock;
`CommitAdvance` everything an accepted action writes; `EndAdvance` every answer
that writes nothing, a replay included; `Rollback` a crash or an error at any
point before the commit. A reply can be lost because replies are not state: a
client sends any request again at any time, with the same or other details.
`snapshot_from_record` is `ValidSnapshot`, with titles as model values.

**Suggestions.** An API request goes through `BeginReserve` (transaction opened,
clock read), `ReserveNew`, `ReservePending` or `ReserveAnswered` (the plan's row
lock granted, everything written), then in queued mode `LookUp`, `Enqueue` or
`EnqueueFails`, `ReadPlan`, `ReadLatest`, and in inline mode `ProviderAnswers` and
`FinishInline`. The clock is read when a transaction begins and may be old when
its lock is granted. `EndRequest` ends a request at any point: with its answer,
or because the process died. A task is a name in a set and may be delivered any
number of times to any worker, before or after it was needed (`Deliver`), then
`Claim`, `ProviderReturns`, `FinishClaimed`; `DeliveryDies` at any point. A sweep
takes its rows one by one (`SweepRow`, `SkipRow`) and commits them together
(`EndSweep`), or not at all (`SweepDies`). `CloudModes` says which modes the API
processes run in. `grants` is a history variable: provider calls granted per
row. Owners are left out because every query carries the owner and finds
nothing for another.

**Analytics.** `Insert` and `EndWrite` are the business transaction an event is
added to (identities are given before commits, so they commit in any order);
`Select`, `Load`, `Mark`, `Prune` the steps of one export; `LoadRaises` a load
that is refused or whose wait times out, its job running on (`jobs`, `JobEnds`);
`Dies` the end of the worker at any point. The warehouse is a set: a row loaded
twice is one event to its readers, whose view deduplicates by `event_id`
(`infra/terraform/sandbox/analytics/events_deduped.sql.tftpl`).

**Session.** A step is what JavaScript's event loop runs between two awaits.
On the web the token store settles in microtasks, so nothing comes between a
reply and the end of its completion (`Quiet`); on a device it is a native call
that lets other events in and may reject (`Faults`). A closure keeps the
`signingOut` of the render that made it (`flag`). `Restart` loses memory and
keeps the token store and the server. A request carries the token and the epoch
it was sent with, and whether its query is still in the cache (`cached`);
`Denied` is a 401 seen by the guard, `Rollback` what a failed completion puts
back. `listed` and `written` tell rows a list loaded from rows mutation
callbacks put beside them.

**Client writes.** An asynchronous function of the screen is a job: a list of the
steps it still awaits (`save`, `post`, `get`, `clear`, `look`, `read`). A step of
the storage has its turn only at the head of the owner's queue (`Turn`,
`runOwnerExclusive`), and checks before it writes. `Serves` is the server's
contract; a request stays in `network` until it is served, which may be long
after the app gave it up (`PostTimesOut`) or never. A `get` reads the server in
one step and replies in another, so replies overtake one another. `Leave`
(`Exit`, `SessionChanges`) drops what is awaited except a save or clear that
began, which goes on; `Crash` drops everything but the record. `fate` is a
history variable: what this device knows of each write.

**Release.** `deploy()` is the list of the calls it has still to make
(`Plan`, `Restoration`, `Cleaning`); `Returns` takes the first off the list, with
its effect and what the code makes of the result, and `Fails` raises, whether or
not the effect took place. `cloud` says of each service what it was told to
serve and what it serves; a promotion or restoration may return before the one
has become the other (`waited`), which is what the script describes the service
again for, and the traffic comes later (`Arrives`). `Meddles` is traffic moved
back by somebody else, before the look at it, before the worker's promotion or
before a promotion is verified; `RollBack` is what the summary tells the
operator to do, `Interrupted` a run that is killed. A version is a number, `schema` the one the
database is migrated to. In `TodoColumns` a request is a transaction by one
version (`UpdateTodo`, then `Commits` or `GoesBack`), so a transaction of the
version before may be open when the next one serves; the backfill's two
statements skip locked rows. The operator follows the guide: delivery is paused
while the backfill runs, and the version that reads the new column waits for the
gate query (`GatePassed`, `docs/guides/23-resilience.md`), and for requests of
programs that write one column to have ended, which guide 23's query does not
ask: such a request would have to outlive the release that replaced its program
and the backfill. The gate holds a release back until the columns agree, whatever the backfill did, so
`ReadsTrue` is about the writers, roll-backs and moved traffic, and not about
the backfill's two statements.

**IVR.** Each region under the caller's lock is one step, since none awaits. A
transcript is a sequence of words and of one token per phrase that a pattern
matches as a whole; amounts are word for word, since `SuccessIsTrue` is about
where they are cut. Time is in seconds of the watchdog, which wakes each second.
The flow's commands are appended to `issued`, in the order they are reserved. In
`IvrCall` the network numbers what it tells (`told`) and may deliver it late,
twice, out of order or not at all (`Leaves`, `Loses`, `Breaks`); `line` is what it
knows of each call. The fixture is closed before the caller, as in
`webhooks.py:126-147`.

## 3. Runs

| Run | Instance | What it shows |
| --- | --- | --- |
| `workflow_full_path` | 1 plan, 2 processes, 4 request ids, every payload, revisions to 4 (the longest path) | types, no stale decision, readable journal, history is a run of the state machine |
| `workflow_two_plans` | 3 plans, the third saved by another definition version; 2 owners, 2 ids | exactly-once todos and events; the contract is implemented: first answers kept, ended and foreign plans never written |
| `suggestion_delivery` | 1 row, 2 workers, both modes, a sweep, a clock past both deadlines | one provider call, outbox equals rows, rows only move forward |
| `suggestion_requests` | 2 clients, 2 ids, 2 payloads on a moving plan, 1 worker, reservations before and after a tick | types, table checks, only the last request pends, results fit the plan |
| `suggestion_backlog` | 2 queued rows, a worker that may be lost, a sweep of one row at a time | every queued row settles, under fairness |
| `analytics_export` | 2 events, 2 exports, batches of one, clock to 3 | nothing lost, nothing invented, everything exported in the end |
| `session` | web and device; 2 users, 2 sessions, 2 logins and 2 sign-outs in flight, a store that may reject | the epoch names a session and a newer one is left alone (web), no listed rows of others, the store holds what is shown, a revoked token never strands the screens |
| `session_rows` | web, two requests | the finding of section 5 |
| `client_writes` | 2 writes of one owner, a start and actions on two plans, 2 jobs at once, another device that moves a plan | a write whose outcome is unknown keeps its record; no action is sent from a view older than an answer |
| `release` | 2 releases with or without a worker, 2 troubles (a failed call, a wrong image, a late move, another's move), 2 todos, batches of one | worker before API, schema before code, all or nothing, an honest summary, todos that read true throughout |
| `ivr_run` | one run, a network that does what is awaited but for one surprise of any kind | tones follow speech, no call is abandoned, the run keeps its contract |
| `ivr_call` | caller and test IVR, 3 scenarios, an announcement cut at two places, one failure anywhere | a success is the amount announced, both ends stay in step, calls end once, both ends let go |

Bounds. `MaxRevision` is the code's own constant, set to the longest path; the
real value is never reached, since every accepted action moves a plan nearer
its end. `MaxSuggestions` and `MaxClock` bound a history. Both lifetimes are one
or two ticks, so that a claim can lapse before, with and after its reservation.
`LastReservation` bounds when a reservation may begin: at 0 or 1 where claims are
compared with reservations, so that a claim's clock may be older, equal or newer;
in `suggestion_backlog` at 0, so that the clock passes every deadline.
`Cleanups` and `Attempts` bound what is in flight at once: two of each meet in
every order, and a third adds nothing that two do not already make of the one
`liveRef`, `epochRef` and chain they share. In `client_writes` two writes are
needed for one to take the other's record, two jobs for what an earlier screen
left running beside the next, and a plan older than both for an action that no
start of this device precedes; `MaxRevision` 2 lets an own answer and another
device's both come between a view and its use. In `release` a transaction is
open at a time (`MaxWriting`) on two rows, so that the backfill skips one and
finds the other; two troubles let a restoration fail after the call that made it
necessary. In the IVR runs codes and the configured id have one digit, timeouts
one or two seconds, in the order of the real ones; the announcement is at most
two finals. `MaxEventIds` and `MaxFixtureIds` are out of reach: both ends count
4096. Where the clock or the callbacks are bounded the runs allow the end of a
behaviour (`CHECK_DEADLOCK FALSE`): a run that is over does nothing more.
Symmetry is used for safety only, over request ids, processes, workers and jobs,
which no definition tells apart.

Every property has a mutant in `PROJECT.json`: a definition of the model changed
the way a plausible bug would change the code, under which the run finds the
property violated. The mutated operators stand beside the originals
(`Answer_IgnoresJournal`, `Sweepable_OnceIsEnough`, ...) and nothing else uses
them.

## 4. Fairness

Safety properties assume none. Five runs have liveness properties:

- `QueuedSettles`: time passes; the scheduler starts a sweep every five minutes
  (`infra/terraform/sandbox/tasks.tf:252-262`, unless it is paused), a running sweep goes on,
  and from some time on sweeps are not killed nor beaten to every row lock (the
  transactions that hold one are short). Nothing is assumed of clients, tasks,
  workers or the provider.
- `EveryEventExported`: exports are started for ever (`analytics.tf:194-214`), and of the loads that are
  tried again and again some succeed and get to be marked (strong fairness). A
  load BigQuery refuses each time would rightly never be exported.
- `RevokedNeverStrands`: calls of the token store and of the network settle (a
  request is aborted after five seconds, `todoApi.ts:300-459`), screens go on
  asking, and a refusal is not lost each time. Logins need not be tried.
- `KeepsRunContract`, whose last part is that a run ends with its report: the
  process runs, so its tasks go on, time passes and the watchdog wakes each
  second (`webhooks.py:108-124`). Nothing is assumed of the network.
- `BothEndsLetGo`: the same of both ends, and that the network does what it is
  asked or breaks down for good; either is enough.

## 5. Findings

`session_rows` is a run that must fail: callbacks of a mutation outlive
`queryClient.clear()` and put the previous user's rows in the cache of the next
(`NeverFlash`). The other differences between code and comment that were met
while modelling have no run of their own; the properties are stated so that they
hold of the code as it is.

*Suggestions.* `worker.py:662-665` takes a discarded result for a row that
"already reached a terminal state"; past a deadline `finish_claimed_suggestion`
discards and leaves the row pending until a sweep. `main.py:1000-1003` says a POST
reconciles the saved state after its enqueue; it reads the row through the
session that already holds it, whose objects do not expire (`database.py:29`), so
a finished row is answered as pending. The client polls, so this costs a poll.

*Session.* On a device, `handleAuthenticated` bumps the epoch before it awaits the
token store and the live token changes after: work sent between carries the old
token and an epoch the new session keeps, which is why `EpochMeansSession` is
about the web. A login that completes while a sign-out awaits `storage.clear()`
(`AuthProvider.tsx:165`) installs its session, and the sign-out then clears its
user, status and queries although its token stays live and stored: the comment
at line 158 would have it left alone, and `NewerSessionStands` too is about the
web. An overtaken completion finds its own token in the store and not the newer
one, as lines 203-205 say: the newer one is written after it.

*Client writes.* A reload clears the record of a write whose outcome is not known
(`TodoWorkflowScreen.tsx:1710-1722`), and even one of another plan's start, when
the first read of a plan failed or a retry is under way; guide 09 says
(line 150 on) that a timeout, a failure or the end of the app keep the record. Both
properties of the run leave reloaded writes out. `save` may remove the record of
a write that was sent when two reads in a row are garbled, where
`pendingWorkflowWrite.ts:297-299` says only garbage is removed; garbled reads are
left out. A plan seeded by the list of plans is not "refetched authoritatively"
(`TodoExperience.tsx:71-72`), since the client's queries never go stale
(`src/apps/mobile/App.tsx:10`): an action from such a view is refused if it is old, and the
refusal reads the plan.

*Release.* A release that is interrupted between its calls writes the summary of a
success, because no exception of its own was caught (`release_deploy.py:334, 419`);
`AllOrNothing` and `SummaryTellsTruth` leave releases that were cut out.

*IVR.* When the server stops first, `caller.py:104-106` prints `internal_error`
even if the flow has decided. After an uncertain dial the buffered callbacks are
replayed, which may key tones before the hangup. A flow that hangs up and then
meets its limit of event ids hangs up again and waits another budget. If an
announcement came in three finals and the middle one were lost, the rest could
be another amount (`speech.py:380-401`); two finals, as checked, cannot.

That a launch forgets its token on any error is documented
(`docs/guides/06-auth.md:76-84`) and so is the rollback from queued to inline mode
with rows pending (`docs/guides/20-cloud-tasks-scheduler.md`).

## 6. Proofs

| Module | Theorems |
| --- | --- |
| `WorkflowServiceProofs` | `TypeCorrect`, `LocksCorrect`, `AnswerNeverStale`, `ContractImplemented`, `JournalAlwaysReadable`, `EventsTellTruth`, `TodosMadeOnce`, `JournalIsHistory` |
| `SuggestionServiceProofs` | `SuggestionTypeCorrect`, `SuggestionTableChecksHold`, `SuggestionRowsMoveForward`, `SuggestionOnlyLatestPends`, `SuggestionResultFitsPlan`, `SuggestionOneProviderCall`, `SuggestionOutboxTrue` |
| `AnalyticsExportProofs` | `ExportTypeCorrect`, `ExportLosesNothing`, `ExportOnlyCommitted` |
| `ClientSessionProofs` | `SessionTypeCorrect`, `ShownSessionIsStored`, `ListsAreOwn`, `EpochIsSession`, `NewerStands` |
| `ClientWritesProofs` | `WritesInvariant`, `WritesTypeCorrect`, `UnknownStaysRecorded`, `AnswersInvariant`, `AnswersStaySeen` |
| `ReleaseProofs` | `ApiFollowsWorker`, `ServesWhatWasProved`, `ReleaseIsWhole`, `SummaryHolds`, `UsersReadTheTruth` |
| `IvrProofs` on the lemmas of `IvrCallerProofs` | `CallerOwnsFlow`, `TonesAnswerSpeech`, `CallsAreLeft`, `FirstVerdictStands`, `BothEndsAgree`, `CallsEndForGood`, `BothEndsKeepPace`, `NeitherIsAhead`, `NothingElseIsHeard`, `SuccessIsHeard` |

They hold for any sets of owners, plans, requests, processes, workers, sweeps,
events, exporters, users, tokens, logins, screens' functions, todos and for any
number of releases, from the `ASSUME`s of the modules, which TLC evaluates in
every run: batches and lifetimes of at least one, payloads and first plans of
the right type, breakdowns of two to ten titles, a `None` that is none of the
values it stands beside, a version that reads `completed_at` released after the
one that writes both columns, and in the IVR spike any script, texts, times,
timeouts and limits. The bounds (`MaxClock`, `MaxSuggestions`, `MaxRevision`,
`MaxWrites`, `Latest`, `MaxEvents`) may be any natural number.

*Workflow.* The invariant is `TypeOK` with `LockInv`: a reserved key or plan
identity stays free until its start commits, two transactions never reserve the
same one or lock the same row, and what an advance read under its lock is what
is committed. The last part is what no single action shows: it is why the
compare-and-set of `CommitAdvance` never fails and why each commit is one step
of the contract (`ContractStep`, with a rollback and a replay as stutters).
`JournalAlwaysReadable` is a separate induction on `RowsReadable`: every stored
row passes the validation, and `AdvancedValid` shows the state machine keeps it.

*Histories.* `OnlyCommits` first says that rows, journals, todos and events
change together, by a whole start or a whole advance, or not at all; the rest is
about those two steps only, however transactions interleave. `JournalIsHistory`
then needs `HistoryInv`: entries name the row as it is or as it was
(`EntriesPlaced`), each follows from the one before by one accepted action
(`EntriesFollow`), and no revision is missing or there twice (`EveryRevision`,
`NoRevisionTwice`), so that the chain can be walked back to its start.
`TodosMadeOnce` needs `IdsTaken`, that a completed row lists identities already
given, and is stated on sets of rows, so no sum is taken.

*Suggestions.* `Inv` adds to the types that row ids are given in order
(`IdsInv`), that the rows satisfy the table's checks and no reservation lies in
the future (`RowsInv`), that every id a task, request or worker carries is a
queued row that exists and was reserved before (`RefsInv`), and that a sweep
owns the locks of the rows it will fail (`LocksInv`): a row it has looked at
cannot settle before it commits. `RowStep` then says what any step does to the
rows, and the action properties follow from it. `OneProviderCall` needs
`CallsInv`: a row without a marker has no grant, and each grant is in the hands
of one request or one worker. For `SuggestionOutboxTrue` every step is one of
three shapes (`OutboxShape`): it leaves outcomes and outbox alone, settles one
row and tells it, or is a sweep that settles a finite set of rows and tells them
all; the counts are then cardinalities of disjoint sets.

*Analytics.* `Carried` says that what an export is about to mark is in the
warehouse, and `Committed` that a batch or job only holds committed events.

*Session.* `SessionInv` orders what is under way. Completions run in the order
of their logins' replies, each of a later epoch than the one before, and only
the first may be past its first await (`InOrder`); what a completion that is not
overtaken stored is still stored (`StoredStands`), so that the last one leaves
the store holding what is shown (`Shows`), or a sign-out is about to end. A
request that may still fill the cache is of the user it will be shown to
(`Answerable`). In a browser nothing comes between a reply and the end of its
completion (`Undisturbed`), which `EpochIsSession` and `NewerStands` rest on.

*Client writes.* `WritesInv` is about the owner's queue: it holds once each the
functions that are about to save or clear (`InLine`), what one of them checked of
the storage stays so until its turn is over, a clear is of a write whose outcome
is settled, and so is what follows an answer (`Sound`). Only the head of the
queue changes the record; a save therefore finds its place free and a clear
finds the record it names, and no record of an unknown outcome is lost. The
constants need `ClientWritesAssumption`: writes made elsewhere name plans' real
revisions, and `None` is not a write.

`OwnAnswersSeen` compares what a save sends with every answer given before, and
needs a second invariant, `AnswersInv`, in three parts. `Told`: the server is never
behind what the device knows of it, so whatever a late reply seeds is a revision
the plan reached, and a write that was answered was never refused. `Orderly`: a
job keeps to the steps of its kind (`Shape`), there is one write under way, never
beside a clear of the same write that was refused, and what earlier screens left
in the queue comes first (`First`), so that none of it is left when a request is
sent (`Pairs`). `Seeing`: an answer is in the view of its plan, or in every read
that could fill an empty view (`Fine`), or the record of the answered write or of
the plan's start is still stored (`Kept`); a clear is only of a record that no
answer needs any more (`Clears`), because the read before it shows every answer
on the plan (`Proves`); and a write not yet sent was decided after every answer on
its plan, or finds the place of its record taken (`Saves`, `StoredAfter`, `Reads`,
`PendingStored`). The last disjunct is what the save's own check turns into the
property. `SeeingStep` carries `Seeing` over every step that answers nothing and
takes no record away; the two that do, `PostAnswered` and `ClearRemoves`, have
proofs of their own.

An earlier statement of the property was found false by this proof, beyond the
two writes of the run: it held the answers on a plan against the view even after
the owner had discarded, or reloaded away, the record of the plan's *start*. A
start whose record is given up can still be sent, and its answer seeds an empty
cache with the plan's first revision while no record holds the next action back;
the server refuses that action, as it does any stale one. `Answers` now leaves
out the plans whose start was given up, as it left out writes given up.

*Release.* The calls `deploy()` has left determine where it is: `Course` says
that, read from its end, the list is the plan, the way back, or the cleanup, and
`Traffic` says of every service what has happened to it when so many calls are
left: what was captured, what is made, promoted, proved, restored, that the
worker goes first and comes back last. A service whose promotion was asked for
keeps the new version from when it is first seen to serve it (`Stays`), although
the traffic may come any time after the call; an API that somebody moved serves
less than the new version (`Lower`), less than what was captured too before it is
promoted, so that the look or the verification finds it out (`MovedSeen`). `ScriptInv` is
both with the types. `ReleaseInv` adds what the rows hold (`RowTypes`,
`ToldIsCompleted`) and that, once a version that reads `completed_at` serves or
may be restored, every row's stamp agrees and every open transaction writes both
columns (`StampsKept`): a release returns to the version before it and no
further, so old code can only come back when stamps do not yet matter.

The proof of `UsersReadTheTruth` is where the model was found to say too much:
with two interventions in one release, or with the version that writes both
columns being the one that reads the new one, the API could serve a version two
before and a row read false. Guide 19 reverses traffic by one compatible
version, and guide 23 has the writers released before the readers; `Meddles` and
`TodoColumnsAssumption` now say so, and the run is over both. The release run is
too short to have met either.

*IVR.* A flow and a run each have an invariant, and the flow's is about
`ClientFlow` alone. `Flows` says of a flow that its verdict is taken exactly when
the call is let go (`Decisive`), that only the last command reserved can be
pending (`Pends`), that a hangup is asked for in no stage but the last two
(`HangsLast`), that what was heard has a time (`Timed`), that no tone is later
than the transcript last consumed or of a later stage than the one that is on
(`TonesBefore`), and that tones are in the order of their times and stages
(`TonesOrdered`). `Handles`, `Expires`, `FailsCommand` and `Stops` show that every
entry to the flow leads from such a flow to such a flow and keeps a verdict that
was taken (`Moves`); it is `Consumed` that keeps a late prompt from being
answered, and `Recognizes` that keeps an answer a sequence of digits. A replayed
buffer and the tokens of several segments are recursive functions over
positions: `Built` constructs the function, `AllPositions` goes through it, both
from the well-foundedness of the naturals (`Least`). `Holds` then joins a caller
and its flow: a flow that ended is finalized at once, the report is its verdict,
a closing caller has let go of its flow or will let go of the one it binds
(`Lives`, `Closes`). `Onward` is what each step but the start does: `Holds` again,
and a decision that was taken stands; `FirstVerdictStands` reads the steps of
`IvrRun` off it.

*The call.* `CallKept` joins the invariant of the caller with one of the test IVR
and one of what lies between them. `Keeps` says of the fixture that its active call
is one of the calls, waits only for a command of its current stage (`Waits`), says
what that stage says in its scenario (`Says`), has a stage its scenario allows
(`Allows`), and that no call is active, busy and buried at once. `NetworkType` says
what the network may hold: of each call the last command it took and a text the
fixture could have said, and events whose callbacks name a command taken before
they were told. That everything said is a sequence of the grammar's tokens
(`SpeechIsText`) needs the spelling of numbers, again by a recursive function
(`Spelt`). `CallMoves` splits the steps into three: the network moves and neither
end does, the fixture does, the caller does; `Passes` is what any of the fixture's
steps leaves of its calls, from which `CallsEndForGood` is read.

That neither end is ahead of the other (`NeitherIsAhead`, the run's `InStep`) takes
two more invariants, one for each direction. What the caller did follows from what
was said to it: for a set of texts, `Grounded` says of a flow that it keyed one
tone for each stage in their order and each in answer to a text, put together
from any of the set in any order, that completes its stage (`Opens`), and the
`Stems` lemmas carry it through every entry to the caller; the set is that of the
texts in which no sign of a stage appears that the call was not led to (`Begun`,
`Voice`), which is enough because no stage is completed without a sign of its own
(`CompletedBySign`). And what the test IVR did follows from what was keyed: a
callback names a command the line took (`Tokened`), and while a call is at its
n-th stage the first n - 1 tones arrived, and the n-th too if a callback that
would move it on is under way (`Paced`). `Heeding` stands only on what is already
played, so that late, repeated and reordered transcripts need no care.

That a success is the amount announced (`SuccessIsHeard`, the run's
`SuccessIsTrue`) holds for every amount up to 9999.99 dollars and takes both, the
network and the words. `Informed` says that all the caller heard or may yet hear
are prompts and apologies (`Foreign`, each with a sign no result may contain),
full stops that say nothing, and the finals of one announcement, as a whole or
cut at one place with a stop or without (`HeardAs`), and these only if the network
took the announcement, which the fixture gives after the last right entry and
once (`Played`). Any of these texts, put together in any order and any number of
times, is either refused or follows the announcement word by word but for going
back to its beginning or to the cut (`Traced`, `HeardTraced`). What is parsed of
it are the words behind the last "value is", without a stop but perhaps one after
the dollars, from the first to the cents (`ResultRead`, `JoinedFollows`,
`PricedUnstopped`). There is only one way from the first word of an announcement
to its dollars, the "and" after them and its cents that neither repeats nor skips
a word (`ReadInOrder`): the words are those of the announcement and in their
places (`AmountFollows`). And a spelt number is worth what was spelt
(`SpeltValue`): words add to a group or close it, and sums go through a
concatenation (`AddingBoth`). All of this is for one call that announces one
amount, which is what the test IVR does; where it announces none
(`unsupported_result`) no amount is read (`NoneIsWorth`).

Two consequences of `ContractImplemented` are worth naming: no journal entry is
ever rewritten, and a plan that is completed, cancelled or saved by another
definition version is never written again, since the contract has no step that
does either. `SuggestionRowsMoveForward` likewise gives that a status a client was
told is final stays true.

Every safety invariant and action property of the passing runs is stated by a
theorem. Only model-checked is liveness (`QueuedSettles`, `EveryEventExported`,
`RevokedNeverStrands`, the end that `KeepsRunContract` asks for, `BothEndsLetGo`),
which the prover does not reach; the run that is expected to be violated is
section 5's finding.

## 7. Plan

Done and proved: the workflow engine, its contract and its histories, the
suggestion service, the analytics outbox, the client session, the record of
durable writes, releases with the columns of a todo, the automated caller, the
test IVR's calls, how far the two ends are apart and what the amount is heard as.
What is left, in order:

1. The suggestion's record on the device, its poll and the edited draft.
2. The agent endpoint's protocol of revisions and request ids.
3. An abstract contract that `SuggestionService` implements.

## 8. Not modelled

Owners in the suggestion modules (every query is scoped); passwords, sign-up and
name encryption (single statements); HTTP status codes and messages beyond the
outcome they report; tracing, logs and metrics (nothing reads them); rendering
and validation of views (pure functions); infrastructure, the KMS exercises and
the developer tools; rename of a todo, analytics identity and the consent switch
in the client. A provider's reply is "titles" or "failure", and a migration is
the schema it leaves. Two browser tabs on one installation are a documented
non-target (guide 09, lines 146-148), and so is a second device as far as the
record goes. In the IVR spike signatures and envelopes of callbacks, numbers in
figures, the limit of 1000 calls per process, and trailing full stops that spaces
part, of which `rstrip` leaves all but the last and the model none (it accepts
more, the safe side for `SuccessIsTrue`). In the client the save of a completed plan's retry that its screen leaves behind, which the code
still sends (`TodoWorkflowScreen.tsx:1203-1209`), and the one flag of two overlapping
reconciliations, which the first to end resets (lines 965 and 1734) and the model
holds until both did.

Of a release these are left out. The late arrival of a call whose script was
killed, and a runner that is lost before its `finally` block ran: `Interrupted`
always runs it to the end. A rerun from services left on different versions:
`Begin` asks for level ones. Guide 19 (lines 311-335) sends whoever lost a runner
or a restoration to the manual rollback first, which restores both services; its
"a rerun rediscovers current traffic" would also allow a rerun without it, and a
second revision of one version, which revisions named by their version cannot
tell apart. Traffic of the API that others move between the script's look at it
and its promotion: the script does not notice (`release_deploy.py:305-323`) and
undoes the move, and if it was to a program that writes one column, what that
wrote meanwhile would be read false by a release that reads the other
(`ReadsTrue`). A move after the last verification, which nothing looks at. The
concurrency of two releases, which the workflow's concurrency group excludes.
After a restoration that could not be verified the code describes the service
again (lines 354-359); the model keeps the first observation.

`PROJECT.json` lists every component with the reason.

# Executor: TLA+ models, checks and proofs

Executor lets a language model call tools (MCP servers, OpenAPI and GraphQL
services) by writing code that runs in a sandbox.  A tool call that a policy
puts behind approval *pauses* the execution until a human answers.  This
directory holds TLA+ models of the protocols that make this work, the TLC
configurations that check them on small instances, and theorems that the TLA+
proof system checks for every instance.

Paths below are relative to `src/packages/` unless they start with `src/`.

## 1. The system

| Component | State it keeps | Operations | Interacts with |
|---|---|---|---|
| Execution engine (`core/execution/src/engine.ts`) | `pausedExecutions`, one pause queue and one daemon fiber per execution, `pendingResumes`, the bounded `settledOutcomes` and `settledExecutionIds` | `executeWithPause`, the elicitation handler, `resume`, the watcher fiber, `isExecutionSettled` | sandboxes (forks them), callers (answers them), hosts (which build and rebuild it) |
| Sandbox runtimes (`kernel/runtime-*`) | the isolate or subprocess, calls in flight, the deadline | run, dispatch a tool call, settle it, end | the engine's invoker |
| HTTP handlers (`core/api/src/handlers/executions.ts`) and pending-approval store (`core/sdk/src/pending-approval.ts`) | one durable record per paused artifact call | execute, resume, put, consume | the engine, the blob table |
| MCP tool server (`hosts/mcp/src/tool-server.ts`) and browser approval store | waiters and responses per execution | execute, resume, wait for the browser's answer | the engine, session stores |
| Session hosts (`hosts/mcp/src/in-memory-session-store.ts`, `hosts/cloudflare/src/mcp/agent-session-durable-object.ts`) | sessions, approval leases, stored responses, the execution-owner directory, the alarm | dispatch, approve, expire, forward, dispose | the engine, storage, one another |
| Tool policies (`core/sdk/src/policies.ts`) | ordered rows of patterns | create, update, remove, resolve | the executor |
| Executor (`core/sdk/src/executor.ts`) | connections, tokens, tool catalogue, policies | execute, refresh, sync, create, remove | plugins, OAuth, storage |
| OAuth (`core/sdk/src/oauth-service.ts`, `oauth-gc.ts`) | pending flows, clients | start, complete, collect | the executor, providers |
| Applications (`src/apps/*`) | processes, lock files, accounts | start, supervise, serve | all of the above |

What is hard in it:

* **interleaving** - several tool calls of one execution pause at once; the
  human answers twice, or two clients answer; the sandbox ends meanwhile;
* **retries** - MCP clients retry `resume` when a response is lost, so every
  answer has to be remembered and replayed, in caches that are bounded;
* **restarts** - engines are rebuilt on redeploys and cold restores, and on some
  hosts for every request;
* **read, await, write** - stores, leases, refreshes and syncs are read in one
  turn of the event loop and written in a later one;
* **timeouts** - sandbox deadlines, approval leases, session alarms.

What makes each component correct:

* engine: one outcome per pause, decided once and told to everybody who asks;
  pauses are handed to one caller each; every wait ends; nothing of an ended
  execution is left behind;
* pending approvals: an approval lets its call run at most once, a decline never
  does (while the engine remembers it, see section 4), and what a caller is told
  of the run is true;
* browser approvals and leases: a human's answer reaches the waiter, is never
  replaced by a timeout that came later, and leases are all released;
* policies: the effective policy is the most specific row's, a new row never
  hides one that restricts more, an owner cannot relax what the organisation
  requires;
* connections: one refresh at a time sends a token, no exchanged token is
  written back, a grant marked dead is one the server refuses, and every call
  ends (the first per executor and until a call that joined a refresh deletes
  its entry, the third while refreshes do not cross: see `ConnectionTokens`); a
  catalogue's mark of staleness should not be lost.

## 2. The modules

| Module | What it is |
|---|---|
| `ExecutionEngine` | the pause and resume protocol with the sandboxes and callers that drive it |
| `PauseLifecycle` | abstract specification: the life of one pause id |
| `ExecutionEngineProofs`, `EngineRepliesProofs`, `EngineProgressProofs` | theorems about `ExecutionEngine`, each extending the one before: pauses and outcomes, replies, what keeps a wait from being stuck |
| `PendingApproval` | the durable record of a paused artifact call and the requests that consume it |
| `PendingApprovalProofs` | theorems about `PendingApproval` |
| `BrowserApproval` | the in-process approval store, the resume calls that wait on it, the endpoint that writes to it |
| `HumanAnswer` | abstract specification: a question to a human, its answer and its use |
| `BrowserApprovalProofs` | theorems about `BrowserApproval` |
| `ApprovalLease` | a session's Durable Object: leases of the approvals it waits for, their expiry, stored answers, the idle alarm |
| `ApprovalDecision` | abstract specification: an approval is asked for, decided at most once, or lost with its runtime |
| `ApprovalLeaseProofs`, `ApprovalDecisionProofs` | theorems about `ApprovalLease`; the second extends the first with what releases a lease and the refinement of `ApprovalDecision` |
| `ConnectionTokens` | the refresh tokens of one OAuth connection: calls that refresh, in several executors, and flows that connect again |
| `ConnectionTokensProofs` | theorems about `ConnectionTokens` |
| `MCExecutionEngine`, `MCPendingApproval`, `MCBrowserApproval`, `MCApprovalLease`, `MCConnectionTokens` | the modules TLC is run on (symmetry, sets of hosts) |

A convention in all of them: JavaScript runs one callback at a time, so the code
between two awaits is one action.  Definitions named `Faulty...` are slips one
could make in the definition that follows them; each is a mutant listed in
`PROJECT.json`, and shows that the property it is listed with can fail.

### ExecutionEngine

| Model | Code (`engine.ts`) |
|---|---|
| `pausedExecutions`, `pauseQueue`, `pendingResumes` | the maps of the same names; a pause is its id |
| `settledOutcomes`, `settledIds`, `outcome` | `settledOutcomes` (keys in insertion order, and the exit of each), `settledExecutionIds` |
| `owner`, `gate` | `paused.fiber`, and the tool call whose Deferred `paused.response` is |
| `sandbox`, `swept`, `call` | the daemon fiber, its watcher, the tool calls in flight |
| `client` | the caller of `executeWithPause` or `resume`, and where it waits |
| `known`, `answers`, `nulls`, `lost` | history: ids handed out, what `resume` returned, ids of engines that are gone |
| `StartPausableExecution`, `Elicit`, `SweepEndedExecution` | `startPausableExecution`, its `elicitationHandler`, its watcher |
| `ResumeReplays`, `ResumeJoins`, `ResumeFindsNothing`, `ResumeDelivers` | the four ways through the head of `resumeExecution` |
| `RaceCompletes`, `RacePauses`, `CallerInterrupted` | how `awaitCompletionOrPause` ends; `RaceEnds` is its `onExit` |
| `DispatchCall`, `ReturnCall`, `EndSandbox` | the tool bridge and the end of a runtime |
| `Restart` | a host that builds the engine again |

An exit is "completed" (with a result or a typed failure: both are recorded and
replayed alike), "paused" at an id, or "interrupted".  Two constants stand for
differences between hosts.  `Interruptible`: an HTTP client can hang up; an
in-process caller stays.  `DetachedCalls`: do tool calls outlive their sandbox?
Deno forks them as children and interrupts them when it ends (`FALSE`).  The
workerd and dynamic-Worker runtimes run them apart (`TRUE`), and so does QuickJS,
which starts calls with `runPromise` and interrupts none.  When its program ends
in the ordinary way QuickJS drains the calls it has pending first, so those
behaviours are also behaviours of `FALSE`; a job that throws ends it with calls
in flight, and is only covered by `TRUE`.

### PendingApproval

Each HTTP request is a process.  `engine[a]` is what `ExecutionEngine` shows the
engine to be for one pause: live, being resumed (a second request joins), settled
(its outcome is replayed), or gone.  It is gone on another instance, after a
restart (`Rebuild`), and when 64 newer outcomes have evicted its own
(`EvictsOutcome`): then `resume` returns null on the same engine and the request
falls through to the record.  `call[a]` is the paused tool call, which runs on the
execution's fiber once it is approved, whether or not the request that approved it
is still there (`CallRuns`).  A resume returns the end of the execution, a pause of
its own ("pausesAgain"), or, when its caller hangs up, leaves "interrupted" as the
outcome (`RequestDies`).  `forgotten` collects the approvals whose outcome was
evicted or whose answer was delivered to an engine that was replaced.  `host` is
chosen in the initial state: "shared" (local, desktop: one engine), "perRequest"
(an engine per request, so the fiber goes with the response), "rebuilt" (one
engine that restarts replace).
`consume` is two actions, because it awaits `blobs.get` and `blobs.delete`
apart; `put` and both of these may fail, as the `catchCause` around them allows.

### BrowserApproval

| Model | Code |
|---|---|
| `responses`, `waiters` | the maps of `hosts/mcp/src/browser-approval-store.ts`; a Deferred is a number, completed when it is in `completed` |
| `ResumeTakes`, `ResumeWaits`, `Wakes`, `StopsWaiting` | `waitFor`: look, share or make a Deferred, wait, take; its `ensuring` |
| `TimesOut` | `waitForBrowserApprovalResponse` of `tool-server.ts` |
| `Checks`, `Records`, `Rejects` | `handleApprovalRequest` of `in-memory-session-store.ts`, across its awaits |
| `DisposeSession` | `dispose`, which leaves the store alone (`forget` has no caller) |
| `Pauses`, `SandboxEnds`, `EngineResumes`, `engine`, `delivered` | what the store's users see of `ExecutionEngine` for one pause |

Which calls are in the server (`Resumes`) and which approval requests
(`Browsers`) stand for clients that give up and call again while the first call
goes on waiting.  The engine's own rules (a late resume is given the recorded
outcome) are those `ExecutionEngine` is checked for.  `AnswerEndsTheWait` asks for
nothing but the wake-up: a resume that shares the Deferred of the map ends when an
answer is recorded, without a further call by the client and without its timeout.

### ApprovalLease

| Model | Code (`agent-session-durable-object.ts`, `session-alarm-policy.ts`) |
|---|---|
| `lease`, `expiring` | `pendingApprovalLeases` and the flag of its entries |
| `start` | a run of `startPendingApprovalLease`: acquiring a keep-alive, then holding it, with its timer |
| `memory`, `stored` | `approvalResponses` and the same answers in the object's storage |
| `engine`, `given` | what `ExecutionEngine` shows of each pause; "detached": only calls made before the runtime went still know it |
| `reported` | the pauses whose id a reply gave to the client |
| `runtime`, `idle` | the runtime (live, its leases released, gone), time since `lastActivityMs` |
| `Pauses`, `Reports` | the engine pauses; a reply reports a pause, for the first time or again, which begins a lease |
| `BeginsLease`, `Arms`, `StartFails` | `startPendingApprovalLease` before and after its await, and its failures |
| `Asks`, `TakesAndResumes`, `StopsWaiting` | `waitForApprovalResponse`, `takeApprovalResponse` and the resume after them |
| `ModelResumes` | `resumeExecutionForModel`, an answer that comes with the call; "forwarded" when a peer session sends it by RPC |
| `HumanAnswers`, `Delivers`, `Keeps` | `resumeExecutionForApproval`, `recordApprovalResponse` |
| `ExpiresIdly`, `DeclinesToWaiter`, `DeclinesToNobody`, `DeclinesItself`, `ExpiryEnds` | the ways through `expirePendingApproval` |
| `Finishes`, `Release`, `ReleasesAll`, `StopsTimer` | `finish`-, `release`-, `releaseAll`-, `beginPendingApprovalResume...` |
| `DestroysIdleSession`, `DisposeBegins`, `DisposeEnds`, `Restores`, `Evicts` | `decideSessionAlarm`, `alarm` with `closeRuntime`, the next request, an eviction or crash |

The limits of the alarm are constants of their own, because a host may override
those of idle and of paused sessions
(`src/apps/cloud/src/mcp/session-durable-object.ts`, 176-184); `Horizon` only
stops the model's clock, at or beyond all of them.  A session whose object has no
server name is cleaned up whatever its clock says (`Addressable`).  A forwarded
resume does not count as work for the alarm (`Busy`), which counts the client's
requests that the transport has stored.

`ApprovalDecision` is what all of this promises about one approval.  Under the
mapping `Stage`, a pause whose runtime was disposed of stays open while a call
that was made before waits for it (`HeardByRuntime`), because that call still
holds the engine; it is lost when the last such call leaves, as it is with an
eviction.  A human who answers is told so (`told`), and from then on the decline
of an expiry may not decide it; the client's own answer may.

While a Durable Object waits for its own storage its input gate delivers no
other event, so storage awaits end no action: recording an answer, waking the
call that waits for it and giving it to the engine happen in one turn.  What
ends a turn is the keep-alive, an RPC to the directory and the sandbox.

What the model shows of the code beyond the properties: two starts of one lease
that overlap both take a keep-alive, and the entry of the second orphans the
first (a start is "held" that no entry names).  A start that fails before its
keep-alive leaves a pause without a lease, and one that fails in `markActivity`
after it also leaks the keep-alive (line 1162), which is why `PauseHasAWayOut`
exempts `failed`.  An expiry that resumes the engine itself drops the outcome
(line 1304): when the program pauses again no reply reports that pause, unless the
client asks once more about the one before, so it has neither lease nor timer.
`PauseHasAWayOut` is about pauses that a reply reported, and says nothing of that
one.  An answer that is in memory waits for the client to ask: nothing else takes
it.  An answer that is acknowledged while the runtime closes is lost with its
engine.  A decline that nobody takes stays in storage.

### ConnectionTokens

| Model | Code (`core/sdk/src/executor.ts`, `oauth-service.ts`) |
|---|---|
| `row`, `item` | the connection's row (is it there, is it marked dead), the refresh token in the credential provider |
| `gate` | `refreshInFlight`, one map per executor |
| `opened` | history: refreshes that run on after their entry of the gate was deleted |
| `call` | a call of `execute`, in the executor `by`; `dead` is what the row said when it was read |
| `Begins`, `Resolves`, `Declined`, `Unauthorized`, `Answered` | `execute`: read the row, wait for approval, resolve, call, retry once after a 401 |
| `Refreshes`, `Settles`, `Leaves`, `Deletes` | `refreshConnectionToken`: join or run; the refresh ends; a joiner wakes; the `ensuring` that each of them runs |
| `ReadsToken`, `Stores`, `StoreFails`, `UpdatesRow`, `RefreshFails` | `performTokenRefresh`, between its awaits, with a failure at each |
| `Refuses`, `MarksDead` | `invalid_grant`, `markRefreshGrantDead` |
| `StartsFlow`, `Completes`, `Exchanges`, `StoresNew`, `Mints`, `Finishes`, `CompletionFails` | `start`, `complete`, `mintFromToken`, `mintOAuthConnection`, then the tools and `deleteSession`, with a failure at each point |
| `Removes` | `connectionsRemove` |
| `Interrupted`, `Crashes` | a call's execution or request ends; its process dies |
| `live`, `issued`, `revoked`, `Grants`, `GrantIsLost`, `Revokes` | external: the authorization server, which rotates refresh tokens and may revoke any of them, one in a refresh's hands included |
| `lost`, `crossed` | history: the successor of the stored token never arrived; a refresh met another, or a flow |

A process has many executors: a self-hosted server builds one for each request
(`core/api/src/server/execution-stack-middleware.ts`, 177) and one for each MCP
session (`core/api/src/server/mcp-build.ts`, 47).  Each has its own gate, so
what the gate gives holds per executor.  `Homes` says which executors each call
may be made in.  Whether the access token has expired is judged by the clock when
the call resolves it, so `Resolves` may refresh or not whatever the row said.

What the model shows of the code beyond the properties:

* *Interrupted joiners open the gate.*  Every call that awaited a refresh, its
  runner or a joiner, deletes the gate's entry when it stops.  Deno interrupts the
  calls in flight when its sandbox ends, and a request that resolves a connection
  can be aborted; so a joiner that leaves early deletes the entry of a refresh that
  goes on (and one that wakes late may delete the next refresh's), and another call
  of the same executor then sends a second grant beside it.  The comment at
  `executor.ts` 1736 ("so we never fire two refresh-token grants for the same
  connection in parallel") does not allow for that.  `GateHoldsTheGrant` states
  what does hold: a refresh runs beside another of its executor only when it is in
  `opened`, and whoever joined a refresh waits for one that runs.
* *Crossed refreshes*, of two executors or of one whose gate was opened, both send
  the token, and the one the server refuses marks the grant dead that the other
  has renewed.  A refresh in flight across a new connection overwrites its token
  or marks it dead.  A completion that fails between the provider and the row
  leaves the mark of the old grant.  `DeadMeansRefused` excludes all of these by
  `crossed`; they are real, and no property says more about them.
* A call that is told 401 and finds the gate free refreshes again, even if another
  has just done so.  The provider's items stay after a connection is removed, and a
  call that was approved before the removal still runs.

A flow that is cancelled is one whose callback does not come; access tokens are
not told apart.  A write to the provider that is interrupted has happened or has
not when the call is over; one that takes effect later still is not modelled.

## 3. The runs

| Run | Question | Result |
|---|---|---|
| `engine_safety` | one outcome per pause under everything at once | holds, 523,584 states |
| `engine_liveness` | waits end and are never stuck, one caller per next pause, nothing left behind | holds, 56,871 states |
| `engine_late_pause` | the same with calls that outlive their sandbox | `SweptLeavesNothing` fails |
| `engine_interrupted_resume` | the same with callers that hang up | `SettledMeansSettled` fails |
| `approval_runs` | an approved call runs at most once, a declined one never | holds while answers to one approval do not overlap off the shared host and the engine has not forgotten it, 69,226 states |
| `approval_overlap` | two overlapping answers on a per-request host | `OneRunPerApproval` fails |
| `approval_forgotten` | a retry after the outcome was evicted, or after a restart | `OneRunPerApproval` fails |
| `approval_expired` | what the retry of a consumed approval is told | `ExpiredMeansNothingRan` fails |
| `browser_approval` | the human's answer reaches the engine, once, past wake-ups and timeouts | holds, 90,732 states |
| `browser_lost_wakeup` | an answer wakes every call that waits for it | `EveryWaiterIsReachable` fails |
| `approval_lease` | the human's answer, the expiry, the alarm and the leases of a session implement one decision per approval | holds, 436,002 states |
| `connection_tokens` | rotating refresh tokens under refreshes, reconnections, removals, revocations, interruptions and crashes | holds, 630,412 states |

**Bounds.**  `engine_safety` has two executions, two tool calls (each used once,
a call may pause more than once), two callers, three pauses, caches of one and
two entries, and one rebuild.  Two callers are enough for a first resume and its
duplicate; with three pauses one can be open, one queued and one resumed, and a
third outcome evicts from both caches; one rebuild separates ids before it from
ids after it.  `MaxPauses` and `MaxRestarts` are the only bounds that are not the
code's; ids are bounded because a sandbox may pause without end.
`engine_liveness` keeps both executions and drops the rebuild and the hang-ups,
under which nobody promises an answer.  `approval_runs` has one approval - a
record, an outcome and a call belong to one, eviction by others is an action, and
the theorems cover any number - and three requests, so that a resume, the one that
joins it and a third that comes late are in flight together.  `browser_approval` has one execution - the maps are keyed by
execution, and the theorems cover any number - three resumes, so that one can
time out, one wait on a Deferred the map has dropped and one come late, and two
browser tabs that may answer differently; `MaxDeferreds` is one per resume,
which is as many as can be alive.  `approval_lease` has one pause (the
maps are keyed by execution, and the theorems cover any number), two resumes, so
that one waits while another comes with the client's own answer, and two starts,
so that they overlap.  Its clock has one tick for the approval window and for an
idle session and two for each of the other limits; the object has a server name.
`DisposalSpares` covers every choice of limits in which the paused one is not
below the approval window; with a shorter one, which the cloud's environment
variable allows, the alarm may drop a lease whose window is open.
`connection_tokens` has two executors, two calls, one callback, one flow and one
revocation: two calls join in one executor or cross in two, either is interrupted
at any point, and either crosses the flow; with three tokens a connection is
refreshed twice, or refreshed and replaced.  The first call is made in the first
executor and the second in either (`SameOrAnother`): executors differ by name
only, so this is a choice up to symmetry.  The authorization server stops at
`MaxTokens`, where only refusals and failures are left.  Callers, calls, approvals
and requests are interchangeable; symmetry is used in safety runs only.

**Deadlock** is checked in `approval_lease` only, where a request or an eviction
can always come.  In the others, when every execution has ended and every caller
is idle the system has nothing left to do, and the bounds on ids, tokens and
restarts stop it too.  That nobody is stuck before then is `EveryWaitEnds`,
`AnswerEndsTheWait` and `CallsEnd`.

**Fairness** (`engine_liveness`).  Weak fairness of a fiber that can run (`Wait`,
the watcher): the event loop runs what is ready.  Weak fairness of a running
call (`CallProceeds`): it returns, fails or asks for approval.  Weak fairness of
the end of a sandbox *with no call in flight* (`DeadlinePasses`): the runtimes
suspend the deadline while a call is in flight, so with one in flight nothing
obliges a sandbox to end.  Nothing obliges a caller to start or to resume.
`NoWaitIsStuck` is the safety half of that argument, and is proved: whoever waits
has a fiber, a call or a deadline that fairness can drive.

**Fairness** (`browser_approval`).  Weak fairness of `Wakes`: the event loop runs
a fiber whose Deferred was completed.  Nothing obliges a client to call again, a
human to answer, or a wait to reach its timeout.

**Fairness** (`approval_lease`).  Weak fairness of time, of the keep-alive and
the directory (they answer or fail), of a timer that is due, of the sandbox of a
resumed execution (it has a deadline of its own) and of what follows its end.
No human, client, peer or alarm is obliged to come: the timer alone ends leases.

**Fairness** (`connection_tokens`).  Weak fairness of each call once its approval
is decided (`Proceeds`): storage, provider, server and service answer or fail.  No
fairness of the approval itself, since only some hosts close its window, nor of
flows, removals, revocations, interruptions and crashes.

## 4. What disagrees with its documentation

Six runs show the code doing other than a comment beside it says; the findings
in `PROJECT.json` quote the lines.

1. *Late pauses.*  The watcher drops an execution's pauses once.  A tool call
   that outlives its sandbox can pause afterwards; that entry stays for ever.
2. *Interrupted resumes.*  A resume whose client hangs up records the hang-up as
   the pause's outcome, and the retry gets it although the execution goes on.
3. *Overlapping answers.*  `consume` reads and deletes in two awaits, so two
   answers served by different instances both run the approved call.
4. *Live resumes leave the record.*  Once the engine has forgotten the outcome, by
   a restart or because 64 newer outcomes evicted it, a retry finds the record and
   runs the call again; so does a late accept of a call that was declined live.
5. *Expired.*  The retry of an approval that ran through the record is told
   "Nothing ran".
6. *Lost wake-ups.*  Resumes of one execution share a Deferred.  When the first
   times out it takes the Deferred out of the map, and an answer no longer wakes
   the others.  The answer is kept, so a later call gets it.

`OneRunUnlessForgotten` and `DeclinedNeverRuns` state what holds outside
disagreements 3 and 4: they say nothing of an approval from the moment its outcome
is evicted, or the engine that was given its answer is replaced.  The properties of
`engine_liveness` hold outside 1 and 2, and `ImplementsHumanAnswer` says that no
answer is lost by 6.

## 5. What is proved

`ExecutionEngineProofs` proves for every set of executions, calls and callers,
every bound and every cache limit that satisfies `ConstantsAssumption`:

| Theorem | States |
|---|---|
| `TypeCorrect` | `[]TypeOK`, the caches' limits included |
| `PlaceUnique` | `[]OnePlace` |
| `ResumerUnique` | `[]OneResumer` |
| `ResumeIdempotent` | `[]ResumeIsIdempotent` |
| `NullMeansForgotten` | `[]NullOnlyWhenForgotten` |
| `EngineRefinesLifecycle` | `Spec` implements `PauseLifecycle` |

`ConstantsAssumption` says that bounds are naturals, that the limits are
positive and the outcome limit is the smaller (64 and 1024 in the code), and that
the two "none" values are not elements of the sets they stand beside.

The argument has three layers of inductive invariants.

* `Typed` is `TypeOK` with `WellFormed`: open and resumed ids are minted, used
  calls and waiting clients name a real execution, resuming and joining clients
  a real pause, a joiner's pause is pending or recorded, and a settled outcome is
  recorded.  `TypeOK` alone is not inductive: resuming applies `owner` to an id
  and needs it to be minted.
* `Places` is `OnePlace` and `OneResumer` with what keeps them true: an open or
  pending id is not lost, and recorded and lost ids are minted.  From it a resume
  cannot claim a recorded id, and the watcher cannot record a claimed one.
  `PlaceUnique`, `ResumerUnique` and the refinement follow.
* `History` relates what callers saw to what is recorded: known and queued ids
  are minted, an answer is the recorded outcome, and a `null` was about an id
  that was evicted or lost.  With `Places` (an outcome is recorded once) it gives
  `ResumeIsIdempotent`.

`PendingApprovalProofs` proves for every set of artifact calls, requests and hosts:

| Theorem | States | Assumes |
|---|---|---|
| `ApprovalTypes` | `[]TypeOK` | nothing |
| `OneRun` | `[]OneRunUnlessForgotten` | answers to one approval overlap on the shared host only |
| `DeclinedStaysDeclined` | `[]DeclinedNeverRuns` | the same |

The assumption is `OverlapOn \subseteq {"shared"}`; without it the first fails, as
`approval_overlap` shows.  The two properties are about approvals that are not in
`forgotten`; without that they fail, as `approval_forgotten` shows.  `ApprovalTypes`
rests on `Placed`, the conjunction of `TypeOK` with

* `RequestsPlaced`: where a request is tells where its approval is - one that reads,
  deletes or runs is about an approval whose engine is gone, one that resumes is the
  only one that does;
* `PausesPlaced`: what the engine knows of a pause tells what became of the call
  that paused - a live pause's call waits, one being resumed was answered, and an
  outcome "declined" belongs to a call that was refused.

The other two rest on `Sound`, which adds

* `Sequential`: away from the shared host at most one request is about an
  approval at a time (this is what the assumption buys), and `ReadIsThere`: what a
  request has read is still there for it to delete;
* `Spent`: an approval that is not forgotten and that may still let its call run
  (`Spendable`: by an engine that is not gone, by the record, by a request that is
  running) has neither run nor been declined, and one whose engine is gone was never
  answered.

`BrowserApprovalProofs` proves for every set of executions, resumes and browsers:

| Theorem | States |
|---|---|
| `BrowserTypes` | `[]TypeOK` |
| `SharedWaitersAwake` | `[]SharedWaitersWake` |
| `WaitersInUse` | `[]WaitersAreInUse` |
| `StoreImplementsHumanAnswer` | `Spec` implements `HumanAnswer` |

Both invariants are inductive with `TypeOK`.  The refinement needs `Asked`: an
answer, or a request about to record one, is about an execution that has paused,
and only a settled execution was given an answer.  `MoveIsAStep` reduces it to
the one execution a step is about.

`EngineRepliesProofs` proves what is left of the engine's safety properties:

| Theorem | States | Assumes |
|---|---|---|
| `CacheStaysNewest` | `[]CacheIsNewestOfRemembered` | nothing |
| `RepliesGoForward` | `[]RepliesLeadForward` | nothing |
| `NothingLeft` | `[]SweptLeavesNothing` | `~DetachedCalls` |
| `SettledIsSettled` | `[]SettledMeansSettled` | `~Interruptible` |
| `FrontierIsNeverTwo` | `[]`(as `OneFrontier`, at most 1) | nothing |
| `FrontierIsOne` | `[]OneFrontier` | `~Interruptible` |

The assumptions are the circumstances of disagreements 1 and 2 of section 4, whose
runs show that `NothingLeft` and `SettledIsSettled` need them; a hang-up leaves a
running execution with no racer, so `FrontierIsOne` needs its own.
`FrontierIsOne` and `SettledIsSettled` cover rebuilds and detached calls, which
`engine_liveness` does not.

* `CacheStaysNewest` is inductive with `TypeOK`, by a lemma on sequences:
  the newest m of an end of s are an end of the newest n of s, for m <= n.
* `RepliesGoForward` needs `InOrder`: ids are minted in order, a caller that
  resumes races on the execution its pause is of, and a queue lists pauses of its
  execution in the order they were minted, each newer than every pause of that
  execution that was handed out.  So the head of a queue is newer than the pause
  whose resume collects it, and nobody has been told of it.
* `Swept` adds that a call in flight has a running sandbox, so that no call of a
  swept execution can pause.
* `FrontierIsNeverTwo` needs `NewIsEmpty` (nothing is about an execution that has
  not started), `QueuedIsOpen` (a queued pause of a running execution is open) and
  `NeverTwo`, which names the one racer or the one open pause where the theorem
  counts them, or neither: a resume turns the second into the first, a pause
  taken from the queue turns the first into the second, and a hang-up of the racer
  leaves neither.  `FrontierMoves` says so of every step; without hang-ups the
  last case is gone, which is `FrontierIsOne`.

`EngineProgressProofs` proves what the end of every wait rests on:

| Theorem | States | Assumes |
|---|---|---|
| `WaitingCallsReachable` | `[]WaitingCallsAreReachable` | `~Interruptible` |
| `NoWaitStuck` | `[]NoWaitIsStuck` | nothing |

* `WaitingCallsReachable`: a call of a running execution waits on one open pause,
  and that pause was handed to a caller, or is queued for a caller that races, or for
  one that will race when it resumes the pause it holds.  It combines `Reachable`
  (the Deferred of an open pause belongs to a call that waits or is over, and a call
  that waits has one that is handed out or queued) with `FrontierIsOne` (somebody
  races, or holds a pause to resume).  It needs callers that stay: one that hangs up
  while it races leaves what is queued later to nobody.  It holds through rebuilds
  and calls that outlive their sandbox.
* `NoWaitStuck` needs `JoinsOwner` (a duplicate waits for a resume of the
  execution it asked about) and combines the invariants above: an execution that
  is raced for has no pause handed out (`NeverTwo`), so if its queue is empty no
  call of it waits, and it has ended, has a running call, or has none at all
  and so a deadline.  A caller that hangs up takes no wait of another with it:
  whoever is left races itself or joined a resume whose caller is still there.

`ApprovalLeaseProofs` and `ApprovalDecisionProofs` prove for every set of
executions, resumes and starts and every clock that `ClockAssumption` allows:

| Theorem | States |
|---|---|
| `TypeCorrect` | `[]TypeOK` |
| `TimeoutYields` | `[]TimeoutYieldsToHuman` |
| `ReportedPauseHasAWayOut` | `[]PauseHasAWayOut` |
| `DisposalSpares` | `DisposalSparesApprovals`, assuming `MaxPausedIdle >= ApprovalTimeout` |
| `LeaseIsReleased` | `[]LeaseHasReleaser` |
| `LeaseImplementsDecision` | `Spec` implements `ApprovalDecision` |

`ClockAssumption` asks only that the limits are positive and that the model's clock
reaches each of them; they are independent of one another.  Two inductive
invariants carry this.  `AnswerInv`: a call waits only where no answer is in
memory, the human's recorded answer stays in memory while its pause is open (so
that the expiry finds it), and an answer was given only to a pause that is no
longer open.  `LeaseInv`: calls and starts are about executions that have paused
(`Begun`), a lease is released only for a pause that is over (`Releasing`), a
runtime that is down has no open pause (`DownHasNoPause`), a lease of an open pause
has its timer (`Timed`), the session has been idle for no longer than such a timer
has run, unless the timer is due (`Clock`), and `PauseHasAWayOut` itself.  `Clock` gives `DisposalSpares`: an
alarm that finds the session idle for as long as the paused limit finds every timer
run out, if that limit is not below the approval window.

`LeaseHasReleaser` is inductive with the types: a lease loses its timer only to a
resume that begins or to an expiry, and both release the lease when they end.
With weak fairness of these ends it is the reason for `LeaseEnds`.  The
refinement rests on `AnswerInv` and on `HeldIsTold` (an answer of a human that is
held, in memory or in storage, was acknowledged).  Its core is
`ResumingDecides`: a resume of the engine is a `Decide` of a pause that can still
be heard and a stutter for any other, and the timeout's is enabled because
`RecordedStays` keeps the expiry of a recorded answer from resuming at all, in
the object's memory or through a call that outlived the runtime.  Disposals,
evictions and the calls that stop waiting are a `Lose` of the pauses they leave
unheard.

`ConnectionTokensProofs` proves for every set of executors, calls and callbacks,
and every bound on tokens and flows:

| Theorem | States |
|---|---|
| `TypeCorrect` | `[]TypeOK` |
| `OneGrantUnlessOpened` | `[]GateHoldsTheGrant` |
| `StoredTokenStaysGood` | `[]StoredTokenIsGood` |
| `DeadIsRefused` | `[]DeadMeansRefused` |
| `CallsAdvance` | `CallsOnlyAdvance` |
| `OneExecutorDeadIsRefused` | `[](row.dead => item \notin live)`, assuming one executor, no callbacks and `[](opened = {})` |

They share `TokensInv`.  `GateHoldsTheGrant` is kept because every delete of an
entry moves the refresh it named into `opened` (lemma `DeletesGate`), and a refresh
tells all that joined it when it ends, whoever holds the gate by then.
`HandsAreNew`: a successor that a refresh or a callback has in hand was taken by
nobody but perhaps a revocation (`Unspent`), nobody else has it, and the provider
does not hold it yet; so storing it can only make the stored token good.  For
`DeadMeansRefused`, which holds while nothing has `crossed`: then one party at
most is exchanging (`Alone`), and what it knows of the stored token, or of the
mark, is still so (`KnowsTheToken`).  In a single executor with no flow and no
entry ever deleted under a running refresh nothing can cross, because
`GateHoldsTheGrant` leaves one refresh; so there a mark of a dead grant is deserved
(`OneExecutorDeadIsRefused`).  Both of the last two assumptions are real
limitations: an interrupted joiner breaks the one, a second request or session of
the same server the other.

`CallsOnlyAdvance` is the argument for `CallsEnd` without its fairness: a measure
of the stages a call has before it (`StepsLeft`, at most 13) that every change of
a busy call lowers, also when the change is made by the call it joined or by a
crash.  It needs that a call which waits for approval has made no attempt yet
(`FirstAttempt`), or a retry could start over.

Only model-checked: the liveness properties `EveryWaitEnds`, `AnswerEndsTheWait`,
`LeaseEnds`, `LeasedPauseIsDecided` and `CallsEnd`, which rest on fairness and
are outside the proof system.  For three of them the safety half of the argument
is proved beside it: `NoWaitIsStuck`, `LeaseHasReleaser` and `CallsOnlyAdvance`.
Every safety and action property and every refinement that a passing run checks
is proved.

## 6. Not modelled, and why

The components with status `not_modelled` in `PROJECT.json` say why; they are by
far the larger part of the repository, and most of it has no protocol: schemas
and requests translated for services, SQL, terminal and browser interfaces,
composition into applications, tests.  Of the parts that do have one:

* **Tool policies** choose a rule once per call and share no state with the
  protocols above.  Two rows may get equal positions, and a row that is then
  inserted between them has no key (`generateKeyBetween` throws); positions are
  strings of an external library, and the model would be of that library.
* **Catalogue syncs** stamp a connection fresh after their last await, so a mark
  of staleness set meanwhile is lost, and write tools for a connection that was
  removed meanwhile.  They share a row with `ConnectionTokens` but no column.
* **Peers of a session.**  `ApprovalLease` lets a forwarded resume come at any
  time and models its owner.  What the peer tells its client when it gives up
  waiting ("expired", while the owner goes on) is one reply and is left out, and
  so are the directory's records.
* **The daemon of the CLI and the desktop's supervision** start, find and replace
  one local process over lock files and a manifest.  They are the next module
  worth writing.
* **`client_credentials` connections** have no refresh token, so nothing rotates.
* **The cloud's rate limit, execution gate and key cache** are small and
  independent.

An abstract specification worth adding: a refresh as an atomic replacement of a
token.

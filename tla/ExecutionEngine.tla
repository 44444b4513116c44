---------------------------- MODULE ExecutionEngine ----------------------------
(***************************************************************************)
(* The pause / resume protocol of one execution engine                     *)
(* (packages/core/execution/src/engine.ts), together with the part of the  *)
(* sandbox runtimes and of the callers that drives it.                     *)
(*                                                                         *)
(* A sandbox runs model-written code on a daemon fiber.  A tool call that  *)
(* needs a human mints a pause: a fresh id in pausedExecutions, an entry   *)
(* of the execution's pause queue, and a Deferred the call waits on.  The  *)
(* caller that started the execution, and every caller that resumes one of *)
(* its pauses, races the end of the fiber against the next queued pause.   *)
(* What a resume produced is recorded, so a retry of it replays the        *)
(* outcome and a concurrent duplicate joins it.                            *)
(*                                                                         *)
(* JavaScript runs one callback at a time: the code between two awaits is  *)
(* one action here.                                                        *)
(***************************************************************************)
EXTENDS Naturals, Sequences, FiniteSets, Functions

CONSTANTS
  Executions,     \* calls of executeWithPause (each has its own fiber and queue)
  NoExecution,    \* "not minted yet", "not on behalf of an execution"
  Calls,          \* tool calls the sandboxes may dispatch, each used once
  NoCall,
  Clients,        \* the callers of executeWithPause and resume
  MaxPauses,      \* bound: pauses minted over a behaviour
  OutcomeLimit,   \* SETTLED_OUTCOME_LIMIT
  IdLimit,        \* SETTLED_EXECUTION_ID_LIMIT
  DetachedCalls,  \* a tool call runs on after its sandbox fiber has ended
  Interruptible,  \* the caller of executeWithPause / resume can be interrupted
  MaxRestarts     \* bound: engine rebuilds (host restart, cold restore)

Pauses == 1 .. MaxPauses

ASSUME ConstantsAssumption ==
  /\ MaxPauses \in Nat /\ MaxRestarts \in Nat
  /\ OutcomeLimit \in Nat \ {0} /\ IdLimit \in Nat \ {0}
  /\ OutcomeLimit <= IdLimit
  /\ NoExecution \notin Executions /\ NoCall \notin Calls
  /\ DetachedCalls \in BOOLEAN /\ Interruptible \in BOOLEAN

VARIABLES
  sandbox,          \* the fiber of each execution: "new", "running", "ended"
  swept,            \* executions whose watcher fiber has run
  call,             \* [exec, at] of each tool call
  owner,            \* pause id -> execution whose fiber it belongs to
  gate,             \* pause id -> tool call that waits for its answer
  pausedExecutions, \* ids of the map of the same name
  pauseQueue,       \* execution -> its unbounded queue of pause ids
  pendingResumes,   \* ids of the map of the same name
  settledOutcomes,  \* keys of the map of the same name, oldest first
  settledIds,       \* settledExecutionIds, oldest first
  outcome,          \* pause id -> the exit recorded for it
  client,           \* what each caller is waiting for
  known,            \* ids some caller has been handed
  answers,          \* history: pause id -> what resume(id) has returned
  nulls,            \* history: ids for which resume returned null
  lost,             \* ids minted by an engine that no longer exists
  restarts

engineVars == <<pausedExecutions, pauseQueue, pendingResumes,
                settledOutcomes, settledIds, outcome>>
sandboxVars == <<sandbox, swept, call>>
mintVars == <<owner, gate, lost, restarts>>
observed == <<known, answers, nulls>>
vars == <<engineVars, sandboxVars, mintVars, observed, client>>

---------------------------------------------------------------------------
(* Exits.  A success and a failure of the sandbox are both "completed":    *)
(* the recorded Exit carries either and replays it the same way.           *)

NoOutcome == [kind |-> "none", next |-> 0]
Completed == [kind |-> "completed", next |-> 0]
Interrupted == [kind |-> "interrupted", next |-> 0]
PausedAt(p) == [kind |-> "paused", next |-> p]
Outcomes == {Completed, Interrupted} \cup {PausedAt(p) : p \in Pauses}

Idle == [at |-> "idle", exec |-> NoExecution, pause |-> 0]
CallStates == {"unused", "running", "waiting", "finished"}

Minted == {p \in Pauses : owner[p] # NoExecution}
Racing(c) == client[c].at \in {"starting", "resuming"}

\* Faulty variants, here and below, are each named Faulty...: a plausible slip
\* in the definition that follows, which the properties are shown to catch.
FaultyPausesOfIncludesPending(e) ==
  {p \in pausedExecutions \cup pendingResumes : owner[p] = e}

\* The watcher's test that the pause belongs to its own fiber is gone.
FaultyPausesOfEveryone(e) == pausedExecutions

PausesOf(e) == {p \in pausedExecutions : owner[p] = e}

FaultyNewestKeepsAll(s, n) == s
FaultyNewestEvictsNewest(s, n) == IF Len(s) > n THEN SubSeq(s, 1, n) ELSE s

\* Keep the newest n entries of an insertion-ordered map: the eviction loops.
Newest(s, n) == IF Len(s) > n THEN SubSeq(s, Len(s) - n + 1, Len(s)) ELSE s

\* A map iterates in insertion order, and ids are minted in increasing order.
MintOrders(S) == {s \in [1 .. Cardinality(S) -> S] :
                    /\ Range(s) = S
                    /\ \A i, j \in 1 .. Cardinality(S) : i < j => s[i] < s[j]}

\* recordSettledOutcome for the ids of `order`, one after the other.  An id is
\* recorded once (see OnePlace), so neither map meets a key it already holds.
RecordSettledOutcome(order, out) ==
  /\ settledIds' = Newest(settledIds \o order, IdLimit)
  /\ settledOutcomes' = Newest(settledOutcomes \o order, OutcomeLimit)
  /\ outcome' = [p \in Pauses |-> IF p \in Range(order) THEN out ELSE outcome[p]]

---------------------------------------------------------------------------
Init ==
  /\ sandbox = [e \in Executions |-> "new"]
  /\ swept = {}
  /\ call = [k \in Calls |-> [exec |-> NoExecution, at |-> "unused"]]
  /\ owner = [p \in Pauses |-> NoExecution]
  /\ gate = [p \in Pauses |-> NoCall]
  /\ pausedExecutions = {}
  /\ pauseQueue = [e \in Executions |-> <<>>]
  /\ pendingResumes = {}
  /\ settledOutcomes = <<>>
  /\ settledIds = <<>>
  /\ outcome = [p \in Pauses |-> NoOutcome]
  /\ client = [c \in Clients |-> Idle]
  /\ known = {}
  /\ answers = [p \in Pauses |-> {}]
  /\ nulls = {}
  /\ lost = {}
  /\ restarts = 0

---------------------------------------------------------------------------
(* executeWithPause, up to the point where it waits.                       *)
StartPausableExecution(c, e) ==
  /\ client[c] = Idle
  /\ sandbox[e] = "new"
  /\ sandbox' = [sandbox EXCEPT ![e] = "running"]
  /\ client' = [client EXCEPT ![c] = [at |-> "starting", exec |-> e, pause |-> 0]]
  /\ UNCHANGED <<swept, call, engineVars, mintVars, observed>>

(* The sandboxed code invokes a tool; the runtime hands the call to the    *)
(* host, where it runs apart from the sandbox.                             *)
DispatchCall(e, k) ==
  /\ sandbox[e] = "running"
  /\ call[k].at = "unused"
  /\ call' = [call EXCEPT ![k] = [exec |-> e, at |-> "running"]]
  /\ UNCHANGED <<sandbox, swept, engineVars, mintVars, observed, client>>

ReturnCall(k) ==
  /\ call[k].at = "running"
  /\ call' = [call EXCEPT ![k].at = "finished"]
  /\ UNCHANGED <<sandbox, swept, engineVars, mintVars, observed, client>>

\* A counter that starts again with every engine.
FaultyMintsFromCounter(p) ==
  LET used == Minted \ lost
  IN  p \notin used /\ \A q \in 1 .. (p - 1) : q \in used

\* Ids are random UUIDs: one that was ever minted, by this engine or by one
\* before it, is never minted again.
MintsFreshId(p) ==
  /\ owner[p] = NoExecution
  /\ \A q \in 1 .. (p - 1) : owner[q] # NoExecution

\* The pause is published but never offered to the queue.
FaultyElicitOffersNothing(k, p) ==
  /\ call[k].at = "running"
  /\ MintsFreshId(p)
  /\ owner' = [owner EXCEPT ![p] = call[k].exec]
  /\ gate' = [gate EXCEPT ![p] = k]
  /\ pausedExecutions' = pausedExecutions \cup {p}
  /\ call' = [call EXCEPT ![k].at = "waiting"]
  /\ UNCHANGED <<sandbox, swept, pauseQueue, pendingResumes, settledOutcomes, settledIds,
                 outcome, lost, restarts, observed, client>>

(* The elicitation handler: mint the pause, publish it, wait.              *)
Elicit(k, p) ==
  LET e == call[k].exec IN
  /\ call[k].at = "running"
  /\ MintsFreshId(p)
  /\ owner' = [owner EXCEPT ![p] = e]
  /\ gate' = [gate EXCEPT ![p] = k]
  /\ pausedExecutions' = pausedExecutions \cup {p}
  /\ pauseQueue' = [pauseQueue EXCEPT ![e] = Append(@, p)]
  /\ call' = [call EXCEPT ![k].at = "waiting"]
  /\ UNCHANGED <<sandbox, swept, pendingResumes, settledOutcomes, settledIds,
                 outcome, lost, restarts, observed, client>>

\* The runtime forgets to interrupt the calls it runs as children.
FaultyEndLeavesCalls(e) ==
  /\ sandbox[e] = "running"
  /\ sandbox' = [sandbox EXCEPT ![e] = "ended"]
  /\ UNCHANGED <<swept, call, engineVars, mintVars, observed, client>>

(* The fiber settles: the code returned or threw, a deadline passed, the   *)
(* isolate or the subprocess died.  The Deno runtime runs its calls as     *)
(* children of the fiber and interrupts them; QuickJS, workerd and the     *)
(* dynamic Worker start them with runPromise and leave them running.       *)
EndSandbox(e) ==
  /\ sandbox[e] = "running"
  /\ sandbox' = [sandbox EXCEPT ![e] = "ended"]
  /\ call' = IF DetachedCalls THEN call
             ELSE [k \in Calls |-> IF call[k].exec = e
                                   THEN [call[k] EXCEPT !.at = "finished"]
                                   ELSE call[k]]
  /\ UNCHANGED <<swept, engineVars, mintVars, observed, client>>

\* The watcher drops the pauses and records nothing.
FaultySweepForgets(e) ==
  /\ sandbox[e] = "ended"
  /\ e \notin swept
  /\ swept' = swept \cup {e}
  /\ pausedExecutions' = pausedExecutions \ PausesOf(e)
  /\ UNCHANGED <<sandbox, call, pauseQueue, pendingResumes, settledOutcomes, settledIds,
                 outcome, mintVars, observed, client>>

(* The watcher: when the fiber has settled, every pause of it that is      *)
(* still outstanding is dropped and its outcome recorded.                  *)
SweepEndedExecution(e) ==
  /\ sandbox[e] = "ended"
  /\ e \notin swept
  /\ swept' = swept \cup {e}
  /\ pausedExecutions' = pausedExecutions \ PausesOf(e)
  /\ \E order \in MintOrders(PausesOf(e)) : RecordSettledOutcome(order, Completed)
  /\ UNCHANGED <<sandbox, call, pauseQueue, pendingResumes, mintVars, observed, client>>

---------------------------------------------------------------------------
(* resume(p), by what it finds.  A caller names only ids it was handed.    *)

Asks(c, p) == client[c] = Idle /\ p \in known

ResumeReplays(c, p) ==
  /\ Asks(c, p)
  /\ p \in Range(settledOutcomes)
  /\ answers' = [answers EXCEPT ![p] = @ \cup {outcome[p]}]
  /\ UNCHANGED <<engineVars, sandboxVars, mintVars, known, nulls, client>>

\* A duplicate in flight is treated like a first resume.
FaultyJoinRaces(c, p) ==
  /\ Asks(c, p)
  /\ p \notin Range(settledOutcomes)
  /\ p \in pendingResumes
  /\ client' = [client EXCEPT ![c] = [at |-> "resuming", exec |-> owner[p], pause |-> p]]
  /\ UNCHANGED <<engineVars, sandboxVars, mintVars, observed>>

ResumeJoins(c, p) ==
  /\ Asks(c, p)
  /\ p \notin Range(settledOutcomes)
  /\ p \in pendingResumes
  /\ client' = [client EXCEPT ![c] = [at |-> "joining", exec |-> owner[p], pause |-> p]]
  /\ UNCHANGED <<engineVars, sandboxVars, mintVars, observed>>

ResumeFindsNothing(c, p) ==
  /\ Asks(c, p)
  /\ p \notin Range(settledOutcomes)
  /\ p \notin pendingResumes
  /\ p \notin pausedExecutions
  /\ nulls' = nulls \cup {p}
  /\ UNCHANGED <<engineVars, sandboxVars, mintVars, known, answers, client>>

\* The pause stays in the map while it is being resumed.
FaultyResumeKeepsPause(c, p) ==
  /\ Asks(c, p)
  /\ p \notin Range(settledOutcomes)
  /\ p \in pausedExecutions
  /\ pendingResumes' = pendingResumes \cup {p}
  /\ call' = [call EXCEPT ![gate[p]].at = IF @ = "waiting" THEN "running" ELSE @]
  /\ client' = [client EXCEPT ![c] = [at |-> "resuming", exec |-> owner[p], pause |-> p]]
  /\ UNCHANGED <<sandbox, swept, pausedExecutions, pauseQueue, settledOutcomes, settledIds,
                 outcome, mintVars, observed>>

\* The answer is taken and the Deferred of the call is never completed.
FaultyResumeForgetsCall(c, p) ==
  /\ Asks(c, p)
  /\ p \notin Range(settledOutcomes)
  /\ p \notin pendingResumes
  /\ p \in pausedExecutions
  /\ pausedExecutions' = pausedExecutions \ {p}
  /\ pendingResumes' = pendingResumes \cup {p}
  /\ client' = [client EXCEPT ![c] = [at |-> "resuming", exec |-> owner[p], pause |-> p]]
  /\ UNCHANGED <<sandboxVars, pauseQueue, settledOutcomes, settledIds, outcome, mintVars, observed>>

ResumeDelivers(c, p) ==
  /\ Asks(c, p)
  /\ p \notin Range(settledOutcomes)
  /\ p \notin pendingResumes
  /\ p \in pausedExecutions
  /\ pausedExecutions' = pausedExecutions \ {p}
  /\ pendingResumes' = pendingResumes \cup {p}
  /\ call' = [call EXCEPT ![gate[p]].at = IF @ = "waiting" THEN "running" ELSE @]
  /\ client' = [client EXCEPT ![c] = [at |-> "resuming", exec |-> owner[p], pause |-> p]]
  /\ UNCHANGED <<sandbox, swept, pauseQueue, settledOutcomes, settledIds, outcome,
                 mintVars, observed>>

---------------------------------------------------------------------------
(* awaitCompletionOrPause.  When the fiber has ended and a pause is queued *)
(* too, either side of the race may win.                                   *)

\* A racing caller's wait is over with `out`.  For a resume, onExit records
\* the outcome, forgets the pending entry and completes the Deferred joiners
\* wait on; `told` says whether the caller is there to see the result.
RaceEnds(c, out, told) ==
  LET p == client[c].pause IN
  /\ client' = [client EXCEPT ![c] = Idle]
  /\ IF client[c].at = "resuming"
     THEN /\ RecordSettledOutcome(<<p>>, out)
          /\ pendingResumes' = pendingResumes \ {p}
          /\ answers' = IF told THEN [answers EXCEPT ![p] = @ \cup {out}] ELSE answers
     ELSE UNCHANGED <<settledOutcomes, settledIds, outcome, pendingResumes, answers>>

RaceCompletes(c) ==
  /\ Racing(c)
  /\ sandbox[client[c].exec] = "ended"
  /\ RaceEnds(c, Completed, TRUE)
  /\ UNCHANGED <<pausedExecutions, pauseQueue, sandboxVars, mintVars, known, nulls>>

\* The pause is read without being taken from the queue.
FaultyRacePeeks(c) ==
  LET e == client[c].exec
      p == Head(pauseQueue[e]) IN
  /\ Racing(c)
  /\ pauseQueue[e] # <<>>
  /\ known' = known \cup {p}
  /\ RaceEnds(c, PausedAt(p), TRUE)
  /\ UNCHANGED <<pausedExecutions, pauseQueue, sandboxVars, mintVars, nulls>>

RacePauses(c) ==
  LET e == client[c].exec
      p == Head(pauseQueue[e]) IN
  /\ Racing(c)
  /\ pauseQueue[e] # <<>>
  /\ pauseQueue' = [pauseQueue EXCEPT ![e] = Tail(@)]
  /\ known' = known \cup {p}
  /\ RaceEnds(c, PausedAt(p), TRUE)
  /\ UNCHANGED <<pausedExecutions, sandboxVars, mintVars, nulls>>

(* A duplicate wakes up with the exit of the resume it joined.             *)
JoinedResumeReturns(c) ==
  LET p == client[c].pause IN
  /\ client[c].at = "joining"
  /\ p \notin pendingResumes
  /\ client' = [client EXCEPT ![c] = Idle]
  /\ answers' = [answers EXCEPT ![p] = @ \cup {outcome[p]}]
  /\ UNCHANGED <<engineVars, sandboxVars, mintVars, known, nulls>>

(* The request that carries the call goes away (its HTTP client hangs up)  *)
(* and its fiber is interrupted; the sandbox is a daemon and goes on.      *)
CallerInterrupted(c) ==
  /\ Interruptible
  /\ client[c].at # "idle"
  /\ RaceEnds(c, Interrupted, FALSE)
  /\ UNCHANGED <<pausedExecutions, pauseQueue, sandboxVars, mintVars, known, nulls>>

(* The host restarts or cold-restores: the engine is rebuilt empty, and    *)
(* its fibers, maps and waiting callers are gone.                          *)
Restart ==
  /\ restarts < MaxRestarts
  /\ restarts' = restarts + 1
  /\ sandbox' = [e \in Executions |-> IF sandbox[e] = "new" THEN "new" ELSE "ended"]
  /\ swept' = {e \in Executions : sandbox[e] # "new"}
  /\ call' = [k \in Calls |-> IF call[k].at = "unused" THEN call[k]
                              ELSE [call[k] EXCEPT !.at = "finished"]]
  /\ lost' = Minted
  /\ pausedExecutions' = {}
  /\ pendingResumes' = {}
  /\ pauseQueue' = [e \in Executions |-> <<>>]
  /\ settledOutcomes' = <<>>
  /\ settledIds' = <<>>
  /\ client' = [c \in Clients |-> Idle]
  /\ UNCHANGED <<outcome, owner, gate, observed>>

---------------------------------------------------------------------------
Resume(c, p) ==
  \/ ResumeReplays(c, p)
  \/ ResumeJoins(c, p)
  \/ ResumeFindsNothing(c, p)
  \/ ResumeDelivers(c, p)

Wait(c) ==
  \/ RaceCompletes(c)
  \/ RacePauses(c)
  \/ JoinedResumeReturns(c)

Next ==
  \/ \E c \in Clients, e \in Executions : StartPausableExecution(c, e)
  \/ \E e \in Executions, k \in Calls : DispatchCall(e, k)
  \/ \E k \in Calls : ReturnCall(k)
  \/ \E k \in Calls, p \in Pauses : Elicit(k, p)
  \/ \E e \in Executions : EndSandbox(e)
  \/ \E e \in Executions : SweepEndedExecution(e)
  \/ \E c \in Clients, p \in Pauses : Resume(c, p)
  \/ \E c \in Clients : Wait(c)
  \/ \E c \in Clients : CallerInterrupted(c)
  \/ Restart

Spec == Init /\ [][Next]_vars

(* Fairness.  Fibers that can run do run (the event loop), a running tool  *)
(* call eventually returns or asks, and a sandbox with no call in flight   *)
(* ends: it returns, or its deadline passes.  Nothing obliges a caller to  *)
(* start or to resume anything.                                            *)
InFlight(e) == {k \in Calls : call[k].exec = e /\ call[k].at \in {"running", "waiting"}}

CallProceeds(k) == ReturnCall(k) \/ \E p \in Pauses : Elicit(k, p)
DeadlinePasses(e) == InFlight(e) = {} /\ EndSandbox(e)

Fairness ==
  /\ \A c \in Clients : WF_vars(Wait(c))
  /\ \A k \in Calls : WF_vars(CallProceeds(k))
  /\ \A e \in Executions : WF_vars(DeadlinePasses(e)) /\ WF_vars(SweepEndedExecution(e))

FairSpec == Spec /\ Fairness

---------------------------------------------------------------------------
(* Properties *)

Recorded == {p \in Pauses : outcome[p] # NoOutcome}

(* Type correctness.  The two caches stay within their limits: the         *)
(* eviction loops of recordSettledOutcome.                                 *)
TypeOK ==
  /\ sandbox \in [Executions -> {"new", "running", "ended"}]
  /\ swept \subseteq Executions
  /\ call \in [Calls -> [exec : Executions \cup {NoExecution}, at : CallStates]]
  /\ owner \in [Pauses -> Executions \cup {NoExecution}]
  /\ gate \in [Pauses -> Calls \cup {NoCall}]
  /\ pausedExecutions \subseteq Pauses
  /\ pauseQueue \in [Executions -> Seq(Pauses)]
  /\ pendingResumes \subseteq Pauses
  /\ settledOutcomes \in Seq(Pauses) /\ Len(settledOutcomes) <= OutcomeLimit
  /\ settledIds \in Seq(Pauses) /\ Len(settledIds) <= IdLimit
  /\ outcome \in [Pauses -> Outcomes \cup {NoOutcome}]
  /\ client \in [Clients -> [at : {"idle", "starting", "resuming", "joining"},
                             exec : Executions \cup {NoExecution},
                             pause : Pauses \cup {0}]]
  /\ known \subseteq Pauses
  /\ answers \in [Pauses -> SUBSET Outcomes]
  /\ nulls \subseteq Pauses
  /\ lost \subseteq Pauses
  /\ restarts \in 0 .. MaxRestarts

(* Every id the living engine minted is in exactly one place: waiting for  *)
(* an answer, being resumed, or recorded with its outcome.  If resume and  *)
(* the watcher both took one, two outcomes would compete; if neither did,  *)
(* a retry would be told the pause never existed.                          *)
OnePlace ==
  /\ pausedExecutions \cap pendingResumes = {}
  /\ pausedExecutions \cap Recorded = {}
  /\ pendingResumes \cap Recorded = {}
  /\ Minted \ lost = (pausedExecutions \cup pendingResumes \cup Recorded) \ lost

(* Each resume in flight has exactly one caller that races for it, so its  *)
(* outcome is computed once and every joiner is woken by that caller.      *)
OneResumer ==
  /\ \A c, d \in Clients :
        /\ client[c].at = "resuming" /\ client[d].at = "resuming"
        /\ client[c].pause = client[d].pause
        => c = d
  /\ pendingResumes = {client[c].pause : c \in {d \in Clients : client[d].at = "resuming"}}

(* "Idempotent per executionId": every call of resume(p) that got an       *)
(* answer - the first, a duplicate in flight, a retry - got the same one.  *)
ResumeIsIdempotent ==
  \A p \in Pauses : \A a, b \in answers[p] : a = b

(* A caller is told that an id it was handed does not exist only when the  *)
(* engine that minted it is gone, or when more than OutcomeLimit outcomes  *)
(* have been recorded since: never because its execution ended.            *)
NullOnlyWhenForgotten ==
  \A p \in nulls : p \in lost \/ (p \in Recorded /\ p \notin Range(settledOutcomes))

(* isExecutionSettled never denies what resume can still replay: the       *)
(* outcome cache holds the newest of the ids the larger set remembers.     *)
CacheIsNewestOfRemembered ==
  /\ Len(settledOutcomes) <= Len(settledIds)
  /\ \A i \in 1 .. Len(settledOutcomes) :
        settledOutcomes[i] = settledIds[i + Len(settledIds) - Len(settledOutcomes)]

(* Following replayed outcomes leads to the newest pause of the same       *)
(* execution, and no pause is handed to the callers of two resumes.        *)
RepliesLeadForward ==
  \A p \in Pauses : outcome[p].kind = "paused" =>
    /\ outcome[p].next > p
    /\ outcome[p].next \in known
    /\ owner[outcome[p].next] = owner[p]
    /\ \A q \in Pauses \ {p} : outcome[q] # outcome[p]

(* The engine implements the life of a pause as callers may rely on it.    *)
Status(p) ==
  IF p \in lost THEN "lost"
  ELSE IF p \notin Minted THEN "unborn"
  ELSE IF p \in pausedExecutions THEN "open"
  ELSE IF p \in pendingResumes THEN "claimed"
  ELSE "settled"

Lifecycle == INSTANCE PauseLifecycle WITH
  Ids <- Pauses,
  Results <- Outcomes,
  Nothing <- NoOutcome,
  status <- [p \in Pauses |-> Status(p)],
  result <- outcome

ImplementsLifecycle == Lifecycle!Spec

(* "When the fiber settles ... drop them: ... the map must not grow for    *)
(* ever" (575-578): once the watcher of an ended execution has run, no     *)
(* pause of it is left in pausedExecutions.                                *)
SweptLeavesNothing ==
  \A e \in swept : PausesOf(e) = {}

(* The outcomes recorded are those the comment at 453-455 lists: "resumed  *)
(* to completion, hit a new pause, or died while paused".                  *)
SettledMeansSettled ==
  \A p \in Recorded \ lost :
    \/ outcome[p].kind = "paused"
    \/ outcome[p].kind = "completed" /\ sandbox[owner[p]] = "ended"

(* While an execution runs, exactly one thread of control can collect its  *)
(* next pause: one caller racing for it, or one open pause a caller knows  *)
(* and whose resume will race.  Two would compete for the queue; none      *)
(* would leave its queued pauses to nobody.                                *)
OpenAndKnown(e) == known \cap PausesOf(e)
RacersOn(e) == {c \in Clients : Racing(c) /\ client[c].exec = e}

OneFrontier ==
  \A e \in Executions : sandbox[e] = "running" =>
    Cardinality(OpenAndKnown(e)) + Cardinality(RacersOn(e)) = 1

(* A tool call of a running execution waits on exactly one open pause, and *)
(* somebody can answer it: a caller was handed its id, or it is queued and *)
(* the queue has a collector - a caller that races, or an open pause that  *)
(* was handed out, whose resume will race.  So the Deferred of             *)
(* engine.ts:556-562 is never awaited where no resume can complete it,     *)
(* while callers stay; a racer that hangs up leaves its queue to nobody.   *)
Collected(e) == RacersOn(e) # {} \/ OpenAndKnown(e) # {}

WaitingCallsAreReachable ==
  /\ \A k \in Calls : call[k].at = "waiting" /\ sandbox[call[k].exec] = "running" =>
        \E p \in PausesOf(call[k].exec) :
          /\ gate[p] = k
          /\ \/ p \in known
             \/ p \in Range(pauseQueue[call[k].exec]) /\ Collected(call[k].exec)
  /\ \A p, q \in pausedExecutions : gate[p] = gate[q] => p = q

(* No caller waits on everyone else: a joiner's resume is over or has its  *)
(* caller racing, and an execution raced for has ended, has a pause queued *)
(* or has something left to do other than wait for an approval nobody was  *)
(* asked for.                                                              *)
CanGoOn(e) ==
  \/ sandbox[e] = "ended" \/ pauseQueue[e] # <<>>
  \/ InFlight(e) = {} \/ \E k \in InFlight(e) : call[k].at = "running"

NoWaitIsStuck ==
  \A c \in Clients : client[c].at # "idle" =>
    \/ client[c].at = "joining" /\ client[c].pause \notin pendingResumes
    \/ CanGoOn(client[c].exec) /\ RacersOn(client[c].exec) # {}

(* Every caller that waits gets its answer: the execution's next pause, or *)
(* its end.  An execution whose only unfinished calls wait for approval    *)
(* has no deadline, so this rests on each such pause being queued for the  *)
(* caller that races.                                                      *)
EveryWaitEnds ==
  \A c \in Clients : client[c] # Idle ~> client[c] = Idle

===============================================================================

----------------------------- MODULE ApprovalLease -----------------------------
(***************************************************************************)
(* The lease that a session's Durable Object keeps on an approval it waits *)
(* for (packages/hosts/cloudflare/src/mcp/agent-session-durable-object.ts) *)
(* and the idle alarm that disposes of the session's runtime               *)
(* (session-alarm-policy.ts).                                              *)
(*                                                                         *)
(* A reply that reports a pause starts a lease: it holds a keep-alive of   *)
(* the object and a timer that declines the approval when nobody has       *)
(* answered.  A pause that no reply reports has none: the next pause of a  *)
(* program that only an expiry resumed is such a one.  The human's answer, *)
(* the timer, the resumes of the client, those that a peer session         *)
(* forwards and the alarm all meet here.                                   *)
(*                                                                         *)
(* While the object waits for its own storage no other event is delivered  *)
(* to it, so a step of the model goes from one wait for something else to  *)
(* the next: a keep-alive, an RPC to the directory, the sandbox.           *)
(***************************************************************************)
EXTENDS Naturals, FiniteSets

CONSTANTS
  Executions,      \* the pauses of the programs, each with an id of its own
  Calls,           \* resumes in progress
  Starts,          \* lease starts alive at once
  ApprovalTimeout, \* PAUSED_APPROVAL_TIMEOUT_MS, in ticks
  SessionTimeout,  \* sessionTimeoutMs(), which a host may override
  MaxPausedIdle,   \* maxPausedSessionIdleMs(), which a host may override
  MaxRunningIdle,  \* MAX_RUNNING_SESSION_IDLE_MS
  Horizon,         \* where the model's idle clock stops, beyond every limit
  Addressable      \* the object has a server name, of its id or in storage

ASSUME ClockAssumption ==
  /\ ApprovalTimeout \in Nat \ {0}
  /\ {SessionTimeout, MaxPausedIdle, MaxRunningIdle} \subseteq Nat \ {0}
  /\ Horizon \in Nat
  /\ \A limit \in {SessionTimeout, MaxPausedIdle, MaxRunningIdle} : Horizon >= limit

ASSUME AddressableAssumption == Addressable \in BOOLEAN

Answers == {"human", "model", "timeout"}
NoAnswer == "none"
NoLease == "none"
NoTimer == ApprovalTimeout + 1
NoExecution == "none"

ASSUME NamesAssumption == NoLease \notin Starts

VARIABLES
  engine,    \* what has become of each pause; "detached": its runtime is gone
  reported,  \* pauses whose id a reply gave to the client
  given,     \* the answer the engine was resumed with
  runtime,   \* "live", "closing" (its leases are released), "down"
  idle,      \* time since lastActivityMs
  lease,     \* pendingApprovalLeases: the start that made the entry
  expiring,  \* the flag of the same name in the entry
  start,     \* what each start is doing, the keep-alive and the timer it holds
  failed,    \* pauses a start of a lease failed for
  expiry,    \* expiries that wait for the engine
  memory,    \* approvalResponses
  stored,    \* the same answers in the object's storage
  recorded,  \* pauses whose human was told that the answer is recorded
  call       \* what each resume is doing

vars == <<engine, reported, given, runtime, idle, lease, expiring, start, failed,
          expiry, memory, stored, recorded, call>>

leases == <<lease, expiring, start>>
answers == <<memory, stored>>

IdleStart == [at |-> "idle", exec |-> NoExecution, timer |-> NoTimer]
IdleCall == [at |-> "idle", exec |-> NoExecution, known |-> FALSE]

Init ==
  /\ engine = [x \in Executions |-> "running"]
  /\ reported = {}
  /\ given = [x \in Executions |-> NoAnswer]
  /\ runtime = "live"
  /\ idle = 0
  /\ lease = [x \in Executions |-> NoLease]
  /\ expiring = [x \in Executions |-> FALSE]
  /\ start = [t \in Starts |-> IdleStart]
  /\ failed = {}
  /\ expiry = {}
  /\ memory = [x \in Executions |-> NoAnswer]
  /\ stored = [x \in Executions |-> NoAnswer]
  /\ recorded = {}
  /\ call = [c \in Calls |-> IdleCall]

---------------------------------------------------------------------------
(* Starting a lease: has the pause one, acquire a keep-alive, set it. *)

\* Two starts that both find no lease both go on.
BeginsLease(t, x) ==
  /\ start[t] = IdleStart
  /\ start' = IF lease[x] # NoLease THEN start
              ELSE [start EXCEPT ![t] = [at |-> "acquiring", exec |-> x, timer |-> NoTimer]]

\* The engine pauses.  The engine of an earlier runtime, which only its calls
\* still know, may do so too.
Pauses(x) ==
  /\ engine[x] = "running"
  /\ \E e \in {"paused", "detached"} :
       /\ runtime = "down" => e = "detached"
       /\ engine' = [engine EXCEPT ![x] = e]
  /\ UNCHANGED <<reported, given, runtime, idle, leases, failed, expiry,
                 answers, recorded, call>>

\* A reply reports the pause, for the first time or again when it is joined or
\* replayed, settled or not.  Nothing says that a pause is ever reported.
Reports(t, x) ==
  /\ engine[x] \notin {"running", "lost"}
  /\ reported' = reported \cup {x}
  /\ BeginsLease(t, x)
  /\ UNCHANGED <<engine, given, runtime, idle, lease, expiring, failed, expiry,
                 answers, recorded, call>>

\* The entry is set, and no timer.
FaultyArmsWithoutTimer(t) ==
  LET x == start[t].exec IN
  /\ start[t].at = "acquiring"
  /\ start' = [start EXCEPT ![t].at = "held"]
  /\ lease' = [lease EXCEPT ![x] = t]
  /\ expiring' = [expiring EXCEPT ![x] = FALSE]
  /\ idle' = 0
  /\ UNCHANGED <<engine, reported, given, runtime, failed, expiry, answers,
                 recorded, call>>

\* The lease is set, and no activity is marked.
FaultyArmsQuietly(t) ==
  LET x == start[t].exec IN
  /\ start[t].at = "acquiring"
  /\ start' = [start EXCEPT ![t].at = "held", ![t].timer = 0]
  /\ lease' = [lease EXCEPT ![x] = t]
  /\ expiring' = [expiring EXCEPT ![x] = FALSE]
  /\ UNCHANGED <<engine, reported, given, runtime, idle, failed, expiry,
                 answers, recorded, call>>

\* The keep-alive is there: markActivity, the timer, the entry.  An entry
\* that another start set meanwhile is overwritten.
Arms(t) ==
  LET x == start[t].exec IN
  /\ start[t].at = "acquiring"
  /\ start' = [start EXCEPT ![t] = [at |-> "held", exec |-> x, timer |-> 0]]
  /\ lease' = [lease EXCEPT ![x] = t]
  /\ expiring' = [expiring EXCEPT ![x] = FALSE]
  /\ idle' = 0
  /\ UNCHANGED <<engine, reported, given, runtime, failed, expiry, answers,
                 recorded, call>>

\* No keep-alive; or marking the activity fails after it, and the keep-alive is
\* left without a timer and without an entry.
StartFails(t) ==
  /\ start[t].at = "acquiring"
  /\ \/ start' = [start EXCEPT ![t] = IdleStart] /\ UNCHANGED idle
     \/ start' = [start EXCEPT ![t].at = "held"] /\ idle' \in {0, idle}
  /\ failed' = failed \cup {start[t].exec}
  /\ UNCHANGED <<engine, reported, given, runtime, lease, expiring, expiry,
                 answers, recorded, call>>

\* The keep-alive is disposed of, and the entry stays.
FaultyRelease(x) ==
  /\ start' = [t \in Starts |-> IF t = lease[x] THEN IdleStart ELSE start[t]]
  /\ UNCHANGED <<lease, expiring>>

\* releasePendingApprovalLease
Release(x) ==
  /\ start' = [t \in Starts |-> IF t = lease[x] THEN IdleStart ELSE start[t]]
  /\ lease' = [lease EXCEPT ![x] = NoLease]
  /\ expiring' = [expiring EXCEPT ![x] = FALSE]

\* releaseAllPendingApprovalLeases
ReleasesAll ==
  /\ start' = [t \in Starts |->
       IF t \in {lease[x] : x \in Executions} THEN IdleStart ELSE start[t]]
  /\ lease' = [x \in Executions |-> NoLease]
  /\ expiring' = [x \in Executions |-> FALSE]

\* beginPendingApprovalResume: the timer stops, unless the expiry has begun.
StopsTimer(x) ==
  start' = [t \in Starts |->
    IF t = lease[x] /\ ~expiring[x] THEN [start[t] EXCEPT !.timer = NoTimer]
    ELSE start[t]]

---------------------------------------------------------------------------
(* Resuming the engine. *)

\* A later answer replaces the one that the sandbox is resumed with.
FaultyEngineResumes(x, a, known) ==
  IF engine[x] \in {"paused", "resuming"} \/ (engine[x] = "detached" /\ known)
  THEN /\ engine' = [engine EXCEPT ![x] = "resuming"]
       /\ given' = [given EXCEPT ![x] = a]
  ELSE UNCHANGED <<engine, given>>

\* engine.resume: the first answer settles a pause, later ones join it.  A call
\* made before its runtime went still has the engine that knows the pause.
EngineResumes(x, a, known) ==
  IF engine[x] = "paused" \/ (engine[x] = "detached" /\ known)
  THEN /\ engine' = [engine EXCEPT ![x] = "resuming"]
       /\ given' = [given EXCEPT ![x] = a]
  ELSE UNCHANGED <<engine, given>>

\* resumeWithLifecycle, or resumeEngineWithLifecycle when a peer forwards it.
Resumes(c, at, x, a) ==
  /\ call' = [call EXCEPT ![c] = [at |-> at, exec |-> x, known |-> FALSE]]
  /\ StopsTimer(x)
  /\ EngineResumes(x, a, FALSE)

\* takeApprovalResponse; the answer goes to the engine in the same turn.
Available(x) == IF memory[x] # NoAnswer THEN memory[x] ELSE stored[x]

TakesAndResumes(c, x) ==
  /\ memory' = [memory EXCEPT ![x] = NoAnswer]
  /\ stored' = [stored EXCEPT ![x] = NoAnswer]
  /\ Resumes(c, "resuming", x, Available(x))

\* The client calls the resume tool, which waits for the human.
Asks(c, x) ==
  /\ call[c] = IdleCall
  /\ runtime = "live"
  /\ x \in reported
  /\ idle' = 0
  /\ IF Available(x) # NoAnswer THEN TakesAndResumes(c, x)
     ELSE /\ call' = [call EXCEPT ![c] =
               [at |-> "waiting", exec |-> x, known |-> engine[x] \notin {"detached", "lost"}]]
          /\ UNCHANGED <<engine, given, start, answers>>
  /\ UNCHANGED <<reported, runtime, lease, expiring, failed, expiry, recorded>>

\* The answer comes with the call: the client's, or one a peer forwards by RPC.
ModelResumes(c, x) ==
  /\ call[c] = IdleCall
  /\ runtime # "down"
  /\ x \in reported
  /\ idle' \in {0, idle}
  /\ \E at \in {"resuming", "forwarded"} : Resumes(c, at, x, "model")
  /\ UNCHANGED <<reported, runtime, lease, expiring, failed, expiry, answers,
                 recorded>>

\* The engine was resumed by c, which has the outcome of x to come.
InResume(c, x) == call[c].at \in {"resuming", "forwarded"} /\ call[c].exec = x

Waits(c, x) == call[c].at = "waiting" /\ call[c].exec = x

\* A call that gives up takes the lease with it.
FaultyStopsWaiting(c) ==
  /\ call[c].at \in {"waiting", "stranded"}
  /\ call' = [call EXCEPT ![c] = IdleCall]
  /\ Release(call[c].exec)
  /\ UNCHANGED <<engine, reported, given, runtime, idle, failed, expiry,
                 answers, recorded>>

\* The waiters of one execution share a Deferred, which leaves the map with
\* the first of them: the others wait on, and nothing can wake them.
StopsWaiting(c) ==
  /\ call[c].at \in {"waiting", "stranded"}
  /\ call' = [d \in Calls |->
       CASE d = c -> IdleCall
         [] d # c /\ call[c].at = "waiting" /\ Waits(d, call[c].exec) ->
              [call[d] EXCEPT !.at = "stranded"]
         [] OTHER -> call[d]]
  /\ UNCHANGED <<engine, reported, given, runtime, idle, leases, failed,
                 expiry, answers, recorded>>

\* The resumed program ends, or it pauses again, and that pause is another one.
\* An expiry drops this outcome: then no reply reports the next pause.
SandboxEnds(x) ==
  /\ engine[x] = "resuming"
  /\ engine' = [engine EXCEPT ![x] = "settled"]
  /\ UNCHANGED <<reported, given, runtime, idle, leases, failed, expiry,
                 answers, recorded, call>>

\* The resume is over, and its lease goes on without a timer.
FaultyFinishes(c) ==
  /\ InResume(c, call[c].exec)
  /\ engine[call[c].exec] # "resuming"
  /\ call' = [call EXCEPT ![c] = IdleCall]
  /\ UNCHANGED <<engine, reported, given, runtime, idle, leases, failed,
                 expiry, answers, recorded>>

\* finishPendingApprovalResume
Finishes(c) ==
  LET x == call[c].exec IN
  /\ InResume(c, x)
  /\ engine[x] # "resuming"
  /\ call' = [call EXCEPT ![c] = IdleCall]
  /\ Release(x)
  /\ UNCHANGED <<engine, reported, given, runtime, idle, failed, expiry,
                 answers, recorded>>

---------------------------------------------------------------------------
(* Recording an answer: the human's, or the decline of an expiry. *)

HasWaiter(x) == \E c \in Calls : Waits(c, x)

\* recordApprovalResponse, when calls wait: all of them are woken in the same
\* turn, one takes the answer and the others report that approval is required.
Delivers(x, a) ==
  \E c \in Calls :
    /\ Waits(c, x)
    /\ call' = [d \in Calls |->
         CASE d = c -> [at |-> "resuming", exec |-> x, known |-> FALSE]
           [] d # c /\ Waits(d, x) -> IdleCall
           [] OTHER -> call[d]]
    /\ EngineResumes(x, a, call[c].known)
    /\ memory' = [memory EXCEPT ![x] = NoAnswer]
    /\ stored' = [stored EXCEPT ![x] = NoAnswer]

\* When none waits the answer stays, in memory and in storage.
Keeps(x, a) ==
  /\ ~HasWaiter(x)
  /\ memory' = [memory EXCEPT ![x] = a]
  /\ stored' = [stored EXCEPT ![x] = a]
  /\ UNCHANGED call

\* resumeExecutionForApproval
HumanAnswers(x) ==
  /\ runtime # "down"
  /\ engine[x] = "paused"
  /\ x \in reported
  /\ recorded' = recorded \cup {x}
  /\ \/ Delivers(x, "human") /\ StopsTimer(x)
     \/ Keeps(x, "human") /\ UNCHANGED <<engine, given, start>>
  /\ UNCHANGED <<reported, runtime, idle, lease, expiring, failed, expiry>>

Due(t) == start[t].at = "held" /\ start[t].timer = ApprovalTimeout

\* The timer of the start has fired, and the lease of the pause goes.
Drops(t, x) ==
  /\ start' = [s \in Starts |->
       CASE s = lease[x] -> IdleStart
         [] s = t /\ s # lease[x] -> [start[s] EXCEPT !.timer = NoTimer]
         [] OTHER -> start[s]]
  /\ lease' = [lease EXCEPT ![x] = NoLease]
  /\ expiring' = [expiring EXCEPT ![x] = FALSE]

\* The answer that is there is not looked for.
FaultyNothingToDecline(x) == lease[x] = NoLease \/ expiring[x]

\* expirePendingApproval: the lease is gone, another expiry is under way, or
\* an answer is there.
NothingToDecline(x) == lease[x] = NoLease \/ expiring[x] \/ memory[x] # NoAnswer

\* A lease that is there is released all the same.
ExpiresIdly(t) ==
  LET x == start[t].exec IN
  /\ Due(t)
  /\ NothingToDecline(x)
  /\ Drops(t, x)
  /\ UNCHANGED <<engine, reported, given, runtime, idle, failed, expiry,
                 answers, recorded, call>>

\* It declines, and a call that waits takes the decline to the engine.
DeclinesToWaiter(t) ==
  LET x == start[t].exec IN
  /\ Due(t)
  /\ ~NothingToDecline(x)
  /\ Delivers(x, "timeout")
  /\ Drops(t, x)
  /\ UNCHANGED <<reported, runtime, idle, failed, expiry, recorded>>

\* No call waits, and there is no runtime.
DeclinesToNobody(t) ==
  LET x == start[t].exec IN
  /\ Due(t)
  /\ ~NothingToDecline(x)
  /\ runtime = "down"
  /\ Keeps(x, "timeout")
  /\ Drops(t, x)
  /\ UNCHANGED <<engine, reported, given, runtime, idle, failed, expiry,
                 recorded>>

\* The expiry resumes the engine itself, whose outcome it drops, and releases the
\* lease after it.  It may do so as well when the call it woke has left the map
\* of waiters.
DeclinesItself(t) ==
  LET x == start[t].exec IN
  /\ Due(t)
  /\ ~NothingToDecline(x)
  /\ runtime # "down"
  /\ \/ Delivers(x, "timeout")
     \/ Keeps(x, "timeout") /\ EngineResumes(x, "timeout", FALSE)
  /\ expiry' = expiry \cup {x}
  /\ expiring' = [expiring EXCEPT ![x] = TRUE]
  /\ start' = [s \in Starts |->
       IF s \in {t, lease[x]} THEN [start[s] EXCEPT !.timer = NoTimer] ELSE start[s]]
  /\ UNCHANGED <<reported, runtime, idle, lease, failed, recorded>>

ExpiryEnds(x) ==
  /\ x \in expiry
  /\ engine[x] # "resuming"
  /\ expiry' = expiry \ {x}
  /\ Release(x)
  /\ UNCHANGED <<engine, reported, given, runtime, idle, failed, answers,
                 recorded, call>>

---------------------------------------------------------------------------
(* Time, the alarm and the runtime. *)

Tick ==
  /\ idle' = IF idle = Horizon THEN idle ELSE idle + 1
  /\ start' = [t \in Starts |->
       IF start[t].timer < ApprovalTimeout THEN [start[t] EXCEPT !.timer = @ + 1] ELSE start[t]]
  /\ <<idle', start'>> # <<idle, start>>
  /\ UNCHANGED <<engine, reported, given, runtime, lease, expiring, failed,
                 expiry, answers, recorded, call>>

Paused == {x \in Executions : engine[x] = "paused"}

\* The client's calls are requests that the transport has put in storage; a call
\* that a peer forwards is not.
Busy == \E c \in Calls : call[c].at \in {"waiting", "stranded", "resuming"}

\* decideSessionAlarm, when it says destroy_idle_session.
DestroysIdleSession(paused, busy) ==
  /\ idle >= SessionTimeout
  /\ IF paused # {} THEN idle >= MaxPausedIdle
     ELSE busy => idle >= MaxRunningIdle

\* alarm, closeRuntime: every lease is released, then the directory is told.  An
\* object without a server name is cleaned up whatever its clock says.  An open
\* stream counts as work, and so does another request of the client.
DisposeBegins(work) ==
  /\ runtime = "live"
  /\ Addressable => DestroysIdleSession(Paused, Busy \/ work)
  /\ runtime' = "closing"
  /\ ReleasesAll
  /\ UNCHANGED <<engine, reported, given, idle, failed, expiry, answers,
                 recorded, call>>

\* The engine is let go of: only the calls in progress still know it.
DisposeEnds ==
  /\ runtime = "closing"
  /\ runtime' = "down"
  /\ engine' = [x \in Executions |-> IF engine[x] = "paused" THEN "detached" ELSE engine[x]]
  /\ UNCHANGED <<reported, given, idle, leases, failed, expiry, answers,
                 recorded, call>>

\* The next request closes what is left of the last runtime, builds another, and
\* marks its activity.
Restores ==
  /\ runtime = "down"
  /\ runtime' = "live"
  /\ idle' = 0
  /\ ReleasesAll
  /\ UNCHANGED <<engine, reported, given, failed, expiry, answers, recorded,
                 call>>

\* A request that has nothing to do with a pause.
OtherRequest ==
  /\ runtime = "live"
  /\ idle # 0
  /\ idle' = 0
  /\ UNCHANGED <<engine, reported, given, runtime, leases, failed, expiry,
                 answers, recorded, call>>

\* The object leaves memory, by eviction or a crash; its storage stays.
Evicts ==
  /\ runtime' = "down"
  /\ engine' = [x \in Executions |->
       IF engine[x] \in {"running", "settled"} THEN engine[x] ELSE "lost"]
  /\ lease' = [x \in Executions |-> NoLease]
  /\ expiring' = [x \in Executions |-> FALSE]
  /\ start' = [t \in Starts |-> IdleStart]
  /\ expiry' = {}
  /\ memory' = [x \in Executions |-> NoAnswer]
  /\ call' = [c \in Calls |-> IdleCall]
  /\ UNCHANGED <<reported, given, idle, failed, stored, recorded>>

Next ==
  \/ \E t \in Starts, x \in Executions : Reports(t, x)
  \/ \E t \in Starts : Arms(t) \/ StartFails(t)
  \/ \E c \in Calls, x \in Executions : Asks(c, x) \/ ModelResumes(c, x)
  \/ \E c \in Calls : StopsWaiting(c) \/ Finishes(c)
  \/ \E x \in Executions : Pauses(x) \/ SandboxEnds(x) \/ HumanAnswers(x) \/ ExpiryEnds(x)
  \/ \E t \in Starts :
       ExpiresIdly(t) \/ DeclinesToWaiter(t) \/ DeclinesToNobody(t) \/ DeclinesItself(t)
  \/ \E work \in BOOLEAN : DisposeBegins(work)
  \/ Tick \/ DisposeEnds \/ Restores \/ OtherRequest \/ Evicts

Spec == Init /\ [][Next]_vars

(* Fairness.  Keep-alives and the directory answer, timers fire, and the   *)
(* sandbox ends at the latest at its own timeout.                          *)
Fairness ==
  /\ WF_vars(Tick) /\ WF_vars(DisposeEnds)
  /\ \A t \in Starts : WF_vars(Arms(t) \/ StartFails(t))
  /\ \A t \in Starts : WF_vars(ExpiresIdly(t) \/ DeclinesToWaiter(t) \/
                                  DeclinesToNobody(t) \/ DeclinesItself(t))
  /\ \A x \in Executions : WF_vars(SandboxEnds(x)) /\ WF_vars(ExpiryEnds(x))
  /\ \A c \in Calls : WF_vars(Finishes(c))

FairSpec == Spec /\ Fairness

---------------------------------------------------------------------------
(* Properties *)

(* Type correctness.  A timer runs only in a start that is held, and an    *)
(* entry of pendingApprovalLeases names a start that was made for it.      *)
TypeOK ==
  /\ engine \in [Executions -> {"running", "paused", "resuming", "settled", "detached", "lost"}]
  /\ reported \subseteq Executions
  /\ given \in [Executions -> Answers \cup {NoAnswer}]
  /\ runtime \in {"live", "closing", "down"}
  /\ idle \in 0 .. Horizon
  /\ lease \in [Executions -> Starts \cup {NoLease}]
  /\ expiring \in [Executions -> BOOLEAN]
  /\ start \in [Starts -> {IdleStart} \cup
       [at : {"acquiring"}, exec : Executions, timer : {NoTimer}] \cup
       [at : {"held"}, exec : Executions, timer : 0 .. ApprovalTimeout \cup {NoTimer}]]
  /\ failed \subseteq Executions
  /\ expiry \subseteq Executions
  /\ memory \in [Executions -> Answers \cup {NoAnswer}]
  /\ stored \in [Executions -> Answers \cup {NoAnswer}]
  /\ recorded \subseteq Executions
  /\ call \in [Calls -> {IdleCall} \cup
       [at : {"waiting", "stranded", "resuming", "forwarded"}, exec : Executions, known : BOOLEAN]]
  /\ \A x \in Executions : lease[x] # NoLease =>
       start[lease[x]].at = "held" /\ start[lease[x]].exec = x

(* A pause is declined for want of an answer only if no human was told     *)
(* that the answer is recorded, however the answer, the timers, the calls  *)
(* that wait and those that leave interleave (expirePendingApproval).      *)
TimeoutYieldsToHuman ==
  \A x \in Executions : given[x] = "timeout" => x \notin recorded

(* A pause that a reply reported and that a live session can still resume  *)
(* is under a start of a lease, or under a lease whose timer runs, or its  *)
(* answer waits in memory for the client to ask; unless the start of its   *)
(* lease failed (startPendingApprovalLease, releasePendingApprovalLease,   *)
(* expirePendingApproval).                                                 *)
PauseHasAWayOut ==
  \A x \in reported : runtime = "live" /\ engine[x] = "paused" =>
    \/ \E t \in Starts : start[t].at = "acquiring" /\ start[t].exec = x
    \/ lease[x] # NoLease /\ start[lease[x]].timer # NoTimer
    \/ memory[x] # NoAnswer
    \/ x \in failed

(* A lease keeps the object alive, so something must be there to release   *)
(* it: its timer runs, a resume that stopped the timer is in progress, or  *)
(* its expiry waits for the engine (beginPendingApprovalResume,            *)
(* finishPendingApprovalResume, expirePendingApproval).                    *)
LeaseHasReleaser ==
  \A x \in Executions : lease[x] # NoLease =>
    \/ start[lease[x]].timer # NoTimer
    \/ \E c \in Calls : InResume(c, x)
    \/ x \in expiry

(* Leases, answers and the alarm implement the promise about an approval.  *)
(* A runtime that is gone can still be answered through a call it left     *)
(* waiting.                                                                *)
HeardByRuntime(x) == \E c \in Calls : Waits(c, x) /\ call[c].known

Stage(x) ==
  CASE engine[x] = "running" -> "unasked"
    [] engine[x] = "paused" -> "open"
    [] engine[x] \in {"resuming", "settled"} -> "decided"
    [] engine[x] = "detached" /\ HeardByRuntime(x) -> "open"
    [] OTHER -> "lost"

Decision == INSTANCE ApprovalDecision WITH
  Questions <- Executions,
  AnswerSet <- Answers,
  Human <- "human",
  Timeout <- "timeout",
  stage <- [x \in Executions |-> Stage(x)],
  decision <- given,
  told <- recorded

ImplementsDecision == Decision!Spec

(* The alarm of a session that has a server name never disposes of its     *)
(* runtime while the approval window of a lease is open                    *)
(* (session-alarm-policy.ts, MAX_PAUSED_SESSION_IDLE_MS: "once it elapses  *)
(* the browser approval wait has already timed out").  It rests on a limit *)
(* for paused sessions that is not below the approval window.              *)
DisposalSparesApprovals ==
  [][Addressable /\ runtime = "live" /\ runtime' = "closing" =>
       \A x \in Executions :
         engine[x] = "paused" /\ lease[x] # NoLease => start[lease[x]].timer = ApprovalTimeout]_vars

(* A lease ends: the approval is answered, declined or its runtime is      *)
(* disposed of, and the object is not kept alive for it after that.        *)
LeaseEnds == \A x \in Executions : lease[x] # NoLease ~> lease[x] = NoLease

(* A pause under lease is resumed, or an answer to it waits for the client *)
(* to ask, or its runtime is gone.                                         *)
LeasedPauseIsDecided ==
  \A x \in Executions : lease[x] # NoLease /\ engine[x] = "paused" ~>
    engine[x] # "paused" \/ memory[x] # NoAnswer

===============================================================================

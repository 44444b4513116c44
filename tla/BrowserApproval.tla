---------------------------- MODULE BrowserApproval ----------------------------
(***************************************************************************)
(* Approval in the browser, on hosts of one process: the approval store    *)
(* (packages/hosts/mcp/src/browser-approval-store.ts), the resume tool     *)
(* that waits on it (tool-server.ts) and the HTTP endpoint that records    *)
(* the human's answer (in-memory-session-store.ts).                        *)
(*                                                                         *)
(* A resume that finds no answer waits on a Deferred, which all resumes of *)
(* one execution share through the map `waiters`.  Recording an answer     *)
(* completes the Deferred the map holds; a resume that wakes takes the     *)
(* answer out of the store, if it is still there, and gives it to the      *)
(* engine.  Clients give up on a long poll and call resume again, while    *)
(* the first call goes on waiting in the server.                           *)
(***************************************************************************)
EXTENDS Naturals, FiniteSets

CONSTANTS
  Executions,  \* paused executions, each with an id of its own
  Resumes,     \* calls of the resume tool in progress
  Browsers,    \* approval requests in progress
  MaxDeferreds \* Deferreds alive at once: one per resume is enough (see Mints)

Actions == {"accept", "decline"}   \* "cancel" is delivered as "decline" is
NoAction == "none"
Deferreds == 1 .. MaxDeferreds
NoDeferred == 0

ASSUME DeferredsAssumption == MaxDeferreds \in Nat

VARIABLES
  engine,     \* "running", "paused", "settled": what the engine knows of it
  delivered,  \* the action the engine was resumed with
  closed,     \* executions whose session was disposed of
  responses,  \* the map of the same name: the recorded answer
  waiters,    \* the map of the same name: the Deferred resumes share
  completed,  \* Deferreds that have been completed
  resume,     \* what each resume call is doing
  browser     \* what each approval request is doing

vars == <<engine, delivered, closed, responses, waiters, completed, resume, browser>>

IdleResume == [at |-> "idle", exec |-> "none", on |-> NoDeferred]
IdleBrowser == [at |-> "idle", exec |-> "none", action |-> NoAction]

Init ==
  /\ engine = [x \in Executions |-> "running"]
  /\ delivered = [x \in Executions |-> NoAction]
  /\ closed = {}
  /\ responses = [x \in Executions |-> NoAction]
  /\ waiters = [x \in Executions |-> NoDeferred]
  /\ completed = {}
  /\ resume = [r \in Resumes |-> IdleResume]
  /\ browser = [b \in Browsers |-> IdleBrowser]

---------------------------------------------------------------------------
(* The execution. *)

Pauses(x) ==
  /\ engine[x] = "running"
  /\ engine' = [engine EXCEPT ![x] = "paused"]
  /\ UNCHANGED <<delivered, closed, responses, waiters, completed, resume, browser>>

SandboxEnds(x) ==
  /\ engine[x] = "paused"
  /\ engine' = [engine EXCEPT ![x] = "settled"]
  /\ UNCHANGED <<delivered, closed, responses, waiters, completed, resume, browser>>

\* Only the engine is let go of; the answers and waiters of the store stay.
DisposeSession(x) ==
  /\ x \notin closed
  /\ closed' = closed \cup {x}
  /\ UNCHANGED <<engine, delivered, responses, waiters, completed, resume, browser>>

\* engine.resume: the first answer settles the pause, a later one is replayed.
EngineResumes(x, action) ==
  IF engine[x] = "paused"
  THEN /\ engine' = [engine EXCEPT ![x] = "settled"]
       /\ delivered' = [delivered EXCEPT ![x] = action]
  ELSE UNCHANGED <<engine, delivered>>

---------------------------------------------------------------------------
(* The resume tool: waitFor, then the engine. *)

Asks(r, x) ==
  /\ resume[r] = IdleResume
  /\ engine[x] # "running"
  /\ x \notin closed

\* take: the answer leaves the store, and goes to the engine in the same turn.
TakesTo(x) ==
  /\ responses' = [responses EXCEPT ![x] = NoAction]
  /\ EngineResumes(x, responses[x])

ResumeTakes(r, x) ==
  /\ Asks(r, x)
  /\ responses[x] # NoAction
  /\ TakesTo(x)
  /\ UNCHANGED <<closed, waiters, completed, resume, browser>>

\* A Deferred nobody refers to any more is taken for a new one.
Mints(d) ==
  LET used == {waiters[x] : x \in Executions} \cup {resume[r].on : r \in Resumes}
  IN  d \notin used /\ \A q \in 1 .. (d - 1) : q \in used

ResumeWaits(r, x, d) ==
  /\ Asks(r, x)
  /\ responses[x] = NoAction
  /\ IF waiters[x] # NoDeferred
     THEN d = waiters[x] /\ UNCHANGED <<waiters, completed>>
     ELSE /\ Mints(d)
          /\ waiters' = [waiters EXCEPT ![x] = d]
          /\ completed' = completed \ {d}
  /\ resume' = [resume EXCEPT ![r] = [at |-> "waiting", exec |-> x, on |-> d]]
  /\ UNCHANGED <<engine, delivered, closed, responses, browser>>

\* The call ends, and still holds what it waited on.
FaultyStopsWaitingHalfway(r) ==
  LET x == resume[r].exec IN
  /\ resume' = [resume EXCEPT ![r].at = "idle"]
  /\ waiters' = [waiters EXCEPT ![x] = IF @ = resume[r].on THEN NoDeferred ELSE @]

\* There is no `ensuring`.
FaultyStopsWaitingAndLeaks(r) ==
  /\ resume' = [resume EXCEPT ![r] = IdleResume]
  /\ UNCHANGED waiters

\* The `ensuring` of waitFor: the map lets go of the Deferred this call waited on.
StopsWaiting(r) ==
  LET x == resume[r].exec IN
  /\ resume' = [resume EXCEPT ![r] = IdleResume]
  /\ waiters' = [waiters EXCEPT ![x] = IF @ = resume[r].on THEN NoDeferred ELSE @]

\* Woken, but another resume of the execution has taken the answer: this one
\* reports that approval is still required.
Wakes(r) ==
  LET x == resume[r].exec IN
  /\ resume[r].at = "waiting"
  /\ resume[r].on \in completed
  /\ StopsWaiting(r)
  /\ IF responses[x] # NoAction THEN TakesTo(x)
     ELSE UNCHANGED <<engine, delivered, responses>>
  /\ UNCHANGED <<closed, completed, browser>>

\* The wait drops the answer with the waiter.
FaultyTimesOutForgets(r) ==
  /\ resume[r].at = "waiting"
  /\ StopsWaiting(r)
  /\ responses' = [responses EXCEPT ![resume[r].exec] = NoAction]
  /\ UNCHANGED <<engine, delivered, closed, completed, browser>>

\* BROWSER_APPROVAL_WAIT_TIMEOUT_MS after it began to wait.
TimesOut(r) ==
  /\ resume[r].at = "waiting"
  /\ StopsWaiting(r)
  /\ UNCHANGED <<engine, delivered, closed, responses, completed, browser>>

---------------------------------------------------------------------------
(* The approval endpoint: is it still paused, read the body, record it.    *)

Checks(b, x, action) ==
  /\ browser[b] = IdleBrowser
  /\ x \notin closed
  /\ engine[x] = "paused"
  /\ browser' = [browser EXCEPT ![b] = [at |-> "checked", exec |-> x, action |-> action]]
  /\ UNCHANGED <<engine, delivered, closed, responses, waiters, completed, resume>>

\* The answer is stored, and whoever asks next will find it.
FaultyRecordsOnly(b) ==
  /\ browser[b].at = "checked"
  /\ responses' = [responses EXCEPT ![browser[b].exec] = browser[b].action]
  /\ browser' = [browser EXCEPT ![b] = IdleBrowser]
  /\ UNCHANGED <<engine, delivered, closed, waiters, completed, resume>>

Records(b) ==
  LET x == browser[b].exec IN
  /\ browser[b].at = "checked"
  /\ responses' = [responses EXCEPT ![x] = browser[b].action]
  /\ completed' = IF waiters[x] # NoDeferred THEN completed \cup {waiters[x]} ELSE completed
  /\ browser' = [browser EXCEPT ![b] = IdleBrowser]
  /\ UNCHANGED <<engine, delivered, closed, waiters, resume>>

\* The body is no answer.
Rejects(b) ==
  /\ browser[b].at = "checked"
  /\ browser' = [browser EXCEPT ![b] = IdleBrowser]
  /\ UNCHANGED <<engine, delivered, closed, responses, waiters, completed, resume>>

Next ==
  \/ \E x \in Executions : Pauses(x) \/ SandboxEnds(x) \/ DisposeSession(x)
  \/ \E r \in Resumes, x \in Executions : ResumeTakes(r, x)
  \/ \E r \in Resumes, x \in Executions, d \in Deferreds : ResumeWaits(r, x, d)
  \/ \E r \in Resumes : Wakes(r) \/ TimesOut(r)
  \/ \E b \in Browsers, x \in Executions, action \in Actions : Checks(b, x, action)
  \/ \E b \in Browsers : Records(b) \/ Rejects(b)

Spec == Init /\ [][Next]_vars

(* Fairness.  The event loop runs a fiber whose Deferred was completed.     *)
(* Nothing obliges a client to call resume, a human to answer, or a wait   *)
(* to last until its timeout.                                              *)
Fairness == \A r \in Resumes : WF_vars(Wakes(r))

FairSpec == Spec /\ Fairness

---------------------------------------------------------------------------
(* Properties *)

(* Type correctness.  A resume that waits has an execution and a Deferred; *)
(* one that does not has neither (waitFor, resumeAfterBrowserApproval).    *)
TypeOK ==
  /\ engine \in [Executions -> {"running", "paused", "settled"}]
  /\ delivered \in [Executions -> Actions \cup {NoAction}]
  /\ closed \subseteq Executions
  /\ responses \in [Executions -> Actions \cup {NoAction}]
  /\ waiters \in [Executions -> Deferreds \cup {NoDeferred}]
  /\ completed \subseteq Deferreds
  /\ resume \in [Resumes -> {IdleResume} \cup
                   [at : {"waiting"}, exec : Executions, on : Deferreds]]
  /\ browser \in [Browsers -> {IdleBrowser} \cup
                   [at : {"checked"}, exec : Executions, action : Actions]]

(* While an answer is in the store, the Deferred its execution's resumes   *)
(* share, if there is one, has been completed: no resume that shares it    *)
(* sleeps through the answer.                                              *)
SharedWaitersWake ==
  \A x \in Executions :
    responses[x] # NoAction /\ waiters[x] # NoDeferred => waiters[x] \in completed

(* The map of waiters holds a Deferred only while a resume of that         *)
(* execution waits on it: an answer wakes a call in progress, and an       *)
(* execution nobody asks about leaves nothing behind.                      *)
WaitersAreInUse ==
  \A x \in Executions : waiters[x] # NoDeferred =>
    \E r \in Resumes : resume[r] = [at |-> "waiting", exec |-> x, on |-> waiters[x]]

(* recordResponse wakes "any in-flight waitForResponse" (line 24): while   *)
(* the execution is paused, no resume waits on a Deferred that recording   *)
(* an answer would not complete.                                           *)
EveryWaiterIsReachable ==
  \A r \in Resumes : resume[r].at = "waiting" /\ engine[resume[r].exec] = "paused" =>
    resume[r].on \in completed \/ waiters[resume[r].exec] = resume[r].on

(* The engine gets the latest answer the human gave before it was taken,   *)
(* gets it once, and an answer recorded for a paused execution stays until *)
(* then, whichever resumes wake, time out or come late.                    *)
Stage(x) ==
  CASE engine[x] = "running" -> "unasked"
    [] engine[x] = "paused" -> IF responses[x] = NoAction THEN "asked" ELSE "answered"
    [] OTHER -> IF delivered[x] = NoAction THEN "closed" ELSE "used"

AnswerTo(x) == IF engine[x] = "paused" THEN responses[x] ELSE delivered[x]

Answers == INSTANCE HumanAnswer WITH
  Questions <- Executions,
  AnswerSet <- Actions,
  NoAnswer <- NoAction,
  stage <- [x \in Executions |-> Stage(x)],
  answer <- [x \in Executions |-> AnswerTo(x)]

ImplementsHumanAnswer == Answers!Spec

(* "Waking any in-flight waitForResponse": a resume that waits on the      *)
(* Deferred its execution's resumes share stops waiting once an answer is  *)
(* recorded, without its timeout and without another call.                 *)
AnswerEndsTheWait ==
  \A r \in Resumes, x \in Executions :
    /\ resume[r].at = "waiting" /\ resume[r].exec = x
    /\ resume[r].on = waiters[x] /\ responses[x] # NoAction
    ~> resume[r] = IdleResume

===============================================================================

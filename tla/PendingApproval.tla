---------------------------- MODULE PendingApproval ----------------------------
(***************************************************************************)
(* An approval that outlives the engine that paused.                       *)
(*                                                                         *)
(* An artifact's tool call that pauses is recorded durably                 *)
(* (packages/core/sdk/src/pending-approval.ts), so that a resume served by *)
(* an engine that never heard of the pause can run the recorded call       *)
(* (packages/core/api/src/handlers/executions.ts).  Each HTTP request is a *)
(* process; the code between two awaits is one action.  The engine is what *)
(* ExecutionEngine shows it to be for one pause: live, being resumed,      *)
(* settled with an outcome, or gone - evicted from the outcome cache, or   *)
(* with an engine that was replaced.                                       *)
(***************************************************************************)
EXTENDS Naturals, FiniteSets

CONSTANTS
  Approvals,  \* paused artifact calls (execution ids)
  Requests,   \* HTTP requests that may be in progress at once
  NoApproval,
  Hosts,      \* the kinds of host to consider, see `host`
  OverlapOn   \* hosts on which answers to one approval may overlap

HostKinds == {"shared",      \* one engine serves every request and stays up
              "perRequest",  \* every request builds an engine of its own
              "rebuilt"}     \* one engine, which restarts may replace

ASSUME HostsAssumption ==
  /\ Hosts \subseteq HostKinds /\ OverlapOn \subseteq HostKinds
  /\ NoApproval \notin Approvals

VARIABLES
  host,
  engine,    \* what the engine knows of each approval's pause
  call,      \* the paused tool call: "unused", "waiting", "approved", "refused", "ran"
  outcome,   \* what the engine recorded for each pause
  record,    \* approvals whose record is in the blob table
  expired,   \* approvals whose record is past its expiresAt
  request,   \* what each request is doing
  runs,      \* how often each approved call has run
  told,      \* history: what callers were told, and whether the call had run
  forgotten  \* history: approvals whose outcome, or whose answer, the engine forgot

engineVars == <<engine, call, outcome>>
vars == <<host, engineVars, record, expired, request, runs, told, forgotten>>

Idle == [at |-> "idle", approval |-> NoApproval, action |-> "none"]
Actions == {"accept", "decline"}    \* "cancel" is treated as "decline" is
Outcomes == {"completed", "declined", "pausesAgain", "interrupted"}
Answers == Outcomes \cup {"paused", "expired"}
Stages == {"idle", "recording", "resuming", "joining", "reading", "deleting", "running", "replying"}

Init ==
  /\ host \in Hosts
  /\ engine = [a \in Approvals |-> "unborn"]
  /\ call = [a \in Approvals |-> "unused"]
  /\ outcome = [a \in Approvals |-> "none"]
  /\ record = {}
  /\ expired = {}
  /\ request = [r \in Requests |-> Idle]
  /\ runs = [a \in Approvals |-> 0]
  /\ told = [a \in Approvals |-> {}]
  /\ forgotten = {}

\* Request r ends with an answer about its approval.
Answered(r, a, answer) ==
  /\ request' = [request EXCEPT ![r] = Idle]
  /\ told' = [told EXCEPT ![a] = @ \cup {[answer |-> answer, ran |-> runs[a] > 0]}]

Goes(r, stage) == request' = [request EXCEPT ![r].at = stage]
Starts(r, stage, a, action) ==
  request' = [request EXCEPT ![r] = [at |-> stage, approval |-> a, action |-> action]]

\* The outcome of a's resume is recorded.
Settles(a, out) ==
  /\ engine' = [engine EXCEPT ![a] = "settled"]
  /\ outcome' = [outcome EXCEPT ![a] = out]

---------------------------------------------------------------------------
(* POST execute with an artifactId: the call pauses, ...                   *)
ExecutePauses(r, a) ==
  /\ request[r] = Idle
  /\ engine[a] = "unborn"
  /\ engine' = [engine EXCEPT ![a] = "live"]
  /\ call' = [call EXCEPT ![a] = "waiting"]
  /\ Starts(r, "recording", a, "none")
  /\ UNCHANGED <<host, outcome, record, expired, runs, told, forgotten>>

(* ... is recorded, if storage lets it, and the id is handed out.  On a    *)
(* per-request host the fiber goes away with the response.                 *)
RecordPendingApproval(r) ==
  LET a == request[r].approval IN
  /\ request[r].at = "recording"
  /\ record' \in {record, record \cup {a}}
  /\ engine' = [engine EXCEPT ![a] = IF host = "perRequest" THEN "gone" ELSE @]
  /\ Answered(r, a, "paused")
  /\ UNCHANGED <<host, call, outcome, expired, runs, forgotten>>

---------------------------------------------------------------------------
(* POST resume.  A caller answers an approval it was told of.              *)
Resumes(r, a) ==
  /\ request[r] = Idle
  /\ \E t \in told[a] : t.answer = "paused"
  /\ host \in OverlapOn \/ \A q \in Requests : request[q].approval # a

\* engine.resume finds the open pause and answers the call that waits.
ResumeLive(r, a, action) ==
  /\ Resumes(r, a)
  /\ engine[a] = "live"
  /\ engine' = [engine EXCEPT ![a] = "resuming"]
  /\ call' = [call EXCEPT ![a] = IF action = "accept" THEN "approved" ELSE "refused"]
  /\ Starts(r, "resuming", a, action)
  /\ UNCHANGED <<host, outcome, record, expired, runs, told, forgotten>>

\* The gate lets the approved call run, whether or not anybody still waits for it.
CallRuns(a) ==
  /\ call[a] = "approved"
  /\ call' = [call EXCEPT ![a] = "ran"]
  /\ runs' = [runs EXCEPT ![a] = @ + 1]
  /\ UNCHANGED <<host, engine, outcome, record, expired, request, told, forgotten>>

\* The resume returns what the execution came to: its end, with or without the
\* call, or a pause of its own that the tool asked for.
ResumeReturns(r) ==
  LET a == request[r].approval IN
  /\ request[r].at = "resuming"
  /\ \E out \in IF call[a] = "refused" THEN {"declined"} ELSE {"completed", "pausesAgain"} :
       Settles(a, out) /\ Answered(r, a, out)
  /\ UNCHANGED <<host, call, record, expired, runs, forgotten>>

\* engine.resume finds the pause being resumed and waits with the first caller, ...
ResumeJoins(r, a, action) ==
  /\ Resumes(r, a)
  /\ engine[a] = "resuming"
  /\ Starts(r, "joining", a, action)
  /\ UNCHANGED <<host, engineVars, record, expired, runs, told, forgotten>>

JoinedResumeReturns(r) ==
  LET a == request[r].approval IN
  /\ request[r].at = "joining"
  /\ engine[a] # "resuming"
  /\ Answered(r, a, outcome[a])
  /\ UNCHANGED <<host, engineVars, record, expired, runs, forgotten>>

\* ... or finds what was recorded.
ResumeReplays(r, a) ==
  /\ Resumes(r, a)
  /\ engine[a] = "settled"
  /\ Answered(r, a, outcome[a])
  /\ UNCHANGED <<host, engineVars, record, expired, runs, forgotten>>

\* engine.resume returns null: resumeFromPendingApproval takes over.
ResumeElsewhere(r, a, action) ==
  /\ Resumes(r, a)
  /\ engine[a] = "gone"
  /\ Starts(r, "reading", a, action)
  /\ UNCHANGED <<host, engineVars, record, expired, runs, told, forgotten>>

\* consume, first await: blobs.get.  A storage error counts as no record.
ConsumeReads(r) ==
  LET a == request[r].approval IN
  /\ request[r].at = "reading"
  /\ \/ a \in record /\ Goes(r, "deleting") /\ UNCHANGED told
     \/ Answered(r, a, "expired")
  /\ UNCHANGED <<host, engineVars, record, expired, runs, forgotten>>

\* The record of a call that was accepted is left to whoever runs it.
FaultyConsumeKeepsAccepted(r) ==
  LET a == request[r].approval IN
  /\ request[r].at = "deleting"
  /\ record' = IF request[r].action = "accept" /\ a \notin expired
               THEN record ELSE record \ {a}
  /\ IF a \in expired THEN Answered(r, a, "expired")
     ELSE IF request[r].action # "accept" THEN Answered(r, a, "declined")
     ELSE Goes(r, "running") /\ UNCHANGED told
  /\ UNCHANGED <<host, engineVars, expired, runs, forgotten>>

\* A record is checked before it is consumed, and a declined one is left.
FaultyConsumeKeepsDeclined(r) ==
  LET a == request[r].approval IN
  /\ request[r].at = "deleting"
  /\ record' = IF request[r].action = "accept" THEN record \ {a} ELSE record
  /\ IF a \in expired THEN Answered(r, a, "expired")
     ELSE IF request[r].action # "accept" THEN Answered(r, a, "declined")
     ELSE Goes(r, "running") /\ UNCHANGED told
  /\ UNCHANGED <<host, engineVars, expired, runs, forgotten>>

\* consume, second await: blobs.delete, and what is decided of the record after it.
ConsumeDeletes(r) ==
  LET a == request[r].approval IN
  /\ request[r].at = "deleting"
  /\ record' = record \ {a}
  /\ IF a \in expired THEN Answered(r, a, "expired")
     ELSE IF request[r].action # "accept" THEN Answered(r, a, "declined")
     ELSE Goes(r, "running") /\ UNCHANGED told
  /\ UNCHANGED <<host, engineVars, expired, runs, forgotten>>

ConsumeCannotDelete(r) ==
  /\ request[r].at = "deleting"
  /\ Answered(r, request[r].approval, "expired")
  /\ UNCHANGED <<host, engineVars, record, expired, runs, forgotten>>

\* executeWithPause(code, { autoApprove: true }): the call runs on a fiber of its own ...
RunApprovedCall(r) ==
  LET a == request[r].approval IN
  /\ request[r].at = "running"
  /\ runs' = [runs EXCEPT ![a] = @ + 1]
  /\ Goes(r, "replying")
  /\ UNCHANGED <<host, engineVars, record, expired, told, forgotten>>

\* ... and the request answers with its result.
RepliesCompleted(r) ==
  /\ request[r].at = "replying"
  /\ Answered(r, request[r].approval, "completed")
  /\ UNCHANGED <<host, engineVars, record, expired, runs, forgotten>>

---------------------------------------------------------------------------
(* The environment. *)

\* The TTL runs from the moment the call is made, whether or not it has paused.
FaultyTtlRunsEarly(a) ==
  /\ a \notin expired
  /\ expired' = expired \cup {a}
  /\ UNCHANGED <<host, engineVars, record, request, runs, told, forgotten>>

TtlPasses(a) ==
  /\ a \in record \ expired
  /\ expired' = expired \cup {a}
  /\ UNCHANGED <<host, engineVars, record, request, runs, told, forgotten>>

\* The client hangs up or the isolate dies between two awaits.  A resume whose
\* caller hangs up records that as its outcome; the call it answered goes on.
RequestDies(r) ==
  LET a == request[r].approval IN
  /\ request[r].at # "idle"
  /\ request' = [request EXCEPT ![r] = Idle]
  /\ IF request[r].at = "resuming" THEN Settles(a, "interrupted")
     ELSE /\ engine' = [engine EXCEPT ![a] = IF host = "perRequest" THEN "gone" ELSE @]
          /\ UNCHANGED outcome
  /\ UNCHANGED <<host, call, record, expired, runs, told, forgotten>>

\* The sandbox times out or fails while its pause is open: the watcher settles it.
SandboxEnds(a) ==
  /\ engine[a] = "live"
  /\ Settles(a, "completed")
  /\ UNCHANGED <<host, call, record, expired, request, runs, told, forgotten>>

\* An answer was delivered to the paused call itself.
WasAnswered(a) == call[a] \in {"approved", "refused", "ran"}

\* recordSettledOutcome drops the oldest outcome when SETTLED_OUTCOME_LIMIT newer
\* ones are recorded, which an engine that serves one request never reaches.
EvictsOutcome(a) ==
  /\ host # "perRequest"
  /\ engine[a] = "settled"
  /\ engine' = [engine EXCEPT ![a] = "gone"]
  /\ forgotten' = forgotten \cup {a}
  /\ UNCHANGED <<host, call, outcome, record, expired, request, runs, told>>

Rebuild ==
  /\ host = "rebuilt"
  /\ engine' = [a \in Approvals |-> IF engine[a] = "unborn" THEN "unborn" ELSE "gone"]
  /\ call' = [a \in Approvals |-> IF call[a] = "approved" THEN "ran" ELSE call[a]]
  /\ request' = [r \in Requests |-> Idle]
  /\ forgotten' = forgotten \cup {a \in Approvals : WasAnswered(a)}
  /\ UNCHANGED <<host, outcome, record, expired, runs, told>>

Next ==
  \/ \E r \in Requests, a \in Approvals : ExecutePauses(r, a) \/ ResumeReplays(r, a)
  \/ \E r \in Requests, a \in Approvals, action \in Actions :
        \/ ResumeLive(r, a, action) \/ ResumeJoins(r, a, action)
        \/ ResumeElsewhere(r, a, action)
  \/ \E r \in Requests :
        \/ RecordPendingApproval(r) \/ ResumeReturns(r) \/ JoinedResumeReturns(r)
        \/ ConsumeReads(r) \/ ConsumeDeletes(r) \/ ConsumeCannotDelete(r)
        \/ RunApprovedCall(r) \/ RepliesCompleted(r) \/ RequestDies(r)
  \/ \E a \in Approvals :
        CallRuns(a) \/ TtlPasses(a) \/ SandboxEnds(a) \/ EvictsOutcome(a)
  \/ Rebuild

Spec == Init /\ [][Next]_vars

---------------------------------------------------------------------------
(* Properties *)

(* Type correctness.  Records and expiries are those of calls that paused. *)
TypeOK ==
  /\ host \in HostKinds
  /\ engine \in [Approvals -> {"unborn", "live", "resuming", "settled", "gone"}]
  /\ call \in [Approvals -> {"unused", "waiting", "approved", "refused", "ran"}]
  /\ outcome \in [Approvals -> Outcomes \cup {"none"}]
  /\ record \subseteq {a \in Approvals : engine[a] # "unborn"}
  /\ expired \subseteq {a \in Approvals : engine[a] # "unborn"}
  /\ request \in [Requests -> [at : Stages,
                               approval : Approvals \cup {NoApproval},
                               action : Actions \cup {"none"}]]
  /\ runs \in [Approvals -> Nat]
  /\ told \in [Approvals -> SUBSET [answer : Answers, ran : BOOLEAN]]
  /\ forgotten \subseteq Approvals

(* "One approval authorizes exactly one invocation and a replayed resume   *)
(* cannot re-run the call" (pending-approval.ts 21-22).                    *)
OneRunPerApproval == \A a \in Approvals : runs[a] <= 1

(* The same as far as the code keeps it: where answers to one approval    *)
(* overlap at most on one shared engine, a call runs once, through its live *)
(* pause or through its record, as long as the engine remembers it: until  *)
(* SETTLED_OUTCOME_LIMIT newer outcomes are recorded, and until an engine  *)
(* that delivered an answer is replaced.  The record of a forgotten        *)
(* approval is still there, and authorizes a run.                          *)
OneRunUnlessForgotten == \A a \in Approvals \ forgotten : runs[a] <= 1

(* Under the same conditions, once a caller was told that its approval was  *)
(* declined and nothing ran, the call never runs (executions.ts 130-131).   *)
DeclinedNeverRuns ==
  \A a \in Approvals \ forgotten :
    (\E t \in told[a] : t.answer = "declined") => runs[a] = 0

(* ApprovalExpiredError says "Nothing ran; trigger the action again"       *)
(* (api.ts 75-76): nobody is told so after the call has run.               *)
ExpiredMeansNothingRan ==
  \A a \in Approvals : [answer |-> "expired", ran |-> TRUE] \notin told[a]

===============================================================================

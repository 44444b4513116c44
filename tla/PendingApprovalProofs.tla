------------------------- MODULE PendingApprovalProofs -------------------------
(***************************************************************************)
(* Theorems about PendingApproval, for any number of approvals and         *)
(* requests: an approval lets its call run at most once, and a declined    *)
(* one never, as long as the engine remembers it and answers to one        *)
(* approval overlap at most where one engine serves them all.              *)
(***************************************************************************)
EXTENDS PendingApproval, TLAPS

About(a) == {r \in Requests : request[r].approval = a}
RunningFor(a) == {r \in About(a) : request[r].at = "running"}

\* Where a request is tells where its approval is.
RequestPlaced(r) ==
  LET a == request[r].approval IN
  /\ request[r].at = "idle" => request[r] = Idle
  /\ request[r].at # "idle" => a \in Approvals /\ engine[a] # "unborn"
  /\ request[r].at = "recording" =>
        /\ told[a] = {} /\ call[a] = "waiting" /\ engine[a] \in {"live", "settled", "gone"}
        /\ engine[a] = "gone" => a \in forgotten
  /\ request[r].at = "resuming" => engine[a] = "resuming"
  /\ request[r].at = "joining" =>
        \/ engine[a] = "resuming"
        \/ outcome[a] # "none" /\ (engine[a] = "settled" \/ a \in forgotten)
  /\ request[r].at \in {"reading", "deleting", "running", "replying"} => engine[a] = "gone"
  /\ request[r].at = "running" => a \notin record
  /\ host = "perRequest" => request[r].at \notin {"resuming", "joining"}

\* A request that records is the only one about its approval; one resumes at a time.
Exclusive(r, q) ==
  request[q].approval = request[r].approval =>
    /\ request[r].at # "recording"
    /\ ~(request[r].at = "resuming" /\ request[q].at = "resuming")

RequestsPlaced ==
  /\ \A r \in Requests : RequestPlaced(r)
  /\ \A r, q \in Requests : r # q => Exclusive(r, q)

\* What the engine knows of a pause tells what became of the call that paused.
PausesPlaced ==
  /\ \A a \in Approvals : engine[a] = "unborn" <=> call[a] = "unused"
  /\ \A a \in Approvals : engine[a] = "unborn" => told[a] = {}
  /\ \A a \in Approvals : engine[a] = "live" => call[a] = "waiting"
  /\ \A a \in Approvals : engine[a] = "resuming" => call[a] \in {"approved", "refused", "ran"}
  /\ \A a \in Approvals : engine[a] = "settled" => outcome[a] # "none"
  /\ \A a \in Approvals : outcome[a] = "declined" => call[a] = "refused"
  /\ host = "shared" => \A a \in Approvals : engine[a] = "gone" => a \in forgotten
  /\ host = "perRequest" => \A a \in Approvals :
        /\ engine[a] # "resuming" /\ call[a] \in {"unused", "waiting"}
        /\ (\E t \in told[a] : t.answer = "paused") => engine[a] = "gone"

\* Away from the shared host, requests about one approval come one after the other.
Sequential ==
  host # "shared" =>
    \A r, q \in Requests : request[r] # Idle /\ request[r].approval = request[q].approval => r = q

\* ... so that what one of them has read is still there for it to delete.
ReadIsThere ==
  host # "shared" => \A r \in Requests : request[r].at = "deleting" => request[r].approval \in record

\* The approval may still let its call run.
Spendable(a) ==
  \/ engine[a] # "gone" /\ call[a] \in {"unused", "waiting", "approved"}
  \/ engine[a] = "gone" /\ (a \in record \/ RunningFor(a) # {})

Declined(a) == \E t \in told[a] : t.answer = "declined"

\* What may still run has neither run nor been declined.
Spent ==
  \A a \in Approvals \ forgotten :
    /\ Spendable(a) => runs[a] = 0 /\ ~Declined(a)
    /\ runs[a] <= 1
    /\ Declined(a) \/ call[a] = "refused" => runs[a] = 0
    /\ engine[a] = "gone" => call[a] = "waiting"

Placed == TypeOK /\ RequestsPlaced /\ PausesPlaced
Sound == Placed /\ Sequential /\ ReadIsThere /\ Spent

---------------------------------------------------------------------------
LEMMA SoundInit == Init => Sound
<1> SUFFICES ASSUME Init PROVE Sound
  OBVIOUS
<1>1. TypeOK
  BY HostsAssumption DEF Init, TypeOK, Idle, Actions, Stages
<1>2. RequestsPlaced /\ PausesPlaced /\ Sequential /\ ReadIsThere /\ Spent
  BY HostsAssumption
  DEF Init, RequestsPlaced, RequestPlaced, Exclusive, PausesPlaced, Sequential, ReadIsThere, Spent, Idle, Declined
<1> QED  BY <1>1, <1>2 DEF Sound, Placed

---------------------------------------------------------------------------
(* One lemma per conjunct, one step per action.                            *)

RequestState == [at : Stages, approval : Approvals \cup {NoApproval},
                 action : Actions \cup {"none"}]
ToldState == [Approvals -> SUBSET [answer : Answers, ran : BOOLEAN]]

LEMMA AnsweredTyped ==
  ASSUME TypeOK, NEW r \in Requests, NEW a \in Approvals, NEW answer \in Answers,
         Answered(r, a, answer)
  PROVE  request' \in [Requests -> RequestState] /\ told' \in ToldState
<1>1. Idle \in RequestState
  BY DEF Idle, RequestState, Stages
<1>2. [answer |-> answer, ran |-> runs[a] > 0] \in [answer : Answers, ran : BOOLEAN]
  OBVIOUS
<1>3. request' = [request EXCEPT ![r] = Idle]
  BY DEF Answered
<1>4. request \in [Requests -> RequestState]
  BY DEF TypeOK, RequestState
<1>5. told \in ToldState
  BY DEF TypeOK, ToldState
<1>6. told' = [told EXCEPT ![a] = @ \cup {[answer |-> answer, ran |-> runs[a] > 0]}]
  BY DEF Answered
<1>7. told' \in ToldState
  BY <1>2, <1>5, <1>6 DEF ToldState
<1> QED  BY <1>1, <1>3, <1>4, <1>7

LEMMA StartsTyped ==
  ASSUME TypeOK, NEW r \in Requests, NEW a \in Approvals, NEW stage \in Stages,
         NEW action \in Actions \cup {"none"}, Starts(r, stage, a, action)
  PROVE  request' \in [Requests -> RequestState]
BY DEF TypeOK, Starts, RequestState

LEMMA TypeKept == Placed /\ [Next]_vars => TypeOK'
<1> SUFFICES ASSUME Placed, [Next]_vars PROVE TypeOK'
  OBVIOUS
<1>a. TypeOK /\ RequestsPlaced /\ PausesPlaced
  BY DEF Placed
<1> USE DEF TypeOK, Goes, RequestState, ToldState, Stages
<1>1. ASSUME NEW r \in Requests, NEW a \in Approvals, ExecutePauses(r, a) PROVE TypeOK'
  BY <1>1, <1>a, StartsTyped DEF ExecutePauses, Starts
<1>2. ASSUME NEW r \in Requests, RecordPendingApproval(r) PROVE TypeOK'
  BY <1>2, <1>a, AnsweredTyped DEF RecordPendingApproval, RequestsPlaced, RequestPlaced, Answers, Outcomes
<1>3. ASSUME NEW r \in Requests, NEW a \in Approvals, NEW action \in Actions,
             ResumeLive(r, a, action)
      PROVE  TypeOK'
  BY <1>3, <1>a, StartsTyped DEF ResumeLive, Resumes, Starts
<1>4. ASSUME NEW a \in Approvals, CallRuns(a) PROVE TypeOK'
  BY <1>4, <1>a DEF CallRuns
<1>5. ASSUME NEW r \in Requests, ResumeReturns(r) PROVE TypeOK'
  BY <1>5, <1>a, AnsweredTyped DEF ResumeReturns, Settles, RequestsPlaced, RequestPlaced, Answers, Outcomes
<1>6. ASSUME NEW r \in Requests, NEW a \in Approvals, NEW action \in Actions,
             ResumeJoins(r, a, action)
      PROVE  TypeOK'
  BY <1>6, <1>a, StartsTyped DEF ResumeJoins, Resumes, Starts, engineVars
<1>7. ASSUME NEW r \in Requests, JoinedResumeReturns(r) PROVE TypeOK'
  BY <1>7, <1>a, AnsweredTyped DEF JoinedResumeReturns, engineVars, RequestsPlaced, RequestPlaced, Answers, Outcomes
<1>8. ASSUME NEW r \in Requests, NEW a \in Approvals, ResumeReplays(r, a) PROVE TypeOK'
  BY <1>8, <1>a, AnsweredTyped DEF ResumeReplays, Resumes, engineVars, PausesPlaced, Answers
<1>9. ASSUME NEW r \in Requests, NEW a \in Approvals, NEW action \in Actions,
             ResumeElsewhere(r, a, action)
      PROVE  TypeOK'
  BY <1>9, <1>a, StartsTyped DEF ResumeElsewhere, Resumes, Starts, engineVars
<1>10. ASSUME NEW r \in Requests, ConsumeReads(r) PROVE TypeOK'
  BY <1>10, <1>a, AnsweredTyped, SMTT(30) DEF ConsumeReads, engineVars, RequestsPlaced, RequestPlaced, Answers, Outcomes
<1>11. ASSUME NEW r \in Requests, ConsumeDeletes(r) PROVE TypeOK'
  BY <1>11, <1>a, AnsweredTyped, SMTT(30) DEF ConsumeDeletes, engineVars, RequestsPlaced, RequestPlaced, Answers, Outcomes
<1>12. ASSUME NEW r \in Requests, ConsumeCannotDelete(r) PROVE TypeOK'
  BY <1>12, <1>a, AnsweredTyped DEF ConsumeCannotDelete, engineVars, RequestsPlaced, RequestPlaced, Answers, Outcomes
<1>13. ASSUME NEW r \in Requests, RunApprovedCall(r) PROVE TypeOK'
  BY <1>13, <1>a DEF RunApprovedCall, engineVars, RequestsPlaced, RequestPlaced
<1>14. ASSUME NEW r \in Requests, RepliesCompleted(r) PROVE TypeOK'
  BY <1>14, <1>a, AnsweredTyped DEF RepliesCompleted, engineVars, RequestsPlaced, RequestPlaced, Answers, Outcomes
<1>15. ASSUME NEW r \in Requests, RequestDies(r) PROVE TypeOK'
  BY <1>15, <1>a DEF RequestDies, Settles, RequestsPlaced, RequestPlaced, Idle, Outcomes
<1>16. ASSUME NEW a \in Approvals, TtlPasses(a) PROVE TypeOK'
  BY <1>16, <1>a DEF TtlPasses, engineVars
<1>17. ASSUME NEW a \in Approvals, SandboxEnds(a) PROVE TypeOK'
  BY <1>17, <1>a DEF SandboxEnds, Settles, Outcomes
<1>18. ASSUME NEW a \in Approvals, EvictsOutcome(a) PROVE TypeOK'
  BY <1>18, <1>a DEF EvictsOutcome
<1>19. CASE Rebuild
  BY <1>19, <1>a DEF Rebuild, Idle
<1>20. CASE UNCHANGED vars
  BY <1>20, <1>a DEF vars, engineVars
<1> QED
  BY <1>1, <1>2, <1>3, <1>4, <1>5, <1>6, <1>7, <1>8, <1>9, <1>10, <1>11, <1>12,
     <1>13, <1>14, <1>15, <1>16, <1>17, <1>18, <1>19, <1>20
  DEF Next

\* Request r ends; what it leaves behind concerns its own approval.
LEMMA LeavingPlaced ==
  ASSUME Placed, NEW r \in Requests, NEW a \in Approvals, a = request[r].approval,
         request' = [request EXCEPT ![r] = Idle],
         UNCHANGED <<host, call, forgotten>>,
         \A b \in Approvals \ {a} :
           /\ engine'[b] = engine[b] /\ outcome'[b] = outcome[b] /\ told'[b] = told[b]
           /\ b \in record' => b \in record,
         \A q \in Requests \ {r} : request[q].approval = a => RequestPlaced(q)'
  PROVE  RequestsPlaced'
<1>1. \A q \in Requests : request'[q] = IF q = r THEN Idle ELSE request[q]
  BY DEF Placed, TypeOK
<1>2. ASSUME NEW q \in Requests PROVE RequestPlaced(q)'
  <2>1. CASE q = r
    BY <1>1, <2>1 DEF RequestPlaced, Idle
  <2>2. CASE q # r /\ request[q].at = "idle"
    BY <1>1, <2>2 DEF RequestPlaced, Placed, RequestsPlaced, Idle
  <2>3. CASE q # r /\ request[q].at # "idle" /\ request[q].approval # a
    <3>1. request'[q] = request[q] /\ RequestPlaced(q) /\ request[q].approval \in Approvals \ {a}
      BY <1>1, <2>3 DEF Placed, RequestsPlaced, RequestPlaced
    <3> QED
      BY <3>1 DEF RequestPlaced
  <2> QED  BY <2>1, <2>2, <2>3
<1>3. ASSUME NEW q \in Requests, NEW s \in Requests, q # s PROVE Exclusive(q, s)'
  <2>1. Exclusive(q, s)
    BY <1>3 DEF Placed, RequestsPlaced
  <2>2. q # r /\ s # r => Exclusive(q, s)'
    BY <1>1, <2>1 DEF Exclusive
  <2>3. q = r => Exclusive(q, s)'
    BY <1>1 DEF Exclusive, Idle
  <2>4. CASE s = r /\ q # r
    <3>1. CASE request[q].at # "recording"
      BY <1>1, <2>4, <3>1 DEF Exclusive, Idle
    <3>2. CASE request[q].at = "recording"
      <4>1. request[q].approval \in Approvals
        BY <3>2 DEF Placed, RequestsPlaced, RequestPlaced
      <4> QED
        BY <1>1, <2>4, <3>2, <4>1, HostsAssumption DEF Exclusive, Idle
    <3> QED  BY <3>1, <3>2
  <2> QED  BY <2>2, <2>3, <2>4
<1> QED  BY <1>2, <1>3 DEF RequestsPlaced

\* Request r goes on about its approval, at a stage that excludes nobody.
LEMMA GoingPlaced ==
  ASSUME Placed, NEW r \in Requests, request'[r].approval = request[r].approval,
         request'[r].at \notin {"recording", "resuming"},
         request[r].approval \in Approvals,
         \A q \in Requests \ {r} : request'[q] = request[q],
         UNCHANGED <<host, engine, call, outcome, told, forgotten>>, record' \subseteq record,
         RequestPlaced(r)'
  PROVE  RequestsPlaced'
<1>1. ASSUME NEW q \in Requests \ {r} PROVE RequestPlaced(q)'
  <2>1. RequestPlaced(q) /\ request'[q] = request[q]
    BY DEF Placed, RequestsPlaced
  <2> QED
    BY <2>1 DEF RequestPlaced
<1>2. ASSUME NEW q \in Requests, NEW s \in Requests, q # s PROVE Exclusive(q, s)'
  BY <1>2 DEF Placed, RequestsPlaced, Exclusive
<1> QED  BY <1>1, <1>2 DEF RequestsPlaced

\* No request is about request r's approval while r records it.
LEMMA AloneWhileRecording ==
  ASSUME Placed, NEW r \in Requests, NEW q \in Requests \ {r},
         request[q].approval = request[r].approval
  PROVE  request[r].at # "recording" /\ request[q].at # "recording"
BY DEF Placed, RequestsPlaced, Exclusive

LEMMA RequestsPlacedKept == Placed /\ [Next]_vars => RequestsPlaced'
<1> SUFFICES ASSUME Placed, [Next]_vars PROVE RequestsPlaced'
  OBVIOUS
<1> USE DEF Placed, TypeOK, PausesPlaced
<1>1. ASSUME NEW r \in Requests, NEW a \in Approvals, ExecutePauses(r, a) PROVE RequestsPlaced'
  <2>1. \A q \in Requests : RequestPlaced(q) /\ request[q].approval # a
    BY <1>1, HostsAssumption DEF ExecutePauses, RequestsPlaced, RequestPlaced, Idle
  <2>2. request'[r].approval = a /\ \A q \in Requests \ {r} : request'[q] = request[q]
    BY <1>1 DEF ExecutePauses, Starts
  <2>3. RequestPlaced(r)'
    BY <1>1 DEF ExecutePauses, Starts, RequestPlaced
  <2>4. ASSUME NEW q \in Requests \ {r} PROVE RequestPlaced(q)'
    BY <1>1, <2>1, <2>2 DEF ExecutePauses, RequestPlaced
  <2>5. \A q, s \in Requests : q # s => Exclusive(q, s)'
    BY <2>1, <2>2 DEF RequestsPlaced, Exclusive
  <2> QED
    BY <2>3, <2>4, <2>5 DEF RequestsPlaced
<1>2. ASSUME NEW r \in Requests, RecordPendingApproval(r) PROVE RequestsPlaced'
  <2> DEFINE a == request[r].approval
  <2>1. a \in Approvals
    BY <1>2 DEF RecordPendingApproval, RequestsPlaced, RequestPlaced
  <2>2. ASSUME NEW q \in Requests \ {r}, request[q].approval = a PROVE RequestPlaced(q)'
    <3>1. FALSE
      BY <1>2, <2>2, AloneWhileRecording DEF RecordPendingApproval, Answered, RequestsPlaced
    <3> QED
      BY <3>1
  <2>3. /\ request' = [request EXCEPT ![r] = Idle]
        /\ UNCHANGED <<host, call, forgotten>>
        /\ \A b \in Approvals \ {a} :
             /\ engine'[b] = engine[b] /\ outcome'[b] = outcome[b] /\ told'[b] = told[b]
             /\ b \in record' => b \in record
    BY <1>2, <2>1 DEF RecordPendingApproval, Answered
  <2> HIDE DEF a, Placed, TypeOK, PausesPlaced
  <2> QED
    BY <2>1, <2>2, <2>3, LeavingPlaced DEF a
<1>3. ASSUME NEW r \in Requests, NEW a \in Approvals, NEW action \in Actions,
             ResumeLive(r, a, action)
      PROVE  RequestsPlaced'
  BY <1>3 DEF ResumeLive, Resumes, Starts, RequestsPlaced, RequestPlaced, Exclusive, Answered, Idle
<1>4. ASSUME NEW a \in Approvals, CallRuns(a) PROVE RequestsPlaced'
  BY <1>4 DEF CallRuns, RequestsPlaced, RequestPlaced, Exclusive, Answered, Idle
<1>5. ASSUME NEW r \in Requests, ResumeReturns(r) PROVE RequestsPlaced'
  <2> DEFINE a == request[r].approval
  <2>1. a \in Approvals
    BY <1>5 DEF ResumeReturns, RequestsPlaced, RequestPlaced
  <2>2. ASSUME NEW q \in Requests \ {r}, request[q].approval = a PROVE RequestPlaced(q)'
    <3>1. RequestPlaced(q) /\ request'[q] = request[q] /\ request[q].at \notin {"recording", "resuming"}
      BY <1>5, <2>2, AloneWhileRecording DEF ResumeReturns, Answered, Settles, RequestsPlaced, Exclusive
    <3>2. CASE request[r].at = "resuming"
      <4>1. request[q].at \in {"idle", "joining"}
        BY <2>2, <3>1, <3>2 DEF RequestsPlaced, RequestPlaced, Stages
      <4>2. /\ engine'[a] = "settled" /\ outcome'[a] # "none" /\ UNCHANGED host
            /\ host = "perRequest" => request[q].at # "joining"
        BY <1>5, <2>1, <3>1, <3>2 DEF ResumeReturns, Answered, Settles, RequestPlaced
      <4> QED
        BY <2>1, <2>2, <3>1, <4>1, <4>2 DEF RequestPlaced
    <3>3. CASE request[r].at # "resuming"
      BY <1>5, <2>1, <2>2, <3>1, <3>3 DEF ResumeReturns, Answered, Settles, RequestPlaced
    <3> QED
      BY <3>2, <3>3
  <2>3. /\ request' = [request EXCEPT ![r] = Idle]
        /\ UNCHANGED <<host, call, forgotten>>
        /\ \A b \in Approvals \ {a} :
             /\ engine'[b] = engine[b] /\ outcome'[b] = outcome[b] /\ told'[b] = told[b]
             /\ b \in record' => b \in record
    BY <1>5, <2>1 DEF ResumeReturns, Answered, Settles
  <2> HIDE DEF a, Placed, TypeOK, PausesPlaced
  <2> QED
    BY <2>1, <2>2, <2>3, LeavingPlaced DEF a
<1>6. ASSUME NEW r \in Requests, NEW a \in Approvals, NEW action \in Actions,
             ResumeJoins(r, a, action)
      PROVE  RequestsPlaced'
  BY <1>6 DEF ResumeJoins, Resumes, Starts, engineVars, RequestsPlaced, RequestPlaced, Exclusive, Answered, Idle
<1>7. ASSUME NEW r \in Requests, JoinedResumeReturns(r) PROVE RequestsPlaced'
  <2> DEFINE a == request[r].approval
  <2>1. a \in Approvals
    BY <1>7 DEF JoinedResumeReturns, RequestsPlaced, RequestPlaced
  <2>2. ASSUME NEW q \in Requests \ {r}, request[q].approval = a PROVE RequestPlaced(q)'
    <3>1. RequestPlaced(q) /\ request'[q] = request[q] /\ request[q].at # "recording"
      BY <1>7, <2>2, AloneWhileRecording DEF JoinedResumeReturns, Answered, engineVars, RequestsPlaced
    <3> QED
      BY <1>7, <2>1, <2>2, <3>1 DEF JoinedResumeReturns, Answered, engineVars, RequestPlaced
  <2>3. /\ request' = [request EXCEPT ![r] = Idle]
        /\ UNCHANGED <<host, call, forgotten>>
        /\ \A b \in Approvals \ {a} :
             /\ engine'[b] = engine[b] /\ outcome'[b] = outcome[b] /\ told'[b] = told[b]
             /\ b \in record' => b \in record
    BY <1>7, <2>1 DEF JoinedResumeReturns, Answered, engineVars
  <2> HIDE DEF a, Placed, TypeOK, PausesPlaced
  <2> QED
    BY <2>1, <2>2, <2>3, LeavingPlaced DEF a
<1>8. ASSUME NEW r \in Requests, NEW a \in Approvals, ResumeReplays(r, a) PROVE RequestsPlaced'
  BY <1>8 DEF ResumeReplays, Resumes, engineVars, RequestsPlaced, RequestPlaced, Exclusive, Answered, Idle
<1>9. ASSUME NEW r \in Requests, NEW a \in Approvals, NEW action \in Actions,
             ResumeElsewhere(r, a, action)
      PROVE  RequestsPlaced'
  BY <1>9 DEF ResumeElsewhere, Resumes, Starts, engineVars, RequestsPlaced, RequestPlaced, Exclusive, Answered, Idle
<1>10. ASSUME NEW r \in Requests, ConsumeReads(r) PROVE RequestsPlaced'
  <2> DEFINE a == request[r].approval
  <2>1. a \in Approvals /\ RequestPlaced(r) /\ engine[a] = "gone"
    BY <1>10 DEF ConsumeReads, RequestsPlaced, RequestPlaced
  <2>2. CASE \E x : Answered(r, a, x)
    <3>1. ASSUME NEW q \in Requests \ {r}, request[q].approval = a PROVE RequestPlaced(q)'
      <4>1. RequestPlaced(q) /\ request'[q] = request[q] /\ request[q].at # "recording"
        BY <1>10, <2>2, <3>1, AloneWhileRecording DEF Answered, RequestsPlaced
      <4> QED
        BY <1>10, <2>1, <3>1, <4>1 DEF ConsumeReads, engineVars, RequestPlaced
    <3>2. /\ request' = [request EXCEPT ![r] = Idle]
          /\ UNCHANGED <<host, call, forgotten>>
          /\ \A b \in Approvals \ {a} :
               /\ engine'[b] = engine[b] /\ outcome'[b] = outcome[b] /\ told'[b] = told[b]
               /\ b \in record' => b \in record
      BY <1>10, <2>1, <2>2 DEF ConsumeReads, Answered, engineVars
    <3> HIDE DEF a, Placed, TypeOK, PausesPlaced
    <3> QED
      BY <2>1, <3>1, <3>2, LeavingPlaced DEF a
  <2>3. CASE Goes(r, "deleting") /\ UNCHANGED told
    <3>1. request'[r] = [request[r] EXCEPT !.at = "deleting"]
      BY <2>3 DEF Goes
    <3>2. RequestPlaced(r)'
      BY <1>10, <2>1, <2>3, <3>1 DEF ConsumeReads, engineVars, RequestPlaced
    <3> QED
      BY <1>10, <2>1, <2>3, <3>1, <3>2, GoingPlaced DEF ConsumeReads, Goes, engineVars
  <2> QED
    BY <1>10, <2>2, <2>3 DEF ConsumeReads
<1>11. ASSUME NEW r \in Requests, ConsumeDeletes(r) PROVE RequestsPlaced'
  <2> DEFINE a == request[r].approval
  <2>1. a \in Approvals /\ RequestPlaced(r) /\ engine[a] = "gone"
    BY <1>11 DEF ConsumeDeletes, RequestsPlaced, RequestPlaced
  <2>2. CASE \E x : Answered(r, a, x)
    <3>1. ASSUME NEW q \in Requests \ {r}, request[q].approval = a PROVE RequestPlaced(q)'
      <4>1. RequestPlaced(q) /\ request'[q] = request[q] /\ request[q].at # "recording"
        BY <1>11, <2>2, <3>1, AloneWhileRecording DEF Answered, RequestsPlaced
      <4> QED
        BY <1>11, <2>1, <3>1, <4>1 DEF ConsumeDeletes, engineVars, RequestPlaced
    <3>2. /\ request' = [request EXCEPT ![r] = Idle]
          /\ UNCHANGED <<host, call, forgotten>>
          /\ \A b \in Approvals \ {a} :
               /\ engine'[b] = engine[b] /\ outcome'[b] = outcome[b] /\ told'[b] = told[b]
               /\ b \in record' => b \in record
      BY <1>11, <2>1, <2>2 DEF ConsumeDeletes, Answered, engineVars
    <3> HIDE DEF a, Placed, TypeOK, PausesPlaced
    <3> QED
      BY <2>1, <3>1, <3>2, LeavingPlaced DEF a
  <2>3. CASE Goes(r, "running") /\ UNCHANGED told
    <3>1. request'[r] = [request[r] EXCEPT !.at = "running"]
      BY <2>3 DEF Goes
    <3>2. RequestPlaced(r)'
      BY <1>11, <2>1, <2>3, <3>1 DEF ConsumeDeletes, engineVars, RequestPlaced
    <3> QED
      BY <1>11, <2>1, <2>3, <3>1, <3>2, GoingPlaced DEF ConsumeDeletes, Goes, engineVars
  <2> QED
    BY <1>11, <2>2, <2>3 DEF ConsumeDeletes
<1>12. ASSUME NEW r \in Requests, ConsumeCannotDelete(r) PROVE RequestsPlaced'
  <2> DEFINE a == request[r].approval
  <2>1. a \in Approvals
    BY <1>12 DEF ConsumeCannotDelete, RequestsPlaced, RequestPlaced
  <2>2. ASSUME NEW q \in Requests \ {r}, request[q].approval = a PROVE RequestPlaced(q)'
    <3>1. RequestPlaced(q) /\ request'[q] = request[q] /\ request[q].at # "recording"
      BY <1>12, <2>2, AloneWhileRecording DEF ConsumeCannotDelete, Answered, engineVars, RequestsPlaced
    <3> QED
      BY <1>12, <2>1, <2>2, <3>1 DEF ConsumeCannotDelete, Answered, engineVars, RequestPlaced
  <2>3. /\ request' = [request EXCEPT ![r] = Idle]
        /\ UNCHANGED <<host, call, forgotten>>
        /\ \A b \in Approvals \ {a} :
             /\ engine'[b] = engine[b] /\ outcome'[b] = outcome[b] /\ told'[b] = told[b]
             /\ b \in record' => b \in record
    BY <1>12, <2>1 DEF ConsumeCannotDelete, Answered, engineVars
  <2> HIDE DEF a, Placed, TypeOK, PausesPlaced
  <2> QED
    BY <2>1, <2>2, <2>3, LeavingPlaced DEF a
<1>13. ASSUME NEW r \in Requests, RunApprovedCall(r) PROVE RequestsPlaced'
  <2>1. request'[r] = [request[r] EXCEPT !.at = "replying"] /\ RequestPlaced(r)
    BY <1>13 DEF RunApprovedCall, Goes, RequestsPlaced
  <2>2. RequestPlaced(r)'
    BY <1>13, <2>1 DEF RunApprovedCall, engineVars, RequestPlaced
  <2> QED
    BY <1>13, <2>1, <2>2, GoingPlaced DEF RunApprovedCall, Goes, engineVars, RequestPlaced
<1>14. ASSUME NEW r \in Requests, RepliesCompleted(r) PROVE RequestsPlaced'
  <2> DEFINE a == request[r].approval
  <2>1. a \in Approvals
    BY <1>14 DEF RepliesCompleted, RequestsPlaced, RequestPlaced
  <2>2. ASSUME NEW q \in Requests \ {r}, request[q].approval = a PROVE RequestPlaced(q)'
    <3>1. RequestPlaced(q) /\ request'[q] = request[q] /\ request[q].at # "recording"
      BY <1>14, <2>2, AloneWhileRecording DEF RepliesCompleted, Answered, engineVars, RequestsPlaced
    <3> QED
      BY <1>14, <2>1, <2>2, <3>1 DEF RepliesCompleted, Answered, engineVars, RequestPlaced
  <2>3. /\ request' = [request EXCEPT ![r] = Idle]
        /\ UNCHANGED <<host, call, forgotten>>
        /\ \A b \in Approvals \ {a} :
             /\ engine'[b] = engine[b] /\ outcome'[b] = outcome[b] /\ told'[b] = told[b]
             /\ b \in record' => b \in record
    BY <1>14, <2>1 DEF RepliesCompleted, Answered, engineVars
  <2> HIDE DEF a, Placed, TypeOK, PausesPlaced
  <2> QED
    BY <2>1, <2>2, <2>3, LeavingPlaced DEF a
<1>15. ASSUME NEW r \in Requests, RequestDies(r) PROVE RequestsPlaced'
  <2> DEFINE a == request[r].approval
  <2>1. a \in Approvals
    BY <1>15 DEF RequestDies, RequestsPlaced, RequestPlaced
  <2>2. ASSUME NEW q \in Requests \ {r}, request[q].approval = a PROVE RequestPlaced(q)'
    <3>1. RequestPlaced(q) /\ request'[q] = request[q] /\ request[q].at # "recording"
          /\ (request[r].at = "resuming" => request[q].at # "resuming")
      BY <1>15, <2>2, AloneWhileRecording DEF RequestDies, Settles, RequestsPlaced, Exclusive
    <3>2. CASE request[r].at = "resuming"
      <4>1. request[q].at \in {"idle", "joining"}
        BY <2>2, <3>1, <3>2 DEF RequestsPlaced, RequestPlaced, Stages
      <4>2. /\ engine'[a] = "settled" /\ outcome'[a] # "none" /\ UNCHANGED host
            /\ host = "perRequest" => request[q].at # "joining"
        BY <1>15, <2>1, <3>1, <3>2 DEF RequestDies, Settles, RequestPlaced
      <4> QED
        BY <2>1, <2>2, <3>1, <4>1, <4>2 DEF RequestPlaced
    <3>3. CASE request[r].at # "resuming"
      BY <1>15, <2>1, <2>2, <3>1, <3>3 DEF RequestDies, Settles, RequestPlaced
    <3> QED
      BY <3>2, <3>3
  <2>3. /\ request' = [request EXCEPT ![r] = Idle]
        /\ UNCHANGED <<host, call, forgotten>>
        /\ \A b \in Approvals \ {a} :
             /\ engine'[b] = engine[b] /\ outcome'[b] = outcome[b] /\ told'[b] = told[b]
             /\ b \in record' => b \in record
    BY <1>15, <2>1 DEF RequestDies, Settles
  <2> HIDE DEF a, Placed, TypeOK, PausesPlaced
  <2> QED
    BY <2>1, <2>2, <2>3, LeavingPlaced DEF a
<1>16. ASSUME NEW a \in Approvals, TtlPasses(a) PROVE RequestsPlaced'
  BY <1>16 DEF TtlPasses, engineVars, RequestsPlaced, RequestPlaced, Exclusive, Answered, Idle
<1>17. ASSUME NEW a \in Approvals, SandboxEnds(a) PROVE RequestsPlaced'
  BY <1>17 DEF SandboxEnds, Settles, RequestsPlaced, RequestPlaced, Exclusive, Answered, Idle
<1>18. ASSUME NEW a \in Approvals, EvictsOutcome(a) PROVE RequestsPlaced'
  BY <1>18 DEF EvictsOutcome, RequestsPlaced, RequestPlaced, Exclusive, Answered, Idle
<1>19. CASE Rebuild
  BY <1>19 DEF Rebuild, WasAnswered, RequestsPlaced, RequestPlaced, Exclusive, Idle
<1>20. CASE UNCHANGED vars
  BY <1>20 DEF vars, engineVars, RequestsPlaced, RequestPlaced, Exclusive
<1> QED
  BY <1>1, <1>2, <1>3, <1>4, <1>5, <1>6, <1>7, <1>8, <1>9, <1>10, <1>11, <1>12,
     <1>13, <1>14, <1>15, <1>16, <1>17, <1>18, <1>19, <1>20
  DEF Next

LEMMA PausesPlacedKept == Placed /\ [Next]_vars => PausesPlaced'
<1> SUFFICES ASSUME Placed, [Next]_vars PROVE PausesPlaced'
  OBVIOUS
<1> USE DEF Placed, TypeOK, RequestsPlaced, RequestPlaced, PausesPlaced, Answered, Goes, Idle
<1>1. ASSUME NEW r \in Requests, NEW a \in Approvals, ExecutePauses(r, a) PROVE PausesPlaced'
  BY <1>1 DEF ExecutePauses, Starts
<1>2. ASSUME NEW r \in Requests, RecordPendingApproval(r) PROVE PausesPlaced'
  BY <1>2 DEF RecordPendingApproval
<1>3. ASSUME NEW r \in Requests, NEW a \in Approvals, NEW action \in Actions,
             ResumeLive(r, a, action)
      PROVE  PausesPlaced'
  BY <1>3 DEF ResumeLive, Resumes, Starts
<1>4. ASSUME NEW a \in Approvals, CallRuns(a) PROVE PausesPlaced'
  BY <1>4 DEF CallRuns
<1>5. ASSUME NEW r \in Requests, ResumeReturns(r) PROVE PausesPlaced'
  BY <1>5 DEF ResumeReturns, Settles
<1>6. ASSUME NEW r \in Requests, NEW a \in Approvals, NEW action \in Actions,
             ResumeJoins(r, a, action)
      PROVE  PausesPlaced'
  BY <1>6 DEF ResumeJoins, Resumes, Starts, engineVars
<1>7. ASSUME NEW r \in Requests, JoinedResumeReturns(r) PROVE PausesPlaced'
  BY <1>7 DEF JoinedResumeReturns, engineVars
<1>8. ASSUME NEW r \in Requests, NEW a \in Approvals, ResumeReplays(r, a) PROVE PausesPlaced'
  BY <1>8 DEF ResumeReplays, Resumes, engineVars
<1>9. ASSUME NEW r \in Requests, NEW a \in Approvals, NEW action \in Actions,
             ResumeElsewhere(r, a, action)
      PROVE  PausesPlaced'
  BY <1>9 DEF ResumeElsewhere, Resumes, Starts, engineVars
<1>10. ASSUME NEW r \in Requests, ConsumeReads(r) PROVE PausesPlaced'
  BY <1>10 DEF ConsumeReads, engineVars
<1>11. ASSUME NEW r \in Requests, ConsumeDeletes(r) PROVE PausesPlaced'
  BY <1>11 DEF ConsumeDeletes, engineVars
<1>12. ASSUME NEW r \in Requests, ConsumeCannotDelete(r) PROVE PausesPlaced'
  BY <1>12 DEF ConsumeCannotDelete, engineVars
<1>13. ASSUME NEW r \in Requests, RunApprovedCall(r) PROVE PausesPlaced'
  BY <1>13 DEF RunApprovedCall, engineVars
<1>14. ASSUME NEW r \in Requests, RepliesCompleted(r) PROVE PausesPlaced'
  BY <1>14 DEF RepliesCompleted, engineVars
<1>15. ASSUME NEW r \in Requests, RequestDies(r) PROVE PausesPlaced'
  BY <1>15 DEF RequestDies, Settles
<1>16. ASSUME NEW a \in Approvals, TtlPasses(a) PROVE PausesPlaced'
  BY <1>16 DEF TtlPasses, engineVars
<1>17. ASSUME NEW a \in Approvals, SandboxEnds(a) PROVE PausesPlaced'
  BY <1>17 DEF SandboxEnds, Settles
<1>18. ASSUME NEW a \in Approvals, EvictsOutcome(a) PROVE PausesPlaced'
  BY <1>18 DEF EvictsOutcome
<1>19. CASE Rebuild
  BY <1>19 DEF Rebuild, WasAnswered
<1>20. CASE UNCHANGED vars
  BY <1>20 DEF vars, engineVars
<1> QED
  BY <1>1, <1>2, <1>3, <1>4, <1>5, <1>6, <1>7, <1>8, <1>9, <1>10, <1>11, <1>12,
     <1>13, <1>14, <1>15, <1>16, <1>17, <1>18, <1>19, <1>20
  DEF Next

LEMMA SequentialKept ==
  ASSUME OverlapOn \subseteq {"shared"}, Placed, Sequential, [Next]_vars
  PROVE  Sequential'
<1> DEFINE Stays(q) == \/ request'[q] \in {Idle, request[q]}
                       \/ request[q] # Idle /\ request'[q].approval = request[q].approval
<1>a. ASSUME UNCHANGED host, \A q \in Requests : Stays(q) PROVE Sequential'
  <2> SUFFICES ASSUME host # "shared", NEW r \in Requests, NEW q \in Requests,
                      request'[r] # Idle, request'[r].approval = request'[q].approval
               PROVE  r = q
    BY <1>a DEF Sequential
  <2>1. request[r] # Idle /\ request'[r].approval = request[r].approval
    BY <1>a
  <2>2. request[r].approval \in Approvals
    BY <2>1 DEF Placed, RequestsPlaced, RequestPlaced
  <2>3. request'[q] # Idle
    <3>1. Idle.approval \notin Approvals
      BY HostsAssumption DEF Idle
    <3> QED  BY <2>1, <2>2, <3>1
  <2>4. request'[q].approval = request[q].approval
    BY <1>a, <2>3
  <2> QED  BY <2>1, <2>4 DEF Sequential
<1>b. ASSUME UNCHANGED host, NEW r \in Requests, NEW a \in Approvals, NEW stage, NEW action,
             Starts(r, stage, a, action),
             host # "shared" => \A q \in Requests : request[q].approval # a
      PROVE  Sequential'
  <2>1. \A q \in Requests : request'[q] = IF q = r THEN [at |-> stage, approval |-> a, action |-> action]
                                          ELSE request[q]
    BY <1>b DEF Starts, Placed, TypeOK
  <2>2. \A q \in Requests : request'[q].approval = IF q = r THEN a ELSE request[q].approval
    BY <2>1
  <2>3. \A q \in Requests \ {r} : request'[q] = request[q]
    BY <2>1
  <2> QED  BY <1>b, <2>2, <2>3 DEF Sequential
<1> USE DEF Placed, TypeOK, Goes, Answered
<1>1. ASSUME NEW r \in Requests, NEW a \in Approvals, ExecutePauses(r, a) PROVE Sequential'
  <2>1. host # "shared" => \A q \in Requests : request[q].approval # a
    BY <1>1, HostsAssumption DEF ExecutePauses, RequestsPlaced, RequestPlaced, Idle
  <2> QED
    BY <1>b, <1>1, <2>1 DEF ExecutePauses
<1>2. ASSUME NEW r \in Requests, RecordPendingApproval(r) PROVE Sequential'
  BY <1>2, <1>a DEF RecordPendingApproval
<1>3. ASSUME NEW r \in Requests, NEW a \in Approvals, NEW action \in Actions,
             ResumeLive(r, a, action)
      PROVE  Sequential'
  <2>1. host # "shared" => \A q \in Requests : request[q].approval # a
    BY <1>3 DEF ResumeLive, Resumes
  <2> QED
    BY <1>b, <1>3, <2>1 DEF ResumeLive
<1>4. ASSUME NEW a \in Approvals, CallRuns(a) PROVE Sequential'
  BY <1>4 DEF CallRuns, Sequential
<1>5. ASSUME NEW r \in Requests, ResumeReturns(r) PROVE Sequential'
  BY <1>5, <1>a DEF ResumeReturns, Settles
<1>6. ASSUME NEW r \in Requests, NEW a \in Approvals, NEW action \in Actions,
             ResumeJoins(r, a, action)
      PROVE  Sequential'
  <2>1. host # "shared" => \A q \in Requests : request[q].approval # a
    BY <1>6 DEF ResumeJoins, Resumes
  <2> QED
    BY <1>b, <1>6, <2>1 DEF ResumeJoins, engineVars
<1>7. ASSUME NEW r \in Requests, JoinedResumeReturns(r) PROVE Sequential'
  BY <1>7, <1>a DEF JoinedResumeReturns, engineVars
<1>8. ASSUME NEW r \in Requests, NEW a \in Approvals, ResumeReplays(r, a) PROVE Sequential'
  BY <1>8, <1>a DEF ResumeReplays, Resumes, engineVars
<1>9. ASSUME NEW r \in Requests, NEW a \in Approvals, NEW action \in Actions,
             ResumeElsewhere(r, a, action)
      PROVE  Sequential'
  <2>1. host # "shared" => \A q \in Requests : request[q].approval # a
    BY <1>9 DEF ResumeElsewhere, Resumes
  <2> QED
    BY <1>b, <1>9, <2>1 DEF ResumeElsewhere, engineVars
<1>10. ASSUME NEW r \in Requests, ConsumeReads(r) PROVE Sequential'
  BY <1>10, <1>a DEF ConsumeReads, Idle
<1>11. ASSUME NEW r \in Requests, ConsumeDeletes(r) PROVE Sequential'
  BY <1>11, <1>a DEF ConsumeDeletes, Idle
<1>12. ASSUME NEW r \in Requests, ConsumeCannotDelete(r) PROVE Sequential'
  BY <1>12, <1>a DEF ConsumeCannotDelete, engineVars
<1>13. ASSUME NEW r \in Requests, RunApprovedCall(r) PROVE Sequential'
  BY <1>13, <1>a DEF RunApprovedCall, Idle
<1>14. ASSUME NEW r \in Requests, RepliesCompleted(r) PROVE Sequential'
  BY <1>14, <1>a DEF RepliesCompleted, engineVars
<1>15. ASSUME NEW r \in Requests, RequestDies(r) PROVE Sequential'
  BY <1>15, <1>a DEF RequestDies, Settles
<1>16. ASSUME NEW a \in Approvals, TtlPasses(a) PROVE Sequential'
  BY <1>16 DEF TtlPasses, engineVars, Sequential
<1>17. ASSUME NEW a \in Approvals, SandboxEnds(a) PROVE Sequential'
  BY <1>17 DEF SandboxEnds, Settles, Sequential
<1>18. ASSUME NEW a \in Approvals, EvictsOutcome(a) PROVE Sequential'
  BY <1>18 DEF EvictsOutcome, Sequential
<1>19. CASE Rebuild
  BY <1>19, <1>a DEF Rebuild, WasAnswered
<1>20. CASE UNCHANGED vars
  BY <1>20 DEF vars, engineVars, Sequential
<1> QED
  BY <1>1, <1>2, <1>3, <1>4, <1>5, <1>6, <1>7, <1>8, <1>9, <1>10, <1>11, <1>12,
     <1>13, <1>14, <1>15, <1>16, <1>17, <1>18, <1>19, <1>20
  DEF Next

LEMMA ReadIsThereKept ==
  ASSUME Placed, Sequential, ReadIsThere, [Next]_vars
  PROVE  ReadIsThere'
<1> USE DEF Placed, TypeOK, RequestsPlaced, RequestPlaced, Sequential, ReadIsThere, Answered, Goes, Idle
<1>1. ASSUME NEW r \in Requests, NEW a \in Approvals, ExecutePauses(r, a) PROVE ReadIsThere'
  BY <1>1 DEF ExecutePauses, Starts
<1>2. ASSUME NEW r \in Requests, RecordPendingApproval(r) PROVE ReadIsThere'
  BY <1>2 DEF RecordPendingApproval
<1>3. ASSUME NEW r \in Requests, NEW a \in Approvals, NEW action \in Actions,
             ResumeLive(r, a, action)
      PROVE  ReadIsThere'
  BY <1>3 DEF ResumeLive, Resumes, Starts
<1>4. ASSUME NEW a \in Approvals, CallRuns(a) PROVE ReadIsThere'
  BY <1>4 DEF CallRuns
<1>5. ASSUME NEW r \in Requests, ResumeReturns(r) PROVE ReadIsThere'
  BY <1>5 DEF ResumeReturns, Settles
<1>6. ASSUME NEW r \in Requests, NEW a \in Approvals, NEW action \in Actions,
             ResumeJoins(r, a, action)
      PROVE  ReadIsThere'
  BY <1>6 DEF ResumeJoins, Resumes, Starts, engineVars
<1>7. ASSUME NEW r \in Requests, JoinedResumeReturns(r) PROVE ReadIsThere'
  BY <1>7 DEF JoinedResumeReturns, engineVars
<1>8. ASSUME NEW r \in Requests, NEW a \in Approvals, ResumeReplays(r, a) PROVE ReadIsThere'
  BY <1>8 DEF ResumeReplays, Resumes, engineVars
<1>9. ASSUME NEW r \in Requests, NEW a \in Approvals, NEW action \in Actions,
             ResumeElsewhere(r, a, action)
      PROVE  ReadIsThere'
  BY <1>9 DEF ResumeElsewhere, Resumes, Starts, engineVars
<1>10. ASSUME NEW r \in Requests, ConsumeReads(r) PROVE ReadIsThere'
  BY <1>10 DEF ConsumeReads, engineVars
<1>11. ASSUME NEW r \in Requests, ConsumeDeletes(r) PROVE ReadIsThere'
  BY <1>11 DEF ConsumeDeletes, engineVars
<1>12. ASSUME NEW r \in Requests, ConsumeCannotDelete(r) PROVE ReadIsThere'
  BY <1>12 DEF ConsumeCannotDelete, engineVars
<1>13. ASSUME NEW r \in Requests, RunApprovedCall(r) PROVE ReadIsThere'
  BY <1>13 DEF RunApprovedCall, engineVars
<1>14. ASSUME NEW r \in Requests, RepliesCompleted(r) PROVE ReadIsThere'
  BY <1>14 DEF RepliesCompleted, engineVars
<1>15. ASSUME NEW r \in Requests, RequestDies(r) PROVE ReadIsThere'
  BY <1>15 DEF RequestDies, Settles
<1>16. ASSUME NEW a \in Approvals, TtlPasses(a) PROVE ReadIsThere'
  BY <1>16 DEF TtlPasses, engineVars
<1>17. ASSUME NEW a \in Approvals, SandboxEnds(a) PROVE ReadIsThere'
  BY <1>17 DEF SandboxEnds, Settles
<1>18. ASSUME NEW a \in Approvals, EvictsOutcome(a) PROVE ReadIsThere'
  BY <1>18 DEF EvictsOutcome
<1>19. CASE Rebuild
  BY <1>19 DEF Rebuild, WasAnswered
<1>20. CASE UNCHANGED vars
  BY <1>20 DEF vars, engineVars
<1> QED
  BY <1>1, <1>2, <1>3, <1>4, <1>5, <1>6, <1>7, <1>8, <1>9, <1>10, <1>11, <1>12,
     <1>13, <1>14, <1>15, <1>16, <1>17, <1>18, <1>19, <1>20
  DEF Next

LEMMA SpentKept ==
  ASSUME Sound, [Next]_vars
  PROVE  Spent'
<1> USE DEF Sound, Placed, TypeOK, RequestsPlaced, RequestPlaced, PausesPlaced, Sequential,
            ReadIsThere, Spent, Spendable, About, RunningFor, Declined, Answered, Goes, Idle
<1>1. ASSUME NEW r \in Requests, NEW a \in Approvals, ExecutePauses(r, a) PROVE Spent'
  BY <1>1 DEF ExecutePauses, Starts
<1>2. ASSUME NEW r \in Requests, RecordPendingApproval(r) PROVE Spent'
  BY <1>2 DEF RecordPendingApproval
<1>3. ASSUME NEW r \in Requests, NEW a \in Approvals, NEW action \in Actions,
             ResumeLive(r, a, action)
      PROVE  Spent'
  BY <1>3 DEF ResumeLive, Resumes, Starts
<1>4. ASSUME NEW a \in Approvals, CallRuns(a) PROVE Spent'
  BY <1>4 DEF CallRuns
<1>5. ASSUME NEW r \in Requests, ResumeReturns(r) PROVE Spent'
  BY <1>5 DEF ResumeReturns, Settles
<1>6. ASSUME NEW r \in Requests, NEW a \in Approvals, NEW action \in Actions,
             ResumeJoins(r, a, action)
      PROVE  Spent'
  BY <1>6 DEF ResumeJoins, Resumes, Starts, engineVars
<1>7. ASSUME NEW r \in Requests, JoinedResumeReturns(r) PROVE Spent'
  BY <1>7 DEF JoinedResumeReturns, engineVars
<1>8. ASSUME NEW r \in Requests, NEW a \in Approvals, ResumeReplays(r, a) PROVE Spent'
  BY <1>8 DEF ResumeReplays, Resumes, engineVars
<1>9. ASSUME NEW r \in Requests, NEW a \in Approvals, NEW action \in Actions,
             ResumeElsewhere(r, a, action)
      PROVE  Spent'
  BY <1>9 DEF ResumeElsewhere, Resumes, Starts, engineVars
<1>10. ASSUME NEW r \in Requests, ConsumeReads(r) PROVE Spent'
  BY <1>10 DEF ConsumeReads, engineVars
<1>11. ASSUME NEW r \in Requests, ConsumeDeletes(r) PROVE Spent'
  BY <1>11 DEF ConsumeDeletes, engineVars
<1>12. ASSUME NEW r \in Requests, ConsumeCannotDelete(r) PROVE Spent'
  BY <1>12 DEF ConsumeCannotDelete, engineVars
<1>13. ASSUME NEW r \in Requests, RunApprovedCall(r) PROVE Spent'
  BY <1>13 DEF RunApprovedCall, engineVars
<1>14. ASSUME NEW r \in Requests, RepliesCompleted(r) PROVE Spent'
  BY <1>14 DEF RepliesCompleted, engineVars
<1>15. ASSUME NEW r \in Requests, RequestDies(r) PROVE Spent'
  BY <1>15 DEF RequestDies, Settles
<1>16. ASSUME NEW a \in Approvals, TtlPasses(a) PROVE Spent'
  BY <1>16 DEF TtlPasses, engineVars
<1>17. ASSUME NEW a \in Approvals, SandboxEnds(a) PROVE Spent'
  BY <1>17 DEF SandboxEnds, Settles
<1>18. ASSUME NEW a \in Approvals, EvictsOutcome(a) PROVE Spent'
  BY <1>18 DEF EvictsOutcome
<1>19. CASE Rebuild
  BY <1>19 DEF Rebuild, WasAnswered
<1>20. CASE UNCHANGED vars
  BY <1>20 DEF vars, engineVars
<1> QED
  BY <1>1, <1>2, <1>3, <1>4, <1>5, <1>6, <1>7, <1>8, <1>9, <1>10, <1>11, <1>12,
     <1>13, <1>14, <1>15, <1>16, <1>17, <1>18, <1>19, <1>20
  DEF Next

LEMMA PlacedAlways == Spec => []Placed
<1>1. Init => Placed
  BY SoundInit DEF Sound
<1>2. Placed /\ [Next]_vars => Placed'
  BY TypeKept, RequestsPlacedKept, PausesPlacedKept DEF Placed
<1> QED  BY <1>1, <1>2, PTL DEF Spec

LEMMA SoundAlways ==
  ASSUME OverlapOn \subseteq {"shared"}
  PROVE  Spec => []Sound
<1>1. Sound /\ [Next]_vars => Sound'
  BY TypeKept, RequestsPlacedKept, PausesPlacedKept, SequentialKept, ReadIsThereKept, SpentKept
  DEF Sound, Placed
<1> QED  BY <1>1, SoundInit, PTL DEF Spec

---------------------------------------------------------------------------
(* The theorems. *)

(* Type correctness: a record, and an expiry, is that of a call that       *)
(* paused, whatever storage and requests do (TypeOK).                      *)
THEOREM ApprovalTypes == Spec => []TypeOK
<1>1. Placed => TypeOK
  BY DEF Placed
<1> QED  BY <1>1, PlacedAlways, PTL

(* Where answers to one approval do not overlap unless one engine serves   *)
(* them all, an approved call runs at most once, through the live pause or *)
(* through its record, while the engine remembers the approval: its        *)
(* outcome was not evicted, and no engine that delivered an answer to it   *)
(* was replaced (OneRunUnlessForgotten; consume and the resume handler).   *)
THEOREM OneRun ==
  ASSUME OverlapOn \subseteq {"shared"}
  PROVE  Spec => []OneRunUnlessForgotten
<1>1. Sound => OneRunUnlessForgotten
  BY DEF Sound, Spent, OneRunUnlessForgotten
<1> QED  BY <1>1, SoundAlways, PTL

(* Under the same condition a call whose approval was reported declined    *)
(* never runs (DeclinedNeverRuns; executions.ts 130-131).                  *)
THEOREM DeclinedStaysDeclined ==
  ASSUME OverlapOn \subseteq {"shared"}
  PROVE  Spec => []DeclinedNeverRuns
<1>1. Sound => DeclinedNeverRuns
  BY DEF Sound, Spent, Declined, DeclinedNeverRuns
<1> QED  BY <1>1, SoundAlways, PTL
===============================================================================

------------------------ MODULE ApprovalLeaseProofs -------------------------
(* Theorems about ApprovalLease, for every set of executions, calls and       *)
(* starts of leases, and all clocks that its assumption allows.               *)
EXTENDS ApprovalLease, TLAPS

Engines == {"running", "paused", "resuming", "settled", "detached", "lost"}
StartStates ==
  {IdleStart} \cup
  [at : {"acquiring"}, exec : Executions, timer : {NoTimer}] \cup
  [at : {"held"}, exec : Executions, timer : 0 .. ApprovalTimeout \cup {NoTimer}]
CallStates ==
  {IdleCall} \cup
  [at : {"waiting", "stranded", "resuming", "forwarded"}, exec : Executions, known : BOOLEAN]

(* An entry of the leases names a start that was made for it. *)
Entries ==
  \A x \in Executions : lease[x] # NoLease =>
    start[lease[x]].at = "held" /\ start[lease[x]].exec = x

LeaseTypes ==
  /\ lease \in [Executions -> Starts \cup {NoLease}]
  /\ expiring \in [Executions -> BOOLEAN]
  /\ start \in [Starts -> StartStates]
  /\ Entries

EngineTypes ==
  /\ engine \in [Executions -> Engines]
  /\ given \in [Executions -> Answers \cup {NoAnswer}]

OtherTypes ==
  /\ reported \subseteq Executions
  /\ runtime \in {"live", "closing", "down"}
  /\ idle \in 0 .. Horizon
  /\ failed \subseteq Executions
  /\ expiry \subseteq Executions
  /\ memory \in [Executions -> Answers \cup {NoAnswer}]
  /\ stored \in [Executions -> Answers \cup {NoAnswer}]
  /\ recorded \subseteq Executions
  /\ call \in [Calls -> CallStates]

LEMMA TypeParts == TypeOK <=> LeaseTypes /\ EngineTypes /\ OtherTypes
BY Zenon DEF TypeOK, LeaseTypes, EngineTypes, OtherTypes, Entries, Engines, StartStates, CallStates

LEMMA TypePartsNext == TypeOK' <=> LeaseTypes' /\ EngineTypes' /\ OtherTypes'
BY Zenon DEF TypeOK, LeaseTypes, EngineTypes, OtherTypes, Entries, Engines, StartStates, CallStates

LEMMA TypeInit == Init => TypeOK
BY ClockAssumption, NamesAssumption
DEF Init, TypeOK, IdleStart, IdleCall, Answers

---------------------------------------------------------------------------
(* What the shared operators keep. *)

LEMMA StartFields ==
  ASSUME LeaseTypes, NEW t \in Starts
  PROVE  /\ start[t].at \in {"idle", "acquiring", "held"}
         /\ start[t].timer \in Nat
         /\ start[t].timer <= NoTimer
         /\ start[t].at # "held" => start[t].timer = NoTimer
         /\ start[t].at # "idle" => start[t].exec \in Executions
         /\ start[t].at = "idle" => start[t] = IdleStart
BY ClockAssumption DEF LeaseTypes, StartStates, IdleStart, NoTimer

LEMMA CallFields ==
  ASSUME OtherTypes, NEW c \in Calls
  PROVE  /\ call[c].at \in {"idle", "waiting", "stranded", "resuming", "forwarded"}
         /\ call[c].at # "idle" => call[c].exec \in Executions /\ call[c].known \in BOOLEAN
         /\ call[c].at = "idle" => call[c] = IdleCall
BY DEF OtherTypes, CallStates, IdleCall

LEMMA ReleaseKeeps ==
  ASSUME LeaseTypes, NEW x \in Executions, Release(x)
  PROVE  LeaseTypes'
BY NamesAssumption DEF LeaseTypes, Entries, Release, StartStates, IdleStart

LEMMA StopsTimerKeeps ==
  ASSUME LeaseTypes, NEW x \in Executions, StopsTimer(x), UNCHANGED <<lease, expiring>>
  PROVE  LeaseTypes'
BY NamesAssumption DEF LeaseTypes, Entries, StopsTimer, StartStates, IdleStart

LEMMA DropsKeeps ==
  ASSUME LeaseTypes, NEW x \in Executions, NEW t \in Starts, start[t].at = "held",
         start[t].exec = x, Drops(t, x)
  PROVE  LeaseTypes'
BY NamesAssumption DEF LeaseTypes, Entries, Drops, StartStates, IdleStart

LEMMA BeginsKeeps ==
  ASSUME LeaseTypes, NEW x \in Executions, NEW t \in Starts, BeginsLease(t, x),
         UNCHANGED <<lease, expiring>>
  PROVE  LeaseTypes'
<1>1. CASE lease[x] # NoLease
  BY <1>1 DEF LeaseTypes, Entries, BeginsLease
<1>2. CASE lease[x] = NoLease
  <2>1. start' = [start EXCEPT ![t] = [at |-> "acquiring", exec |-> x, timer |-> NoTimer]]
    BY <1>2 DEF BeginsLease
  <2>2. start[t].at = "idle"
    BY DEF BeginsLease, IdleStart
  <2>3. start' \in [Starts -> StartStates]
    BY <2>1 DEF LeaseTypes, StartStates
  <2>4. Entries'
    BY <2>1, <2>2, NamesAssumption DEF LeaseTypes, Entries
  <2> QED
    BY <2>3, <2>4 DEF LeaseTypes
<1> QED
  BY <1>1, <1>2

LEMMA EngineKeeps ==
  ASSUME EngineTypes, NEW x \in Executions, NEW a \in Answers, NEW k, EngineResumes(x, a, k)
  PROVE  EngineTypes'
BY DEF EngineTypes, EngineResumes, Engines

LEMMA AvailableKeeps ==
  ASSUME OtherTypes, NEW x \in Executions, Available(x) # NoAnswer
  PROVE  Available(x) \in Answers
BY DEF OtherTypes, Available

LEMMA ResumesKeeps ==
  ASSUME OtherTypes, LeaseTypes, EngineTypes, UNCHANGED <<lease, expiring>>,
         NEW c \in Calls, NEW at \in {"resuming", "forwarded"}, NEW x \in Executions,
         NEW a \in Answers, Resumes(c, at, x, a)
  PROVE  LeaseTypes' /\ EngineTypes' /\ call' \in [Calls -> CallStates]
<1>1. LeaseTypes' /\ EngineTypes'
  BY StopsTimerKeeps, EngineKeeps, Zenon DEF Resumes
<1> QED
  BY <1>1 DEF Resumes, OtherTypes, CallStates

LEMMA DeliversKeeps ==
  ASSUME OtherTypes, EngineTypes, NEW x \in Executions, NEW a \in Answers, Delivers(x, a)
  PROVE  /\ EngineTypes'
         /\ memory' \in [Executions -> Answers \cup {NoAnswer}]
         /\ stored' \in [Executions -> Answers \cup {NoAnswer}]
         /\ call' \in [Calls -> CallStates]
<1>1. PICK c \in Calls :
        /\ call' = [d \in Calls |->
             CASE d = c -> [at |-> "resuming", exec |-> x, known |-> FALSE]
               [] d # c /\ Waits(d, x) -> IdleCall
               [] OTHER -> call[d]]
        /\ EngineResumes(x, a, call[c].known)
        /\ memory' = [memory EXCEPT ![x] = NoAnswer]
        /\ stored' = [stored EXCEPT ![x] = NoAnswer]
  BY Zenon DEF Delivers
<1>2. EngineTypes'
  BY <1>1, EngineKeeps, Zenon
<1>3. \A d \in Calls : call'[d] \in CallStates
  BY <1>1 DEF OtherTypes, CallStates
<1> QED
  BY <1>1, <1>2, <1>3 DEF OtherTypes

LEMMA KeepsKeeps ==
  ASSUME OtherTypes, NEW x \in Executions, NEW a \in Answers, Keeps(x, a)
  PROVE  /\ memory' \in [Executions -> Answers \cup {NoAnswer}]
         /\ stored' \in [Executions -> Answers \cup {NoAnswer}]
         /\ call' \in [Calls -> CallStates]
BY DEF OtherTypes, Keeps

---------------------------------------------------------------------------
(* Type correctness. *)

LEMMA TypeStep ==
  ASSUME LeaseTypes, EngineTypes, OtherTypes, [Next]_vars
  PROVE  LeaseTypes' /\ EngineTypes' /\ OtherTypes'
<1>0. ASSUME NEW x \in Executions, Pauses(x)
      PROVE  LeaseTypes' /\ EngineTypes' /\ OtherTypes'
  BY <1>0 DEF Pauses, LeaseTypes, Entries, EngineTypes, Engines, OtherTypes, leases, answers
<1>1. ASSUME NEW t \in Starts, NEW x \in Executions, Reports(t, x)
      PROVE  LeaseTypes' /\ EngineTypes' /\ OtherTypes'
  <2>1. LeaseTypes'
    BY <1>1, BeginsKeeps, Zenon DEF Reports
  <2> QED
    BY <1>1, <2>1 DEF Reports, EngineTypes, OtherTypes, answers
<1>2. ASSUME NEW t \in Starts, Arms(t) \/ StartFails(t)
      PROVE  LeaseTypes' /\ EngineTypes' /\ OtherTypes'
  <2>1. start[t].at = "acquiring" /\ start[t].exec \in Executions
    BY <1>2, StartFields DEF Arms, StartFails
  <2>2. ASSUME Arms(t) PROVE LeaseTypes'
    <3> DEFINE x == start[t].exec
    <3>1. /\ start' = [start EXCEPT ![t] = [at |-> "held", exec |-> x, timer |-> 0]]
          /\ lease' = [lease EXCEPT ![x] = t]
          /\ expiring' = [expiring EXCEPT ![x] = FALSE]
      BY <2>2, Zenon DEF Arms
    <3>2. x \in Executions
      BY <2>1
    <3> HIDE DEF x
    <3>3. start' \in [Starts -> StartStates]
      <4>1. [at |-> "held", exec |-> x, timer |-> 0] \in StartStates
        BY <3>2, ClockAssumption DEF StartStates
      <4> QED
        BY <3>1, <4>1 DEF LeaseTypes
    <3>4. Entries'
      BY <2>1, <3>1, <3>2, NamesAssumption DEF LeaseTypes, Entries
    <3> QED
      BY <3>1, <3>2, <3>3, <3>4 DEF LeaseTypes
  <2>3. ASSUME StartFails(t) PROVE LeaseTypes'
    <3>1. /\ start' \in {[start EXCEPT ![t] = IdleStart], [start EXCEPT ![t].at = "held"]}
          /\ UNCHANGED <<lease, expiring>>
      BY <2>3 DEF StartFails
    <3>2. [start[t] EXCEPT !.at = "held"] \in StartStates
      BY <2>1 DEF LeaseTypes, StartStates, IdleStart
    <3>3. start' \in [Starts -> StartStates]
      BY <3>1, <3>2 DEF LeaseTypes, StartStates
    <3>4. Entries'
      BY <2>1, <3>1, NamesAssumption DEF LeaseTypes, Entries
    <3> QED
      BY <3>1, <3>3, <3>4 DEF LeaseTypes
  <2>4. LeaseTypes'
    BY <1>2, <2>2, <2>3
  <2> QED
    BY <1>2, <2>1, <2>4, ClockAssumption DEF Arms, StartFails, EngineTypes, OtherTypes, answers
<1>3. ASSUME NEW c \in Calls, NEW x \in Executions, Asks(c, x)
      PROVE  LeaseTypes' /\ EngineTypes' /\ OtherTypes'
  <2>1. CASE Available(x) # NoAnswer
    <3>1. Resumes(c, "resuming", x, Available(x))
      BY <1>3, <2>1, Zenon DEF Asks, TakesAndResumes
    <3>2. LeaseTypes' /\ EngineTypes' /\ call' \in [Calls -> CallStates]
      BY <1>3, <2>1, <3>1, AvailableKeeps, ResumesKeeps, Zenon DEF Asks
    <3> QED
      BY <1>3, <2>1, <3>2, ClockAssumption DEF Asks, TakesAndResumes, OtherTypes
  <2>2. CASE Available(x) = NoAnswer
    <3> DEFINE k == engine[x] \notin {"detached", "lost"}
    <3>1. call' = [call EXCEPT ![c] = [at |-> "waiting", exec |-> x, known |-> k]]
      BY <1>3, <2>2, Zenon DEF Asks
    <3>2. k \in BOOLEAN
      OBVIOUS
    <3> HIDE DEF k
    <3>3. call' \in [Calls -> CallStates]
      BY <3>1, <3>2 DEF OtherTypes, CallStates
    <3> QED
      BY <1>3, <2>2, <3>3, ClockAssumption
      DEF Asks, LeaseTypes, Entries, EngineTypes, OtherTypes, answers
  <2> QED
    BY <2>1, <2>2
<1>4. ASSUME NEW c \in Calls, NEW x \in Executions, ModelResumes(c, x)
      PROVE  LeaseTypes' /\ EngineTypes' /\ OtherTypes'
  <2>1. LeaseTypes' /\ EngineTypes' /\ call' \in [Calls -> CallStates]
    <3>1. PICK at \in {"resuming", "forwarded"} : Resumes(c, at, x, "model")
      BY <1>4, Zenon DEF ModelResumes
    <3> QED
      BY <1>4, <3>1, ResumesKeeps DEF ModelResumes, Answers
  <2> QED
    BY <1>4, <2>1, ClockAssumption DEF ModelResumes, OtherTypes, answers
<1>5. ASSUME NEW c \in Calls, StopsWaiting(c)
      PROVE  LeaseTypes' /\ EngineTypes' /\ OtherTypes'
  <2>1. \A d \in Calls : call'[d] \in CallStates
    <3> SUFFICES ASSUME NEW d \in Calls PROVE call'[d] \in CallStates
      OBVIOUS
    <3>1. call'[d] \in {IdleCall, call[d], [call[d] EXCEPT !.at = "stranded"]}
      BY <1>5, Zenon DEF StopsWaiting
    <3>2. call'[d] # IdleCall /\ call'[d] # call[d] => call[d].at # "idle"
      BY <1>5 DEF StopsWaiting, Waits
    <3> QED
      BY <3>1, <3>2 DEF OtherTypes, CallStates, IdleCall
  <2> QED
    BY <1>5, <2>1 DEF StopsWaiting, LeaseTypes, Entries, EngineTypes, OtherTypes, leases, answers
<1>6. ASSUME NEW c \in Calls, Finishes(c)
      PROVE  LeaseTypes' /\ EngineTypes' /\ OtherTypes'
  <2>1. call[c].exec \in Executions
    BY <1>6, CallFields DEF Finishes, InResume
  <2>2. LeaseTypes'
    BY <1>6, <2>1, ReleaseKeeps, Zenon DEF Finishes
  <2> QED
    BY <1>6, <2>2 DEF Finishes, EngineTypes, OtherTypes, CallStates, answers
<1>7. ASSUME NEW x \in Executions, SandboxEnds(x)
      PROVE  LeaseTypes' /\ EngineTypes' /\ OtherTypes'
  BY <1>7 DEF SandboxEnds, LeaseTypes, Entries, EngineTypes, Engines, OtherTypes, leases, answers
<1>8. ASSUME NEW x \in Executions, HumanAnswers(x)
      PROVE  LeaseTypes' /\ EngineTypes' /\ OtherTypes'
  <2>1. CASE Delivers(x, "human") /\ StopsTimer(x)
    <3>1. LeaseTypes'
      BY <1>8, <2>1, StopsTimerKeeps, Zenon DEF HumanAnswers
    <3> QED
      BY <1>8, <2>1, <3>1, DeliversKeeps DEF HumanAnswers, OtherTypes, Answers
  <2>2. CASE Keeps(x, "human") /\ UNCHANGED <<engine, given, start>>
    BY <1>8, <2>2, KeepsKeeps DEF HumanAnswers, LeaseTypes, Entries, EngineTypes, OtherTypes, Answers
  <2> QED
    BY <1>8, <2>1, <2>2, Zenon DEF HumanAnswers
<1>9. ASSUME NEW x \in Executions, ExpiryEnds(x)
      PROVE  LeaseTypes' /\ EngineTypes' /\ OtherTypes'
  BY <1>9, ReleaseKeeps DEF ExpiryEnds, EngineTypes, OtherTypes, answers
<1>10. ASSUME NEW t \in Starts,
              ExpiresIdly(t) \/ DeclinesToWaiter(t) \/ DeclinesToNobody(t) \/ DeclinesItself(t)
       PROVE  LeaseTypes' /\ EngineTypes' /\ OtherTypes'
  <2> DEFINE x == start[t].exec
  <2>1. start[t].at = "held" /\ x \in Executions /\ "timeout" \in Answers
    BY <1>10, StartFields DEF ExpiresIdly, DeclinesToWaiter, DeclinesToNobody, DeclinesItself, Due, Answers
  <2> HIDE DEF x
  <2>2. CASE ExpiresIdly(t)
    <3>1. LeaseTypes'
      BY <2>1, <2>2, DropsKeeps, Zenon DEF ExpiresIdly, x
    <3> QED
      BY <2>2, <3>1 DEF ExpiresIdly, EngineTypes, OtherTypes, answers
  <2>3. CASE DeclinesToWaiter(t)
    <3>1. LeaseTypes'
      BY <2>1, <2>3, DropsKeeps, Zenon DEF DeclinesToWaiter, x
    <3>2. Delivers(x, "timeout")
      BY <2>3, Zenon DEF DeclinesToWaiter, x
    <3> QED
      BY <2>1, <2>3, <3>1, <3>2, DeliversKeeps DEF DeclinesToWaiter, OtherTypes
  <2>4. CASE DeclinesToNobody(t)
    <3>1. LeaseTypes'
      BY <2>1, <2>4, DropsKeeps, Zenon DEF DeclinesToNobody, x
    <3>2. Keeps(x, "timeout")
      BY <2>4, Zenon DEF DeclinesToNobody, x
    <3> QED
      BY <2>1, <2>4, <3>1, <3>2, KeepsKeeps DEF DeclinesToNobody, EngineTypes, OtherTypes
  <2>5. CASE DeclinesItself(t)
    <3>1. /\ Delivers(x, "timeout") \/ (Keeps(x, "timeout") /\ EngineResumes(x, "timeout", FALSE))
          /\ expiry' = expiry \cup {x}
          /\ expiring' = [expiring EXCEPT ![x] = TRUE]
          /\ start' = [s \in Starts |->
               IF s \in {t, lease[x]} THEN [start[s] EXCEPT !.timer = NoTimer] ELSE start[s]]
          /\ UNCHANGED <<reported, runtime, idle, lease, failed, recorded>>
      BY <2>5, Zenon DEF DeclinesItself, x
    <3>2. LeaseTypes'
      BY <2>1, <3>1, NamesAssumption DEF LeaseTypes, Entries, StartStates, IdleStart
    <3>3. /\ EngineTypes'
          /\ memory' \in [Executions -> Answers \cup {NoAnswer}]
          /\ stored' \in [Executions -> Answers \cup {NoAnswer}]
          /\ call' \in [Calls -> CallStates]
      BY <2>1, <3>1, DeliversKeeps, KeepsKeeps, EngineKeeps, Zenon
    <3> QED
      BY <2>1, <3>1, <3>2, <3>3 DEF OtherTypes
  <2> QED
    BY <1>10, <2>2, <2>3, <2>4, <2>5
<1>11. ASSUME Tick
       PROVE  LeaseTypes' /\ EngineTypes' /\ OtherTypes'
  <2>1. \A t \in Starts : start'[t] \in StartStates /\ start'[t].at = start[t].at /\ start'[t].exec = start[t].exec
    BY <1>11, ClockAssumption, StartFields DEF Tick, LeaseTypes, StartStates, IdleStart, NoTimer
  <2>2. LeaseTypes'
    BY <1>11, <2>1 DEF Tick, LeaseTypes, Entries
  <2> QED
    BY <1>11, <2>2, ClockAssumption DEF Tick, EngineTypes, OtherTypes, answers
<1>12. ASSUME NEW work \in BOOLEAN, DisposeBegins(work)
       PROVE  LeaseTypes' /\ EngineTypes' /\ OtherTypes'
  BY <1>12 DEF DisposeBegins, ReleasesAll, LeaseTypes, Entries, StartStates, EngineTypes, OtherTypes, answers
<1>13. ASSUME DisposeEnds
       PROVE  LeaseTypes' /\ EngineTypes' /\ OtherTypes'
  BY <1>13 DEF DisposeEnds, LeaseTypes, Entries, EngineTypes, Engines, OtherTypes, leases, answers
<1>14. ASSUME Restores \/ OtherRequest
       PROVE  LeaseTypes' /\ EngineTypes' /\ OtherTypes'
  <2>1. CASE Restores
    <3>1. /\ start' = [t \in Starts |->
               IF t \in {lease[x] : x \in Executions} THEN IdleStart ELSE start[t]]
          /\ lease' = [x \in Executions |-> NoLease]
          /\ expiring' = [x \in Executions |-> FALSE]
          /\ UNCHANGED <<engine, reported, given, failed, expiry, answers, recorded, call>>
          /\ runtime' = "live" /\ idle' = 0
      BY <2>1 DEF Restores, ReleasesAll
    <3>2. LeaseTypes'
      BY <3>1 DEF LeaseTypes, Entries, StartStates
    <3> QED
      BY <3>1, <3>2, ClockAssumption DEF EngineTypes, OtherTypes, answers
  <2>2. CASE OtherRequest
    BY <2>2, ClockAssumption
    DEF OtherRequest, LeaseTypes, Entries, EngineTypes, OtherTypes, leases, answers
  <2> QED
    BY <1>14, <2>1, <2>2
<1>15. ASSUME Evicts
       PROVE  LeaseTypes' /\ EngineTypes' /\ OtherTypes'
  BY <1>15 DEF Evicts, LeaseTypes, Entries, StartStates, EngineTypes, Engines, OtherTypes, CallStates
<1>16. ASSUME UNCHANGED vars
       PROVE  LeaseTypes' /\ EngineTypes' /\ OtherTypes'
  BY <1>16 DEF vars, leases, answers, LeaseTypes, Entries, EngineTypes, OtherTypes
<1> QED
  BY <1>0, <1>1, <1>2, <1>3, <1>4, <1>5, <1>6, <1>7, <1>8, <1>9, <1>10, <1>11, <1>12, <1>13,
     <1>14, <1>15, <1>16, Zenon DEF Next

(* Every reachable state is well typed: a running timer belongs to a start    *)
(* that holds its keep-alive, and an entry of pendingApprovalLeases names a   *)
(* start that was made for its execution.                                     *)
THEOREM TypeCorrect == Spec => []TypeOK
<1>1. TypeOK /\ [Next]_vars => TypeOK'
  BY TypeParts, TypePartsNext, TypeStep, Zenon
<1> QED
  BY TypeInit, <1>1, PTL DEF Spec

---------------------------------------------------------------------------
(* A decline for want of an answer never overrides a human's. *)

(* What answers do: a call that waits finds nothing to take; an answer that   *)
(* was recorded stays in memory as long as its pause is there; nothing is     *)
(* given to a pause that is still open.                                       *)
WaitersFindNothing ==
  \A c \in Calls : call[c].at = "waiting" => memory[call[c].exec] = NoAnswer

RecordedStays ==
  \A x \in recorded :
    /\ engine[x] # "running"
    /\ engine[x] = "paused" => memory[x] = "human"
    /\ engine[x] = "detached" => \A c \in Calls : Waits(c, x) => call[c].known = FALSE

GivenOnce ==
  \A x \in Executions : given[x] # NoAnswer => engine[x] \in {"resuming", "settled", "lost"}

AnswerInv == WaitersFindNothing /\ RecordedStays /\ GivenOnce /\ TimeoutYieldsToHuman


LEMMA AnswerInit == Init => AnswerInv
BY DEF Init, AnswerInv, WaitersFindNothing, RecordedStays, GivenOnce, TimeoutYieldsToHuman,
       IdleCall, NoAnswer

LEMMA EngineEffect ==
  ASSUME EngineTypes, NEW x \in Executions, NEW a \in Answers, NEW k \in BOOLEAN,
         EngineResumes(x, a, k), NEW y \in Executions
  PROVE  /\ engine'[y] # engine[y] =>
              /\ y = x
              /\ engine'[y] = "resuming"
              /\ given'[y] = a
              /\ engine[y] \in {"paused", "detached"}
              /\ engine[y] = "detached" => k = TRUE
         /\ engine'[y] = engine[y] => given'[y] = given[y]
         /\ engine'[x] # "paused"
BY DEF EngineResumes, EngineTypes

LEMMA DeliversEffect ==
  ASSUME OtherTypes, NEW x \in Executions, NEW a \in Answers, Delivers(x, a)
  PROVE  /\ \E c \in Calls : Waits(c, x) /\ EngineResumes(x, a, call[c].known)
         /\ memory' = [memory EXCEPT ![x] = NoAnswer]
         /\ \A d \in Calls :
              /\ call'[d].at = "waiting" => call'[d] = call[d] /\ call[d].exec # x
              /\ call'[d].at = "resuming" => call'[d].exec = x \/ call'[d] = call[d]
              /\ call'[d].at # "idle" => call'[d].exec = x \/ call'[d] = call[d]
<1>1. PICK c \in Calls :
        /\ Waits(c, x)
        /\ call' = [d \in Calls |->
             CASE d = c -> [at |-> "resuming", exec |-> x, known |-> FALSE]
               [] d # c /\ Waits(d, x) -> IdleCall
               [] OTHER -> call[d]]
        /\ EngineResumes(x, a, call[c].known)
        /\ memory' = [memory EXCEPT ![x] = NoAnswer]
  BY Zenon DEF Delivers
<1>2. ASSUME NEW d \in Calls
      PROVE  /\ call'[d].at = "waiting" => call'[d] = call[d] /\ call[d].exec # x
             /\ call'[d].at = "resuming" => call'[d].exec = x \/ call'[d] = call[d]
             /\ call'[d].at # "idle" => call'[d].exec = x \/ call'[d] = call[d]
  BY <1>1 DEF Waits, IdleCall
<1> QED
  BY <1>1, <1>2, Zenon

(* The step of a resume that carries an answer it may give.                   *)
LEMMA AnswerResumes ==
  ASSUME EngineTypes, OtherTypes, AnswerInv,
         NEW x \in Executions, NEW a \in Answers, NEW k \in BOOLEAN, EngineResumes(x, a, k),
         x \in recorded /\ a = "timeout" => 
           engine[x] # "paused" /\ (engine[x] = "detached" => k = FALSE),
         UNCHANGED recorded,
         memory' \in {memory, [memory EXCEPT ![x] = NoAnswer]},
         \A d \in Calls : call'[d].at = "waiting" => call'[d] = call[d]
  PROVE  AnswerInv'
<1> DEFINE Effect(y) ==
      /\ engine'[y] # engine[y] =>
           /\ y = x
           /\ engine'[y] = "resuming"
           /\ given'[y] = a
           /\ engine[y] \in {"paused", "detached"}
           /\ engine[y] = "detached" => k = TRUE
      /\ engine'[y] = engine[y] => given'[y] = given[y]
<1>0. \A y \in Executions : Effect(y)
  BY DEF EngineResumes, EngineTypes
<1>1. \A y \in Executions : given'[y] # NoAnswer => engine'[y] \in {"resuming", "settled", "lost"}
  BY <1>0 DEF AnswerInv, GivenOnce
<1>2. \A y \in Executions : given'[y] = "timeout" => y \notin recorded
  <2> SUFFICES ASSUME NEW y \in Executions, given'[y] = "timeout", y \in recorded PROVE FALSE
    OBVIOUS
  <2>1. given[y] # "timeout"
    BY DEF AnswerInv, TimeoutYieldsToHuman
  <2>2. engine'[y] # engine[y]
    BY <1>0, <2>1
  <2>3. y = x /\ a = "timeout" /\ engine[x] \in {"paused", "detached"}
        /\ (engine[x] = "detached" => k = TRUE)
    BY <1>0, <2>2
  <2> QED
    BY <2>3
<1>3. WaitersFindNothing'
  BY CallFields DEF WaitersFindNothing, AnswerInv, OtherTypes
<1>4. RecordedStays'
  <2> SUFFICES ASSUME NEW y \in recorded
      PROVE /\ engine'[y] # "running"
            /\ engine'[y] = "paused" => memory'[y] = "human"
            /\ engine'[y] = "detached" => \A c \in Calls : Waits(c, y)' => call'[c].known = FALSE
    BY DEF RecordedStays
  <2>1. y \in Executions
    BY DEF OtherTypes
  <2>2. /\ engine'[y] # "running"
        /\ engine'[y] = "paused" => engine[y] = "paused" /\ y # x
        /\ engine'[y] = "detached" => engine[y] = "detached"
    <3>1. engine'[x] # "paused"
      BY EngineEffect, Zenon
    <3> QED
      BY <1>0, <2>1, <3>1 DEF AnswerInv, RecordedStays
  <2>3. engine'[y] = "paused" => memory'[y] = "human"
    BY <2>1, <2>2 DEF AnswerInv, RecordedStays, OtherTypes
  <2>4. ASSUME engine'[y] = "detached", NEW c \in Calls, Waits(c, y)' PROVE call'[c].known = FALSE
    BY <2>1, <2>2, <2>4 DEF AnswerInv, RecordedStays, Waits
  <2> QED
    BY <2>2, <2>3, <2>4
<1> QED
  BY <1>1, <1>2, <1>3, <1>4 DEF AnswerInv, GivenOnce, TimeoutYieldsToHuman

LEMMA AnswerStep ==
  ASSUME LeaseTypes, EngineTypes, OtherTypes, AnswerInv, [Next]_vars
  PROVE  AnswerInv'
<1> USE DEF NoAnswer
<1>1. ASSUME UNCHANGED <<engine, given, memory, recorded, call>>
      PROVE  AnswerInv'
  BY <1>1 DEF AnswerInv, WaitersFindNothing, RecordedStays, GivenOnce, TimeoutYieldsToHuman, Waits
<1>2. ASSUME NEW x \in Executions, Pauses(x)
      PROVE  AnswerInv'
  BY <1>2 DEF Pauses, EngineTypes, OtherTypes, answers,
              AnswerInv, WaitersFindNothing, RecordedStays, GivenOnce, TimeoutYieldsToHuman, Waits
<1>3. ASSUME NEW c \in Calls, NEW x \in Executions, Asks(c, x)
      PROVE  AnswerInv'
  <2>1. CASE Available(x) # NoAnswer
    <3>1. /\ Available(x) \in Answers
          /\ EngineResumes(x, Available(x), FALSE)
          /\ memory' = [memory EXCEPT ![x] = NoAnswer]
          /\ call' = [call EXCEPT ![c] = [at |-> "resuming", exec |-> x, known |-> FALSE]]
          /\ UNCHANGED recorded
      BY <1>3, <2>1, AvailableKeeps DEF Asks, TakesAndResumes, Resumes
    <3>2. x \in recorded /\ Available(x) = "timeout" => engine[x] # "paused"
      BY DEF AnswerInv, RecordedStays, Available
    <3>3. \A d \in Calls : call'[d].at = "waiting" => call'[d] = call[d]
      BY <3>1 DEF OtherTypes
    <3> QED
      BY <3>1, <3>2, <3>3, AnswerResumes, Zenon
  <2>2. CASE Available(x) = NoAnswer
    <3> DEFINE k == engine[x] \notin {"detached", "lost"}
    <3>1. /\ call' = [call EXCEPT ![c] = [at |-> "waiting", exec |-> x, known |-> k]]
          /\ UNCHANGED <<engine, given, memory, recorded>>
      BY <1>3, <2>2, Zenon DEF Asks, answers
    <3>2. /\ memory[x] = NoAnswer
          /\ engine[x] = "detached" => k = FALSE
      BY <2>2 DEF Available
    <3> HIDE DEF k
    <3>3. WaitersFindNothing'
      BY <3>1, <3>2 DEF AnswerInv, WaitersFindNothing, OtherTypes
    <3>4. RecordedStays'
      BY <3>1, <3>2 DEF AnswerInv, RecordedStays, Waits, OtherTypes
    <3> QED
      BY <3>1, <3>3, <3>4 DEF AnswerInv, GivenOnce, TimeoutYieldsToHuman
  <2> QED
    BY <2>1, <2>2
<1>4. ASSUME NEW c \in Calls, NEW x \in Executions, ModelResumes(c, x)
      PROVE  AnswerInv'
  <2>1. /\ EngineResumes(x, "model", FALSE)
        /\ \E at \in {"resuming", "forwarded"} :
             call' = [call EXCEPT ![c] = [at |-> at, exec |-> x, known |-> FALSE]]
        /\ UNCHANGED <<memory, recorded>>
    BY <1>4 DEF ModelResumes, Resumes, answers
  <2>2. \A d \in Calls : call'[d].at = "waiting" => call'[d] = call[d]
    BY <2>1 DEF OtherTypes
  <2>3. "model" \in Answers /\ "model" # "timeout"
    BY DEF Answers
  <2> QED
    BY <2>1, <2>2, <2>3, AnswerResumes, Zenon
<1>5. ASSUME NEW c \in Calls, StopsWaiting(c) \/ Finishes(c)
      PROVE  AnswerInv'
  <2>1. \A d \in Calls : call'[d].at = "waiting" => call'[d] = call[d]
    <3>1. ASSUME StopsWaiting(c), NEW d \in Calls
          PROVE  call'[d].at = "waiting" => call'[d] = call[d]
      <4>1. call'[d] \in {IdleCall, call[d], [call[d] EXCEPT !.at = "stranded"]}
        BY <3>1, Zenon DEF StopsWaiting
      <4>2. call[d] \in CallStates
        BY DEF OtherTypes
      <4> QED
        BY <4>1, <4>2 DEF IdleCall, CallStates
    <3>2. ASSUME Finishes(c), NEW d \in Calls
          PROVE  call'[d].at = "waiting" => call'[d] = call[d]
      BY <3>2 DEF Finishes, IdleCall, OtherTypes
    <3> QED
      BY <1>5, <3>1, <3>2
  <2>2. UNCHANGED <<engine, given, memory, recorded>>
    BY <1>5 DEF StopsWaiting, Finishes, answers
  <2> QED
    BY <2>1, <2>2
    DEF AnswerInv, WaitersFindNothing, RecordedStays, GivenOnce, TimeoutYieldsToHuman, Waits
<1>6. ASSUME NEW x \in Executions, SandboxEnds(x)
      PROVE  AnswerInv'
  BY <1>6 DEF SandboxEnds, EngineTypes, OtherTypes, answers,
              AnswerInv, WaitersFindNothing, RecordedStays, GivenOnce, TimeoutYieldsToHuman, Waits
<1>7. ASSUME NEW x \in Executions, NEW a \in Answers, Delivers(x, a), UNCHANGED recorded,
             x \in recorded /\ a = "timeout" => memory[x] = NoAnswer
      PROVE  AnswerInv'
  <2>1. PICK c \in Calls : Waits(c, x) /\ EngineResumes(x, a, call[c].known)
    BY <1>7, DeliversEffect, Zenon
  <2>2. call[c].known \in BOOLEAN
    BY <2>1, CallFields DEF Waits
  <2>3. x \in recorded /\ a = "timeout" =>
          engine[x] # "paused" /\ (engine[x] = "detached" => call[c].known = FALSE)
    BY <1>7, <2>1 DEF AnswerInv, RecordedStays
  <2>4. /\ memory' = [memory EXCEPT ![x] = NoAnswer]
        /\ \A d \in Calls : call'[d].at = "waiting" => call'[d] = call[d]
    BY <1>7, DeliversEffect, Zenon
  <2> QED
    BY <1>7, <2>1, <2>2, <2>3, <2>4, AnswerResumes, Zenon
<1>8. ASSUME NEW x \in Executions, HumanAnswers(x)
      PROVE  AnswerInv'
  <2>1. x \in Executions /\ engine[x] = "paused" /\ recorded' = recorded \cup {x}
    BY <1>8 DEF HumanAnswers
  <2>2. CASE Delivers(x, "human")
    <3>1. PICK c \in Calls : Waits(c, x) /\ EngineResumes(x, "human", call[c].known)
      BY <2>2, DeliversEffect, Zenon DEF Answers
    <3>2. /\ engine' = [engine EXCEPT ![x] = "resuming"]
          /\ given' = [given EXCEPT ![x] = "human"]
      BY <2>1, <3>1 DEF EngineResumes
    <3>3. /\ memory' = [memory EXCEPT ![x] = NoAnswer]
          /\ \A d \in Calls : call'[d].at = "waiting" => call'[d] = call[d]
      BY <2>2, DeliversEffect, Zenon DEF Answers
    <3>4. WaitersFindNothing'
      BY <3>3, CallFields DEF AnswerInv, WaitersFindNothing, OtherTypes
    <3>5. RecordedStays'
      BY <2>1, <3>2, <3>3 DEF AnswerInv, RecordedStays, Waits, OtherTypes, EngineTypes
    <3>6. GivenOnce' /\ TimeoutYieldsToHuman'
      BY <2>1, <3>2 DEF AnswerInv, GivenOnce, TimeoutYieldsToHuman, EngineTypes
    <3> QED
      BY <3>4, <3>5, <3>6 DEF AnswerInv
  <2>3. CASE Keeps(x, "human") /\ UNCHANGED <<engine, given, start>>
    <3>1. WaitersFindNothing'
      BY <2>3, CallFields DEF Keeps, HasWaiter, Waits, AnswerInv, WaitersFindNothing, OtherTypes
    <3>2. RecordedStays'
      BY <2>1, <2>3 DEF Keeps, AnswerInv, RecordedStays, Waits, OtherTypes, EngineTypes
    <3>3. GivenOnce' /\ TimeoutYieldsToHuman'
      BY <2>1, <2>3 DEF AnswerInv, GivenOnce, TimeoutYieldsToHuman, EngineTypes
    <3> QED
      BY <3>1, <3>2, <3>3 DEF AnswerInv
  <2> QED
    BY <1>8, <2>2, <2>3, Zenon DEF HumanAnswers
<1>9. ASSUME NEW x \in Executions, memory[x] = NoAnswer, Keeps(x, "timeout"), UNCHANGED recorded,
             UNCHANGED <<engine, given>> \/ EngineResumes(x, "timeout", FALSE)
      PROVE  AnswerInv'
  <2>1. x \in recorded => engine[x] # "paused"
    BY <1>9 DEF AnswerInv, RecordedStays
  <2>2. \A y \in Executions :
          /\ engine'[y] # engine[y] =>
               y = x /\ engine[y] = "paused" /\ engine'[y] = "resuming"
          /\ engine'[y] = engine[y] => given'[y] = given[y]
    BY <1>9 DEF EngineResumes, EngineTypes
  <2>3. WaitersFindNothing'
    BY <1>9, CallFields DEF Keeps, HasWaiter, Waits, AnswerInv, WaitersFindNothing, OtherTypes
  <2>4. RecordedStays'
    BY <1>9, <2>1, <2>2 DEF Keeps, AnswerInv, RecordedStays, Waits, OtherTypes
  <2>5. GivenOnce' /\ TimeoutYieldsToHuman'
    BY <1>9, <2>1, <2>2 DEF AnswerInv, GivenOnce, TimeoutYieldsToHuman
  <2> QED
    BY <2>3, <2>4, <2>5 DEF AnswerInv
<1>10. ASSUME NEW t \in Starts,
              DeclinesToWaiter(t) \/ DeclinesToNobody(t) \/ DeclinesItself(t)
       PROVE  AnswerInv'
  <2>1. start[t].at = "held" /\ start[t].exec \in Executions /\ memory[start[t].exec] = NoAnswer
    BY <1>10, StartFields
    DEF DeclinesToWaiter, DeclinesToNobody, DeclinesItself, Due, NothingToDecline
  <2>2. "timeout" \in Answers
    BY DEF Answers
  <2>3. CASE Delivers(start[t].exec, "timeout") /\ UNCHANGED recorded
    BY <1>7, <2>1, <2>2, <2>3, Zenon
  <2>4. CASE /\ Keeps(start[t].exec, "timeout") /\ UNCHANGED recorded
             /\ UNCHANGED <<engine, given>> \/ EngineResumes(start[t].exec, "timeout", FALSE)
    BY <1>9, <2>1, <2>4, Zenon
  <2> QED
    BY <1>10, <2>3, <2>4, Zenon DEF DeclinesToWaiter, DeclinesToNobody, DeclinesItself
<1>11. ASSUME DisposeEnds
       PROVE  AnswerInv'
  <2>1. \A x \in Executions :
          /\ engine'[x] # engine[x] => engine[x] = "paused" /\ engine'[x] = "detached"
          /\ UNCHANGED <<given, memory, recorded, call>>
    BY <1>11 DEF DisposeEnds, EngineTypes, answers
  <2>2. UNCHANGED <<given, memory, recorded, call>>
    BY <1>11 DEF DisposeEnds, answers
  <2>3. \A x \in recorded, c \in Calls : engine[x] = "paused" => ~Waits(c, x)
    BY DEF AnswerInv, RecordedStays, WaitersFindNothing, Waits
  <2>4. RecordedStays'
    BY <2>1, <2>2, <2>3 DEF AnswerInv, RecordedStays, Waits, OtherTypes
  <2> QED
    BY <2>1, <2>2, <2>4 DEF AnswerInv, WaitersFindNothing, GivenOnce, TimeoutYieldsToHuman
<1>12. ASSUME Evicts
       PROVE  AnswerInv'
  BY <1>12 DEF Evicts, IdleCall, EngineTypes, OtherTypes,
               AnswerInv, WaitersFindNothing, RecordedStays, GivenOnce, TimeoutYieldsToHuman, Waits
<1>13. ASSUME NEW t \in Starts, NEW x \in Executions, Reports(t, x)
       PROVE  AnswerInv'
  BY <1>1, <1>13, Zenon DEF Reports, answers
<1>14. ASSUME NEW t \in Starts, Arms(t) \/ StartFails(t) \/ ExpiresIdly(t)
       PROVE  AnswerInv'
  BY <1>1, <1>14, Zenon DEF Arms, StartFails, ExpiresIdly, answers
<1>15. ASSUME NEW x \in Executions, ExpiryEnds(x)
       PROVE  AnswerInv'
  BY <1>1, <1>15, Zenon DEF ExpiryEnds, answers
<1>16. ASSUME NEW work \in BOOLEAN, DisposeBegins(work)
       PROVE  AnswerInv'
  BY <1>1, <1>16, Zenon DEF DisposeBegins, answers
<1>17. ASSUME Tick \/ Restores \/ OtherRequest \/ UNCHANGED vars
       PROVE  AnswerInv'
  BY <1>1, <1>17, Zenon DEF Tick, Restores, OtherRequest, vars, answers
<1> QED
  BY <1>2, <1>3, <1>4, <1>5, <1>6, <1>8, <1>10, <1>11, <1>12, <1>13, <1>14, <1>15, <1>16, <1>17,
     Zenon DEF Next

(* A pause is declined for want of an answer only if no human was told that   *)
(* the answer is recorded, whatever meets: the timers of several starts, the  *)
(* calls that wait, take or leave, the disposal and the eviction.             *)
THEOREM TimeoutYields == Spec => []TimeoutYieldsToHuman
<1>1. LeaseTypes /\ EngineTypes /\ OtherTypes /\ AnswerInv /\ [Next]_vars =>
        LeaseTypes' /\ EngineTypes' /\ OtherTypes' /\ AnswerInv'
  BY TypeStep, AnswerStep, Zenon
<1>2. Init => LeaseTypes /\ EngineTypes /\ OtherTypes /\ AnswerInv
  BY TypeInit, AnswerInit, TypeParts, Zenon
<1>3. AnswerInv => TimeoutYieldsToHuman
  BY DEF AnswerInv
<1> QED
  BY <1>1, <1>2, <1>3, PTL DEF Spec

---------------------------------------------------------------------------
(* A pause always has a way out, and the alarm spares it. *)

(* What leases do: everything that is under way or was reported belongs to a  *)
(* pause, and what will release a lease belongs to one that is over; a pause under lease has  *)
(* its timer; and the idle clock is behind every timer that runs.             *)
Begun ==
  /\ \A c \in Calls : call[c].at # "idle" => engine[call[c].exec] # "running"
  /\ \A t \in Starts : start[t].at # "idle" => engine[start[t].exec] # "running"
  /\ \A x \in reported : engine[x] # "running"

Releasing ==
  /\ \A c \in Calls :
       call[c].at \in {"resuming", "forwarded"} => engine[call[c].exec] # "paused"
  /\ \A x \in Executions : x \in expiry \/ expiring[x] = TRUE => engine[x] \notin {"running", "paused"}

DownHasNoPause == runtime = "down" => \A x \in Executions : engine[x] # "paused"

Timed ==
  \A x \in Executions : engine[x] = "paused" /\ lease[x] # NoLease =>
    start[lease[x]].timer # NoTimer

Clock ==
  \A t \in Starts : start[t].timer # NoTimer => idle <= start[t].timer \/ start[t].timer = ApprovalTimeout

LeaseInv == Begun /\ Releasing /\ DownHasNoPause /\ Timed /\ Clock /\ PauseHasAWayOut

LEMMA LeaseInit == Init => LeaseInv
BY ClockAssumption DEF Init, LeaseInv, Begun, Releasing, DownHasNoPause, Timed, Clock, PauseHasAWayOut,
       IdleCall, IdleStart, NoLease

(* A step that leaves pause x over, whatever it does to the lease of x.       *)
LEMMA OverKeeps ==
  ASSUME LeaseTypes, EngineTypes, OtherTypes, LeaseInv, NEW x \in Executions,
         engine'[x] \notin {"running", "paused"},
         \A y \in Executions \ {x} : engine'[y] = engine[y],
         \A y \in Executions \ {x} : lease'[y] = lease[y],
         \A y \in Executions \ {x} : memory'[y] = memory[y],
         \A y \in Executions \ {x} : expiring'[y] = expiring[y],
         expiry' \subseteq expiry \cup {x},
         \A t \in Starts :
           \/ start'[t] = start[t]
           \/ /\ start[t].at = "held"
              /\ start[t].exec = x
              /\ start'[t].at = "idle" \/ start'[t].exec = x
              /\ start'[t].at # "acquiring"
              /\ start'[t].timer = NoTimer,
         \A c \in Calls : call'[c].at = "idle" \/ call'[c].exec = x \/ call'[c] = call[c],
         runtime' = runtime, idle' \in {0, idle}, failed' = failed, reported' = reported
  PROVE  LeaseInv'
<1>1. Begun'
  <2>1. /\ \A c \in Calls : call'[c].at # "idle" => engine'[call'[c].exec] # "running"
        /\ \A t \in Starts : start'[t].at # "idle" => engine'[start'[t].exec] # "running"
    BY StartFields, CallFields DEF LeaseInv, Begun
  <2>2. \A y \in reported' : engine'[y] # "running"
    BY DEF LeaseInv, Begun, OtherTypes
  <2> QED
    BY <2>1, <2>2 DEF Begun
<1>2. Releasing'
  BY CallFields DEF LeaseInv, Releasing, OtherTypes
<1>3. DownHasNoPause'
  BY DEF LeaseInv, DownHasNoPause
<1>4. ASSUME NEW y \in Executions, engine'[y] = "paused"
      PROVE  /\ y # x
             /\ engine[y] = "paused"
             /\ lease'[y] = lease[y]
             /\ lease[y] # NoLease => start'[lease[y]] = start[lease[y]]
             /\ \A t \in Starts : start[t].at = "acquiring" => start'[t] = start[t]
             /\ memory'[y] = memory[y]
  BY <1>4 DEF LeaseTypes, Entries
<1>5. Timed'
  BY <1>4 DEF LeaseInv, Timed
<1>6. Clock'
  BY ClockAssumption, StartFields DEF LeaseInv, Clock, OtherTypes
<1>7. PauseHasAWayOut'
  BY <1>4 DEF LeaseInv, PauseHasAWayOut, OtherTypes
<1> QED
  BY <1>1, <1>2, <1>3, <1>5, <1>6, <1>7 DEF LeaseInv

LEMMA ReleaseEffect ==
  ASSUME LeaseTypes, NEW x \in Executions,
         Release(x) \/ (StopsTimer(x) /\ UNCHANGED <<lease, expiring>>)
  PROVE  /\ \A y \in Executions \ {x} : lease'[y] = lease[y] /\ expiring'[y] = expiring[y]
         /\ \A t \in Starts :
           \/ start'[t] = start[t]
           \/ /\ start[t].at = "held"
              /\ start[t].exec = x
              /\ start'[t].at = "idle" \/ start'[t].exec = x
              /\ start'[t].at # "acquiring"
              /\ start'[t].timer = NoTimer
<1>1. CASE Release(x)
  BY <1>1, NamesAssumption DEF Release, LeaseTypes, Entries, IdleStart
<1>2. CASE StopsTimer(x) /\ UNCHANGED <<lease, expiring>>
  BY <1>2, NamesAssumption DEF StopsTimer, LeaseTypes, Entries, StartStates, IdleStart
<1> QED
  BY <1>1, <1>2

LEMMA DropsEffect ==
  ASSUME LeaseTypes, NEW x \in Executions, NEW t \in Starts, start[t].at = "held",
         start[t].exec = x, Drops(t, x)
  PROVE  /\ \A y \in Executions \ {x} : lease'[y] = lease[y] /\ expiring'[y] = expiring[y]
         /\ \A s \in Starts :
           \/ start'[s] = start[s]
           \/ /\ start[s].at = "held"
              /\ start[s].exec = x
              /\ start'[s].at = "idle" \/ start'[s].exec = x
              /\ start'[s].at # "acquiring"
              /\ start'[s].timer = NoTimer
BY NamesAssumption DEF Drops, LeaseTypes, Entries, StartStates, IdleStart

LEMMA EngineOver ==
  ASSUME EngineTypes, NEW x \in Executions, NEW a, NEW k, EngineResumes(x, a, k), engine[x] # "running"
  PROVE  /\ engine'[x] \notin {"running", "paused"}
         /\ \A y \in Executions \ {x} : engine'[y] = engine[y]
BY DEF EngineResumes, EngineTypes

LEMMA LeaseStep ==
  ASSUME LeaseTypes, EngineTypes, OtherTypes, LeaseInv, [Next]_vars
  PROVE  LeaseInv'
<1> USE DEF NoLease, NoAnswer
<1>1. ASSUME NEW x \in Executions, Pauses(x)
      PROVE  LeaseInv'
  <2>1. /\ engine[x] = "running"
        /\ UNCHANGED <<reported, runtime, idle, lease, expiring, start, failed, expiry, memory, call>>
    BY <1>1 DEF Pauses, leases, answers
  <2>2. PICK e \in {"paused", "detached"} :
          /\ runtime = "down" => e = "detached"
          /\ engine' = [engine EXCEPT ![x] = e]
    BY <1>1, Zenon DEF Pauses
  <2>3. /\ lease[x] = NoLease /\ x \notin reported
        /\ \A y \in Executions \ {x} : engine'[y] = engine[y]
    BY <2>1, <2>2 DEF LeaseInv, Begun, LeaseTypes, Entries, EngineTypes
  <2>4. Begun' /\ Releasing'
    BY <2>1, <2>2, <2>3, StartFields, CallFields
    DEF LeaseInv, Begun, Releasing, EngineTypes, OtherTypes
  <2>5. DownHasNoPause' /\ Clock'
    BY <2>1, <2>2, <2>3 DEF LeaseInv, DownHasNoPause, Clock, EngineTypes
  <2>6. Timed' /\ PauseHasAWayOut'
    BY <2>1, <2>3 DEF LeaseInv, Timed, PauseHasAWayOut, OtherTypes
  <2> QED
    BY <2>4, <2>5, <2>6 DEF LeaseInv
<1>2. ASSUME NEW t \in Starts, NEW x \in Executions, Reports(t, x)
      PROVE  LeaseInv'
  <2>1. /\ engine[x] # "running" /\ reported' = reported \cup {x}
        /\ UNCHANGED <<engine, runtime, idle, lease, expiring, failed, expiry, memory, call>>
    BY <1>2 DEF Reports, answers
  <2>2. CASE start' = start /\ lease[x] # NoLease
    <3>1. Begun' /\ Releasing' /\ DownHasNoPause' /\ Timed' /\ Clock'
      BY <2>1, <2>2 DEF LeaseInv, Begun, Releasing, DownHasNoPause, Timed, Clock
    <3>2. PauseHasAWayOut'
      BY <2>1, <2>2 DEF LeaseInv, Timed, PauseHasAWayOut
    <3> QED
      BY <3>1, <3>2 DEF LeaseInv
  <2>3. CASE /\ start[t].at = "idle"
             /\ start' = [start EXCEPT ![t] = [at |-> "acquiring", exec |-> x, timer |-> NoTimer]]
    <3>1. Begun' /\ Releasing' /\ DownHasNoPause' /\ Clock'
      BY <2>1, <2>3 DEF LeaseInv, Begun, Releasing, DownHasNoPause, Clock, LeaseTypes
    <3>2. \A s \in Starts \ {t} : start'[s] = start[s]
      BY <2>3 DEF LeaseTypes
    <3>3. start'[t].at = "acquiring" /\ start'[t].exec = x
      BY <2>3 DEF LeaseTypes
    <3>4. \A y \in Executions : lease[y] # NoLease => lease[y] \in Starts \ {t}
      BY <2>3 DEF LeaseTypes, Entries
    <3>5. Timed'
      BY <2>1, <3>2, <3>4 DEF LeaseInv, Timed
    <3>6. PauseHasAWayOut'
      <4> SUFFICES ASSUME NEW y \in reported', runtime' = "live", engine'[y] = "paused",
                          memory'[y] = NoAnswer, y \notin failed'
                   PROVE  \/ \E s \in Starts : start'[s].at = "acquiring" /\ start'[s].exec = y
                          \/ lease'[y] # NoLease /\ start'[lease'[y]].timer # NoTimer
        BY DEF PauseHasAWayOut
      <4>1. CASE y = x
        BY <3>3, <4>1
      <4>2. CASE y # x
        <5>1. y \in reported /\ y \in Executions
          BY <2>1, <4>2 DEF OtherTypes
        <5>2. \/ \E s \in Starts : start[s].at = "acquiring" /\ start[s].exec = y
              \/ lease[y] # NoLease /\ start[lease[y]].timer # NoTimer
          BY <2>1, <5>1 DEF LeaseInv, PauseHasAWayOut
        <5> QED
          BY <2>1, <2>3, <3>2, <3>4, <5>1, <5>2
      <4> QED
        BY <4>1, <4>2
    <3> QED
      BY <3>1, <3>5, <3>6 DEF LeaseInv
  <2> QED
    BY <1>2, <2>2, <2>3 DEF Reports, BeginsLease, IdleStart
<1>3. ASSUME NEW t \in Starts, Arms(t)
      PROVE  LeaseInv'
  <2> DEFINE x == start[t].exec
  <2>1. /\ start[t].at = "acquiring"
        /\ start' = [start EXCEPT ![t] = [at |-> "held", exec |-> x, timer |-> 0]]
        /\ lease' = [lease EXCEPT ![x] = t]
        /\ expiring' = [expiring EXCEPT ![x] = FALSE]
        /\ idle' = 0
        /\ UNCHANGED <<engine, reported, runtime, failed, expiry, memory, call>>
    BY <1>3, Zenon DEF Arms, answers
  <2>2. x \in Executions /\ engine[x] # "running"
    BY <2>1, StartFields DEF LeaseInv, Begun
  <2> HIDE DEF x
  <2>3. Begun' /\ Releasing' /\ DownHasNoPause'
    BY <2>1, <2>2 DEF LeaseInv, Begun, Releasing, DownHasNoPause, LeaseTypes, OtherTypes
  <2>4. Clock'
    BY <2>1, ClockAssumption, StartFields DEF LeaseInv, Clock, LeaseTypes
  <2>5. 0 # NoTimer
    BY ClockAssumption DEF NoTimer
  <2>6. /\ lease'[x] # NoLease /\ start'[lease'[x]].timer # NoTimer
        /\ \A s \in Starts \ {t} : start'[s] = start[s]
    BY <2>1, <2>2, <2>5, NamesAssumption DEF LeaseTypes
  <2>7. ASSUME NEW y \in Executions, y # x
        PROVE  /\ lease'[y] = lease[y]
               /\ lease[y] # NoLease => start'[lease[y]] = start[lease[y]]
               /\ \A s \in Starts : start[s].exec = y => start'[s] = start[s]
    <3>1. start[t].exec # y
      BY <2>7 DEF x
    <3>2. lease'[y] = lease[y] /\ lease[y] # t
      BY <2>1, <2>7, <3>1, NamesAssumption DEF LeaseTypes, Entries
    <3> QED
      BY <2>6, <3>1, <3>2 DEF LeaseTypes
  <2>8. Timed'
    BY <2>1, <2>6, <2>7 DEF LeaseInv, Timed
  <2>9. PauseHasAWayOut'
    <3> SUFFICES ASSUME NEW y \in reported', runtime' = "live", engine'[y] = "paused",
                        memory'[y] = NoAnswer, y \notin failed'
                 PROVE  \/ \E s \in Starts : start'[s].at = "acquiring" /\ start'[s].exec = y
                        \/ lease'[y] # NoLease /\ start'[lease'[y]].timer # NoTimer
      BY DEF PauseHasAWayOut
    <3>0. y \in Executions /\ y \in reported
      BY <2>1 DEF OtherTypes
    <3>1. CASE y = x
      BY <2>6, <3>1
    <3>2. CASE y # x
      <4>1. \/ \E s \in Starts : start[s].at = "acquiring" /\ start[s].exec = y
            \/ lease[y] # NoLease /\ start[lease[y]].timer # NoTimer
        BY <2>1, <3>0 DEF LeaseInv, PauseHasAWayOut
      <4> QED
        BY <2>7, <3>0, <3>2, <4>1
    <3> QED
      BY <3>1, <3>2
  <2> QED
    BY <2>3, <2>4, <2>8, <2>9 DEF LeaseInv
<1>4. ASSUME NEW t \in Starts, StartFails(t)
      PROVE  LeaseInv'
  <2>1. /\ start[t].at = "acquiring" /\ start[t].timer = NoTimer
        /\ failed' = failed \cup {start[t].exec} /\ idle' \in {0, idle}
        /\ UNCHANGED <<engine, reported, runtime, lease, expiring, expiry, memory, call>>
    BY <1>4, StartFields DEF StartFails, answers
  <2>2. /\ \A s \in Starts \ {t} : start'[s] = start[s]
        /\ start'[t].at = "idle" \/ (start'[t].at = "held" /\ start'[t].exec = start[t].exec)
        /\ start'[t].timer = NoTimer
    BY <1>4, <2>1 DEF StartFails, IdleStart, LeaseTypes, StartStates
  <2>3. \A y \in Executions : lease[y] # NoLease => lease[y] \in Starts \ {t}
    BY <2>1 DEF LeaseTypes, Entries
  <2>4. Begun' /\ Releasing' /\ DownHasNoPause'
    BY <2>1, <2>2 DEF LeaseInv, Begun, Releasing, DownHasNoPause
  <2>5. Clock'
    BY <2>1, <2>2, ClockAssumption, StartFields DEF LeaseInv, Clock, OtherTypes
  <2>6. Timed'
    BY <2>1, <2>2, <2>3 DEF LeaseInv, Timed
  <2>7. PauseHasAWayOut'
    BY <2>1, <2>2, <2>3 DEF LeaseInv, PauseHasAWayOut, OtherTypes
  <2> QED
    BY <2>4, <2>5, <2>6, <2>7 DEF LeaseInv
<1>5. ASSUME NEW c \in Calls, NEW at, NEW x \in Executions, NEW a, Resumes(c, at, x, a),
             engine[x] # "running", UNCHANGED <<reported, runtime, lease, expiring, failed, expiry>>,
             idle' \in {0, idle}, \A y \in Executions \ {x} : memory'[y] = memory[y]
      PROVE  LeaseInv'
  <2>1. /\ engine'[x] \notin {"running", "paused"}
        /\ \A y \in Executions \ {x} : engine'[y] = engine[y]
    BY <1>5, EngineOver, Zenon DEF Resumes
  <2>2. \A d \in Calls : call'[d].exec = x \/ call'[d] = call[d]
    BY <1>5 DEF Resumes, OtherTypes
  <2>3. \A t \in Starts :
          \/ start'[t] = start[t]
          \/ /\ start[t].at = "held"
             /\ start[t].exec = x
             /\ start'[t].at = "idle" \/ start'[t].exec = x
             /\ start'[t].at # "acquiring"
             /\ start'[t].timer = NoTimer
    BY <1>5, ReleaseEffect, Zenon DEF Resumes
  <2> QED
    BY <1>5, <2>1, <2>2, <2>3, OverKeeps
<1>6. ASSUME NEW c \in Calls, NEW x \in Executions, Asks(c, x)
      PROVE  LeaseInv'
  <2>1. CASE Available(x) # NoAnswer
    <3>1. engine[x] # "running"
      BY <1>6 DEF Asks, LeaseInv, Begun
    <3> QED
      BY <1>5, <1>6, <2>1, <3>1 DEF Asks, TakesAndResumes, OtherTypes
  <2>2. CASE Available(x) = NoAnswer
    <3> DEFINE k == engine[x] \notin {"detached", "lost"}
    <3>1. /\ engine[x] # "running"
          /\ call' = [call EXCEPT ![c] = [at |-> "waiting", exec |-> x, known |-> k]]
          /\ idle' = 0
          /\ UNCHANGED <<engine, reported, start, memory, runtime, lease, expiring, failed, expiry>>
      BY <1>6, <2>2 DEF Asks, answers, LeaseInv, Begun
    <3> HIDE DEF k
    <3>2. Begun' /\ Releasing' /\ DownHasNoPause'
      BY <3>1 DEF LeaseInv, Begun, Releasing, DownHasNoPause, OtherTypes
    <3>3. Clock'
      BY <3>1, ClockAssumption, StartFields DEF LeaseInv, Clock
    <3>4. Timed' /\ PauseHasAWayOut'
      BY <3>1 DEF LeaseInv, Timed, PauseHasAWayOut
    <3> QED
      BY <3>2, <3>3, <3>4 DEF LeaseInv
  <2> QED
    BY <2>1, <2>2
<1>7. ASSUME NEW c \in Calls, NEW x \in Executions, ModelResumes(c, x)
      PROVE  LeaseInv'
  <2>1. PICK at \in {"resuming", "forwarded"} : Resumes(c, at, x, "model")
    BY <1>7, Zenon DEF ModelResumes
  <2>2. engine[x] # "running"
    BY <1>7 DEF ModelResumes, LeaseInv, Begun
  <2> QED
    BY <1>5, <1>7, <2>1, <2>2 DEF ModelResumes, answers
<1>8. ASSUME NEW c \in Calls, StopsWaiting(c)
      PROVE  LeaseInv'
  <2>1. UNCHANGED <<engine, reported, start, memory, runtime, idle, lease, expiring, failed, expiry>>
    BY <1>8 DEF StopsWaiting, leases, answers
  <2>2. ASSUME NEW d \in Calls
        PROVE  /\ call'[d].at # "idle" => call[d].at # "idle" /\ call'[d].exec = call[d].exec
               /\ call'[d].at \in {"resuming", "forwarded"} => call'[d] = call[d]
    <3>1. /\ call'[d] \in {IdleCall, call[d], [call[d] EXCEPT !.at = "stranded"]}
          /\ call'[d] # IdleCall /\ call'[d] # call[d] => call[d].at = "waiting"
      BY <1>8, Zenon DEF StopsWaiting, Waits
    <3>2. call[d] \in CallStates
      BY DEF OtherTypes
    <3> QED
      BY <3>1, <3>2 DEF IdleCall, CallStates
  <2>3. Begun' /\ Releasing'
    BY <2>1, <2>2, CallFields DEF LeaseInv, Begun, Releasing
  <2> QED
    BY <2>1, <2>3 DEF LeaseInv, DownHasNoPause, Timed, Clock, PauseHasAWayOut
<1>9. ASSUME NEW x \in Executions, engine[x] \notin {"running", "paused"}, Release(x),
             \A c \in Calls : call'[c].at = "idle" \/ call'[c] = call[c],
             expiry' \subseteq expiry, UNCHANGED <<engine, reported, runtime, idle, failed, memory>>
      PROVE  LeaseInv'
  <2>1. Release(x) \/ (StopsTimer(x) /\ UNCHANGED <<lease, expiring>>)
    BY <1>9
  <2>2. /\ \A y \in Executions \ {x} : lease'[y] = lease[y] /\ expiring'[y] = expiring[y]
        /\ \A t \in Starts :
          \/ start'[t] = start[t]
          \/ /\ start[t].at = "held"
             /\ start[t].exec = x
             /\ start'[t].at = "idle" \/ start'[t].exec = x
             /\ start'[t].at # "acquiring"
             /\ start'[t].timer = NoTimer
    BY <2>1, ReleaseEffect, Zenon
  <2> QED
    BY <1>9, <2>2, OverKeeps
<1>10. ASSUME NEW c \in Calls, Finishes(c)
       PROVE  LeaseInv'
  <2>1. call[c].exec \in Executions /\ engine[call[c].exec] \notin {"running", "paused"}
    BY <1>10, CallFields DEF Finishes, InResume, LeaseInv, Begun, Releasing
  <2>2. \A d \in Calls : call'[d].at = "idle" \/ call'[d] = call[d]
    BY <1>10 DEF Finishes, IdleCall, OtherTypes
  <2> QED
    BY <1>9, <1>10, <2>1, <2>2 DEF Finishes, answers
<1>11. ASSUME NEW x \in Executions, ExpiryEnds(x)
       PROVE  LeaseInv'
  <2>1. engine[x] \notin {"running", "paused"}
    BY <1>11 DEF ExpiryEnds, LeaseInv, Releasing
  <2> QED
    BY <1>9, <1>11, <2>1 DEF ExpiryEnds, answers
<1>12. ASSUME NEW x \in Executions, SandboxEnds(x)
       PROVE  LeaseInv'
  <2>1. /\ engine[x] = "resuming" /\ engine' = [engine EXCEPT ![x] = "settled"]
        /\ UNCHANGED <<reported, start, memory, runtime, idle, lease, expiring, failed, expiry, call>>
    BY <1>12 DEF SandboxEnds, leases, answers
  <2>2. \A y \in Executions : engine'[y] \in {"running", "paused"} => engine'[y] = engine[y]
    BY <2>1 DEF EngineTypes
  <2>3. \A y \in Executions : engine[y] \in {"running", "paused"} <=> engine'[y] \in {"running", "paused"}
    BY <2>1 DEF EngineTypes
  <2> QED
    BY <2>1, <2>2, <2>3, StartFields, CallFields
    DEF LeaseInv, Begun, Releasing, DownHasNoPause, Timed, Clock, PauseHasAWayOut
<1>13. ASSUME NEW x \in Executions, NEW a \in Answers, Delivers(x, a), engine[x] # "running",
              \A y \in Executions \ {x} : lease'[y] = lease[y] /\ expiring'[y] = expiring[y],
              \A t \in Starts :
                \/ start'[t] = start[t]
                \/ /\ start[t].at = "held"
                   /\ start[t].exec = x
                   /\ start'[t].at = "idle" \/ start'[t].exec = x
                   /\ start'[t].at # "acquiring"
                   /\ start'[t].timer = NoTimer,
              expiry' \subseteq expiry \cup {x}, UNCHANGED <<reported, runtime, idle, failed>>
       PROVE  LeaseInv'
  <2>1. PICK c \in Calls : EngineResumes(x, a, call[c].known)
    BY <1>13, DeliversEffect, Zenon
  <2>2. /\ engine'[x] \notin {"running", "paused"}
        /\ \A y \in Executions \ {x} : engine'[y] = engine[y]
    BY <1>13, <2>1, EngineOver, Zenon
  <2>3. /\ memory' = [memory EXCEPT ![x] = NoAnswer]
        /\ \A d \in Calls : call'[d].at # "idle" => call'[d].exec = x \/ call'[d] = call[d]
    BY <1>13, DeliversEffect, Zenon
  <2>4. \A y \in Executions \ {x} : memory'[y] = memory[y]
    BY <2>3 DEF OtherTypes
  <2> QED
    BY <1>13, <2>2, <2>3, <2>4, OverKeeps
<1>14. ASSUME NEW x \in Executions, HumanAnswers(x)
       PROVE  LeaseInv'
  <2>1. /\ engine[x] = "paused"
        /\ UNCHANGED <<reported, runtime, idle, lease, expiring, failed, expiry>>
    BY <1>14 DEF HumanAnswers
  <2>2. CASE Delivers(x, "human") /\ StopsTimer(x)
    <3>1. \A t \in Starts :
            \/ start'[t] = start[t]
            \/ /\ start[t].at = "held"
               /\ start[t].exec = x
               /\ start'[t].at = "idle" \/ start'[t].exec = x
               /\ start'[t].at # "acquiring"
               /\ start'[t].timer = NoTimer
      BY <2>1, <2>2, ReleaseEffect, Zenon
    <3>2. "human" \in Answers
      BY DEF Answers
    <3> QED
      BY <1>13, <2>1, <2>2, <3>1, <3>2
  <2>3. CASE Keeps(x, "human") /\ UNCHANGED <<engine, given, start>>
    <3>1. /\ memory' = [memory EXCEPT ![x] = "human"]
          /\ UNCHANGED <<engine, start, call>>
      BY <2>3 DEF Keeps
    <3> QED
      BY <2>1, <3>1
      DEF LeaseInv, Begun, Releasing, DownHasNoPause, Timed, Clock, PauseHasAWayOut, OtherTypes
  <2> QED
    BY <1>14, <2>2, <2>3, Zenon DEF HumanAnswers
<1>15. ASSUME NEW t \in Starts, ExpiresIdly(t)
       PROVE  LeaseInv'
  <2> DEFINE x == start[t].exec
  <2>1. /\ start[t].at = "held" /\ x \in Executions /\ engine[x] # "running"
        /\ lease[x] = NoLease \/ expiring[x] = TRUE \/ memory[x] # NoAnswer
        /\ UNCHANGED <<engine, reported, runtime, idle, failed, expiry, memory, call>>
    BY <1>15, StartFields DEF ExpiresIdly, Due, NothingToDecline, answers, LeaseInv, Begun, LeaseTypes
  <2>2. Drops(t, x)
    BY <1>15, Zenon DEF ExpiresIdly
  <2> HIDE DEF x
  <2>3. /\ \A y \in Executions \ {x} : lease'[y] = lease[y] /\ expiring'[y] = expiring[y]
        /\ \A s \in Starts :
          \/ start'[s] = start[s]
          \/ /\ start[s].at = "held"
             /\ start[s].exec = x
             /\ start'[s].at = "idle" \/ start'[s].exec = x
             /\ start'[s].at # "acquiring"
             /\ start'[s].timer = NoTimer
    BY <2>1, <2>2, DropsEffect, Zenon DEF x
  <2>4. CASE engine[x] # "paused"
    BY <2>1, <2>3, <2>4, OverKeeps
  <2>5. CASE engine[x] = "paused"
    <3>1. lease'[x] = NoLease /\ expiring'[x] = FALSE
      BY <2>1, <2>2 DEF Drops, LeaseTypes
    <3>2. lease[x] = NoLease \/ memory[x] # NoAnswer
      BY <2>1, <2>5 DEF LeaseInv, Releasing
    <3>3. Begun' /\ Releasing' /\ DownHasNoPause' /\ Clock'
      BY <2>1, <2>3, <3>1 DEF LeaseInv, Begun, Releasing, DownHasNoPause, Clock
    <3>4. ASSUME NEW y \in Executions, lease'[y] # NoLease
          PROVE  y # x /\ start'[lease'[y]] = start[lease[y]] /\ lease'[y] = lease[y]
      BY <2>3, <3>1, <3>4 DEF LeaseTypes, Entries
    <3>5. Timed'
      BY <2>1, <3>4 DEF LeaseInv, Timed
    <3>6. PauseHasAWayOut'
      <4> SUFFICES ASSUME NEW y \in reported', runtime' = "live", engine'[y] = "paused",
                          memory'[y] = NoAnswer, y \notin failed'
                   PROVE  \/ \E s \in Starts : start'[s].at = "acquiring" /\ start'[s].exec = y
                          \/ lease'[y] # NoLease /\ start'[lease'[y]].timer # NoTimer
        BY DEF PauseHasAWayOut
      <4>0. y \in Executions /\ y \in reported
        BY <2>1 DEF OtherTypes
      <4>1. \/ \E s \in Starts : start[s].at = "acquiring" /\ start[s].exec = y
            \/ lease[y] # NoLease /\ start[lease[y]].timer # NoTimer
        BY <2>1, <4>0 DEF LeaseInv, PauseHasAWayOut
      <4>2. CASE y = x
        BY <2>1, <2>3, <3>2, <4>1, <4>2
      <4>3. CASE y # x
        BY <2>3, <4>0, <4>1, <4>3 DEF LeaseTypes, Entries
      <4> QED
        BY <4>2, <4>3
    <3> QED
      BY <3>3, <3>5, <3>6 DEF LeaseInv
  <2> QED
    BY <2>4, <2>5
<1>16. ASSUME NEW t \in Starts, DeclinesToWaiter(t) \/ DeclinesToNobody(t)
       PROVE  LeaseInv'
  <2> DEFINE x == start[t].exec
  <2>1. start[t].at = "held" /\ x \in Executions /\ engine[x] # "running" /\ "timeout" \in Answers
    BY <1>16, StartFields DEF DeclinesToWaiter, DeclinesToNobody, Due, LeaseInv, Begun, Answers
  <2>2. Drops(t, x) /\ UNCHANGED <<reported, runtime, idle, failed, expiry>>
    BY <1>16, Zenon DEF DeclinesToWaiter, DeclinesToNobody
  <2>3. \/ Delivers(x, "timeout")
        \/ Keeps(x, "timeout") /\ runtime = "down" /\ UNCHANGED engine
    BY <1>16, Zenon DEF DeclinesToWaiter, DeclinesToNobody
  <2> HIDE DEF x
  <2>4. /\ \A y \in Executions \ {x} : lease'[y] = lease[y] /\ expiring'[y] = expiring[y]
        /\ \A s \in Starts :
          \/ start'[s] = start[s]
          \/ /\ start[s].at = "held"
             /\ start[s].exec = x
             /\ start'[s].at = "idle" \/ start'[s].exec = x
             /\ start'[s].at # "acquiring"
             /\ start'[s].timer = NoTimer
    BY <2>1, <2>2, DropsEffect, Zenon DEF x
  <2>5. CASE Delivers(x, "timeout")
    BY <1>13, <2>1, <2>2, <2>4, <2>5
  <2>6. CASE Keeps(x, "timeout") /\ runtime = "down" /\ UNCHANGED engine
    <3>1. engine[x] # "paused"
      BY <2>1, <2>6 DEF LeaseInv, DownHasNoPause
    <3>2. /\ \A y \in Executions \ {x} : memory'[y] = memory[y]
          /\ UNCHANGED call
      BY <2>6 DEF Keeps, OtherTypes
    <3> QED
      BY <2>1, <2>2, <2>4, <2>6, <3>1, <3>2, OverKeeps
  <2> QED
    BY <2>3, <2>5, <2>6
<1>17. ASSUME NEW t \in Starts, DeclinesItself(t)
       PROVE  LeaseInv'
  <2> DEFINE x == start[t].exec
  <2>1. start[t].at = "held" /\ x \in Executions /\ engine[x] # "running" /\ "timeout" \in Answers
    BY <1>17, StartFields DEF DeclinesItself, Due, LeaseInv, Begun, Answers
  <2>2. /\ \/ Delivers(x, "timeout")
           \/ Keeps(x, "timeout") /\ EngineResumes(x, "timeout", FALSE)
        /\ expiry' = expiry \cup {x}
        /\ expiring' = [expiring EXCEPT ![x] = TRUE]
        /\ start' = [s \in Starts |->
             IF s \in {t, lease[x]} THEN [start[s] EXCEPT !.timer = NoTimer] ELSE start[s]]
        /\ UNCHANGED <<reported, runtime, idle, lease, failed>>
    BY <1>17, Zenon DEF DeclinesItself
  <2>3. \A s \in Starts :
          \/ start'[s] = start[s]
          \/ /\ start[s].at = "held"
             /\ start[s].exec = x
             /\ start'[s].at = "idle" \/ start'[s].exec = x
             /\ start'[s].at # "acquiring"
             /\ start'[s].timer = NoTimer
    BY <2>1, <2>2, NamesAssumption DEF LeaseTypes, Entries, StartStates, IdleStart
  <2> HIDE DEF x
  <2>4. \A y \in Executions \ {x} : lease'[y] = lease[y] /\ expiring'[y] = expiring[y]
    BY <2>2 DEF LeaseTypes
  <2>5. CASE Delivers(x, "timeout")
    BY <1>13, <2>1, <2>2, <2>3, <2>4, <2>5
  <2>6. CASE Keeps(x, "timeout") /\ EngineResumes(x, "timeout", FALSE)
    <3>1. /\ engine'[x] \notin {"running", "paused"}
          /\ \A y \in Executions \ {x} : engine'[y] = engine[y]
      BY <2>1, <2>6, EngineOver, Zenon
    <3>2. /\ \A y \in Executions \ {x} : memory'[y] = memory[y]
          /\ UNCHANGED call
      BY <2>6 DEF Keeps, OtherTypes
    <3>3. /\ expiry' \subseteq expiry \cup {x}
          /\ UNCHANGED <<reported, runtime, idle, failed>>
      BY <2>2
    <3> QED
      BY <2>1, <2>3, <2>4, <3>1, <3>2, <3>3, OverKeeps
  <2> QED
    BY <2>2, <2>5, <2>6
<1>18. ASSUME Tick
       PROVE  LeaseInv'
  <2>1. UNCHANGED <<engine, reported, memory, runtime, lease, expiring, failed, expiry, call>>
    BY <1>18 DEF Tick, answers
  <2>2. idle' \in Nat /\ idle' <= idle + 1
    BY <1>18, ClockAssumption DEF Tick, OtherTypes
  <2>3. ASSUME NEW t \in Starts
        PROVE  /\ start'[t].at = start[t].at /\ start'[t].exec = start[t].exec
               /\ start[t].timer = NoTimer <=> start'[t].timer = NoTimer
               /\ start[t].timer # NoTimer =>
                    \/ start[t].timer = ApprovalTimeout /\ start'[t].timer = start[t].timer
                    \/ start'[t].timer = start[t].timer + 1
    <3>1. start' = [s \in Starts |->
             IF start[s].timer < ApprovalTimeout
             THEN [start[s] EXCEPT !.timer = @ + 1] ELSE start[s]]
      BY <1>18 DEF Tick
    <3>2. /\ start[t].timer \in Nat /\ start[t].timer <= ApprovalTimeout + 1
          /\ ApprovalTimeout \in Nat /\ NoTimer = ApprovalTimeout + 1
      BY StartFields, ClockAssumption DEF NoTimer
    <3>3. CASE start[t].timer < ApprovalTimeout
      <4>1. start'[t] = [start[t] EXCEPT !.timer = start[t].timer + 1]
        BY <3>1, <3>3
      <4>2. /\ start'[t].at = start[t].at /\ start'[t].exec = start[t].exec
            /\ start'[t].timer = start[t].timer + 1
        BY <4>1 DEF LeaseTypes, StartStates, IdleStart
      <4> QED
        BY <3>2, <3>3, <4>2
    <3>4. CASE ~(start[t].timer < ApprovalTimeout)
      <4>1. start'[t] = start[t]
        BY <3>1, <3>4
      <4> QED
        BY <3>2, <3>4, <4>1
    <3> QED
      BY <3>3, <3>4
  <2>4. Begun' /\ Releasing' /\ DownHasNoPause'
    BY <2>1, <2>3 DEF LeaseInv, Begun, Releasing, DownHasNoPause
  <2>5. Timed' /\ PauseHasAWayOut'
    BY <2>1, <2>3 DEF LeaseInv, Timed, PauseHasAWayOut, LeaseTypes, OtherTypes
  <2>6. Clock'
    <3> SUFFICES ASSUME NEW t \in Starts, start'[t].timer # NoTimer
                 PROVE  idle' <= start'[t].timer \/ start'[t].timer = ApprovalTimeout
      BY DEF Clock
    <3>1. idle <= start[t].timer \/ start[t].timer = ApprovalTimeout
      BY <2>3 DEF LeaseInv, Clock
    <3>2. start[t].timer \in Nat /\ idle \in Nat
      BY StartFields, ClockAssumption DEF OtherTypes
    <3>3. \/ start[t].timer = ApprovalTimeout /\ start'[t].timer = start[t].timer
          \/ start'[t].timer = start[t].timer + 1
      BY <2>3
    <3>4. start[t].timer = ApprovalTimeout => start'[t].timer = ApprovalTimeout
      BY <1>18, ClockAssumption DEF Tick, LeaseTypes
    <3> QED
      BY <2>2, <3>1, <3>2, <3>3, <3>4
  <2> QED
    BY <2>4, <2>5, <2>6 DEF LeaseInv
<1>19. ASSUME ReleasesAll
       PROVE  /\ \A y \in Executions : lease'[y] = NoLease /\ expiring'[y] = FALSE
              /\ \A t \in Starts : start'[t] \in {IdleStart, start[t]}
  BY <1>19 DEF ReleasesAll, LeaseTypes
<1>23. ASSUME NEW work \in BOOLEAN, DisposeBegins(work)
       PROVE  LeaseInv'
  <2>1. /\ runtime' = "closing" /\ ReleasesAll
        /\ UNCHANGED <<engine, reported, idle, failed, expiry, memory, call>>
    BY <1>23 DEF DisposeBegins, answers
  <2>2. Begun' /\ Clock'
    BY <1>19, <2>1 DEF LeaseInv, Begun, Clock, IdleStart
  <2> QED
    BY <1>19, <2>1, <2>2 DEF LeaseInv, Releasing, DownHasNoPause, Timed, PauseHasAWayOut
<1>20. ASSUME DisposeEnds \/ Evicts
       PROVE  LeaseInv'
  <2>1. runtime' = "down"
    BY <1>20 DEF DisposeEnds, Evicts
  <2>2. ASSUME NEW y \in Executions
        PROVE  engine'[y] # "paused" /\ (engine'[y] = "running" => engine[y] = "running")
    BY <1>20 DEF DisposeEnds, Evicts, EngineTypes
  <2>3. CASE DisposeEnds
    <3>1. UNCHANGED <<reported, idle, lease, expiring, start, failed, expiry, memory, call>>
      BY <2>3 DEF DisposeEnds, leases, answers
    <3> QED
      BY <2>1, <2>2, <3>1, StartFields, CallFields
      DEF LeaseInv, Begun, Releasing, DownHasNoPause, Timed, Clock, PauseHasAWayOut, OtherTypes
  <2>4. CASE Evicts
    <3>1. \A y \in reported' : engine'[y] # "running"
      BY <2>2, <2>4 DEF Evicts, LeaseInv, Begun, OtherTypes
    <3>2. Begun' /\ Clock'
      BY <2>4, <3>1 DEF Evicts, IdleStart, IdleCall, Begun, Clock
    <3> QED
      BY <2>1, <2>2, <2>4, <3>2
      DEF Evicts, IdleCall, LeaseInv, Releasing, DownHasNoPause, Timed, PauseHasAWayOut
  <2> QED
    BY <1>20, <2>3, <2>4
<1>21. ASSUME Restores
       PROVE  LeaseInv'
  <2>1. /\ runtime = "down" /\ runtime' = "live" /\ idle' = 0 /\ ReleasesAll
        /\ UNCHANGED <<engine, reported, failed, expiry, memory, call>>
    BY <1>21 DEF Restores, answers
  <2>2. Begun'
    BY <1>19, <2>1 DEF LeaseInv, Begun, IdleStart
  <2>3. Clock'
    BY <1>19, <2>1, ClockAssumption, StartFields DEF Clock, IdleStart
  <2>4. \A x \in Executions : engine'[x] # "paused"
    BY <2>1 DEF LeaseInv, DownHasNoPause
  <2>5. Releasing' /\ DownHasNoPause' /\ Timed'
    BY <1>19, <2>1 DEF LeaseInv, Releasing, DownHasNoPause, Timed
  <2>6. PauseHasAWayOut'
    BY <2>1, <2>4 DEF PauseHasAWayOut, OtherTypes
  <2> QED
    BY <2>2, <2>3, <2>5, <2>6 DEF LeaseInv
<1>24. ASSUME OtherRequest
       PROVE  LeaseInv'
  <2>1. /\ UNCHANGED <<engine, reported, lease, expiring, start, failed, expiry, memory, call, runtime>>
        /\ idle' = 0
    BY <1>24 DEF OtherRequest, leases, answers
  <2>2. Clock'
    BY <2>1, ClockAssumption, StartFields DEF Clock
  <2> QED
    BY <2>1, <2>2 DEF LeaseInv, Begun, Releasing, DownHasNoPause, Timed, PauseHasAWayOut
<1>22. ASSUME UNCHANGED vars
       PROVE  LeaseInv'
  BY <1>22 DEF vars, leases, answers, LeaseInv, Begun, Releasing, DownHasNoPause, Timed, Clock,
               PauseHasAWayOut
<1> QED
  BY <1>1, <1>2, <1>3, <1>4, <1>6, <1>7, <1>8, <1>10, <1>11, <1>12, <1>14, <1>15, <1>16, <1>17,
     <1>18, <1>20, <1>21, <1>22, <1>23, <1>24, Zenon DEF Next

(* A pause that a reply reported and that a live session can still resume is  *)
(* under a lease whose timer runs, or about to be, or its answer waits in     *)
(* memory, or its start failed: no release, expiry or resume takes the lease  *)
(* of a reported pause that is still open (startPendingApprovalLease,         *)
(* releasePendingApprovalLease, expirePendingApproval).                       *)
THEOREM ReportedPauseHasAWayOut == Spec => []PauseHasAWayOut
<1>1. LeaseTypes /\ EngineTypes /\ OtherTypes /\ LeaseInv /\ [Next]_vars =>
        LeaseTypes' /\ EngineTypes' /\ OtherTypes' /\ LeaseInv'
  BY TypeStep, LeaseStep, Zenon
<1>2. Init => LeaseTypes /\ EngineTypes /\ OtherTypes /\ LeaseInv
  BY TypeInit, LeaseInit, TypeParts, Zenon
<1>3. LeaseInv => PauseHasAWayOut
  BY DEF LeaseInv
<1> QED
  BY <1>1, <1>2, <1>3, PTL DEF Spec

(* A timer that runs is never behind the idle clock a disposal waits for.     *)
LEMMA DisposalStep ==
  ASSUME LeaseTypes, EngineTypes, OtherTypes, LeaseInv, [Next]_vars,
         MaxPausedIdle >= ApprovalTimeout, Addressable,
         runtime = "live", runtime' = "closing",
         NEW x \in Executions, engine[x] = "paused", lease[x] # NoLease
  PROVE  start[lease[x]].timer = ApprovalTimeout
<1>1. PICK work \in BOOLEAN : DisposeBegins(work)
  <2>1. runtime' # runtime /\ runtime' # "down"
    OBVIOUS
  <2> QED
    BY <2>1
    DEF Next, vars, Pauses, Reports, Arms, StartFails, Asks, ModelResumes, StopsWaiting, Finishes,
        SandboxEnds, HumanAnswers, ExpiryEnds, ExpiresIdly, DeclinesToWaiter, DeclinesToNobody,
        DeclinesItself, Tick, DisposeEnds, Restores, OtherRequest, Evicts
<1>2. idle >= MaxPausedIdle
  BY <1>1 DEF DisposeBegins, DestroysIdleSession, Paused
<1>3. lease[x] \in Starts /\ start[lease[x]].timer # NoTimer
  BY DEF LeaseInv, Timed, LeaseTypes
<1>4. /\ start[lease[x]].timer \in Nat
      /\ start[lease[x]].timer <= ApprovalTimeout + 1
      /\ idle <= start[lease[x]].timer \/ start[lease[x]].timer = ApprovalTimeout
  BY <1>3, StartFields DEF LeaseInv, Clock, NoTimer
<1>5. MaxPausedIdle \in Nat /\ ApprovalTimeout \in Nat /\ idle \in Nat
  BY ClockAssumption DEF OtherTypes
<1> QED
  BY <1>2, <1>3, <1>4, <1>5 DEF NoTimer

(* In a session that has a server name, the step that begins a disposal takes *)
(* no lease whose approval window is still open, when the limit for paused    *)
(* sessions is not below that window: the session was idle for longer than    *)
(* any timer can have run.  The two limits of the idle alarm are otherwise    *)
(* independent, as the hosts that override them make them (decideSessionAlarm,*)
(* maxPausedSessionIdleMs).                                                   *)
THEOREM DisposalSpares ==
  ASSUME MaxPausedIdle >= ApprovalTimeout
  PROVE  Spec => DisposalSparesApprovals
<1>1. LeaseTypes /\ EngineTypes /\ OtherTypes /\ LeaseInv /\ [Next]_vars =>
        LeaseTypes' /\ EngineTypes' /\ OtherTypes' /\ LeaseInv'
  BY TypeStep, LeaseStep, Zenon
<1>2. Init => LeaseTypes /\ EngineTypes /\ OtherTypes /\ LeaseInv
  BY TypeInit, LeaseInit, TypeParts, Zenon
<1>3. LeaseTypes /\ EngineTypes /\ OtherTypes /\ LeaseInv /\ [Next]_vars =>
        [Addressable /\ runtime = "live" /\ runtime' = "closing" =>
           \A x \in Executions : engine[x] = "paused" /\ lease[x] # NoLease =>
             start[lease[x]].timer = ApprovalTimeout]_vars
  BY DisposalStep, Zenon
<1> QED
  BY <1>1, <1>2, <1>3, PTL DEF Spec, DisposalSparesApprovals
=============================================================================
